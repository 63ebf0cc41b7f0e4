------------------------------ MODULE MCCampus ------------------------------
(* The components side by side, each on small sets, and the rules that keep *)
(* nothing.                                                                 *)
EXTENDS Campus, MCRules, TLC

\* The three pairs are interchangeable wherever they are used.
CONSTANTS a1, a2, b1, b2, c1, c2, f1, f2, p1, p2, p3, t1, t2

PairA == {a1, a2}
PairB == {b1, b2}
PairC == {c1, c2}
Interchangeable == Permutations(PairA) \cup Permutations(PairB) \cup Permutations(PairC)

OneOfIt == {x1}
OneLecturer == {t1}
TwoVisits == {v1, v2}
TwoDepartments == {f1, f2}

\* Evaluations: a round open up to the second tick; one lecturer, for either of two departments.
OneWindow == {<<0, 1>>}
EitherDepartment == OneLecturer \X PairB
EveryDepartment == {PairB}

\* TeachingLists, Invigilation: a lecturer on the list of one of the departments.
TheirDepartment == t1 :> f1
ThePerson == t1 :> x1

\* Invigilation: three papers at one time, two of them one department's, in two rooms.
ThreePapers == {p1, p2, p3}
FacultyOfEach == p1 :> f1 @@ p2 :> f1 @@ p3 :> f2
InDraft(room, extras) == [slot |-> 1, main |-> room, extras |-> extras]
OneDraft == <<p1 :> InDraft(v1, {v2}) @@ p2 :> InDraft(v2, {}) @@ p3 :> InDraft(v2, {})>>

\* Recognition: photo 3 is like 1 and a little like 2; 1 and 2 are hardly alike.
HowLike(p, q) ==
  IF p = q THEN 4 ELSE CASE {p, q} = {1, 2} -> 1 [] {p, q} = {1, 3} -> 3 [] {p, q} = {2, 3} -> 2

\* Rosters: one unit that two lecturers are listed for in turn, and one student.
UnitLists(teacher, students) == x1 :> [teacher |-> teacher, listed |-> students]
OneTimetable == {<<UnitLists(a1, {}), UnitLists(a2, {1})>>}

\* Departments: the first two spellings differ in wording that department_key drops.
KeysOfThem == <<"a", "a", "b">>
OneList == {<<3, none>>}
TwoFirstNames == {<<2>>, <<1, 2>>}

\* AttendanceFigures: two units of one department, one taught by another department's lecturer.
TwoModules == {p1, p2}
TaughtByThem == p1 :> t1 @@ p2 :> t2
OwnedByOne == p1 :> f1 @@ p2 :> f1
YearsOfThem == p1 :> 1 @@ p2 :> 0
HomesOfThem == t1 :> f1 @@ t2 :> f2
TwoPolicies == {[least |-> 50, margin |-> 25], [least |-> 67, margin |-> 50]}
OneSlot == p1 :> {[start |-> 0, end |-> 3]} @@ p2 :> {}

=============================================================================
