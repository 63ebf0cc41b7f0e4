--------------------------- MODULE TeachingLists ---------------------------
(* What the departments teach in one term: courses (cohorts), units with   *)
(* the courses that take them, each unit's groups, and the lecturers'      *)
(* lists.  A department's writes are serialised by its own advisory lock,  *)
(* so each is one step here; two departments share no lock, only the       *)
(* unique and foreign keys.  A paste from Excel is one step of many rows,  *)
(* each undone on its own when it is refused.  The Director's import reads *)
(* the term table by table, under no lock and in no transaction, and the   *)
(* publications beside that.                                               *)
EXTENDS Naturals, FiniteSets, FiniteSetsExt, SequencesExt, Functions

CONSTANTS
  Departments,
  Courses,      \* cohorts: programme, year, semester and sub-class
  Units,        \* unit codes, compared without spaces; one per term
  Lecturers,    \* rows of the lecturers' lists
  ListOf,       \* lecturer -> the department on whose list the row is
  PersonOf,     \* lecturer -> the person: one staff number may be on two lists
  Labels,       \* names of the groups of a split unit
  MaxStudents,  \* bound: students of a cohort
  HoursLimit,   \* maxWeeklyHours of every lecturer; a unit takes one hour a week
  NoDepartment, NoLecturer,
  MaxWrites,    \* bound: writes to the term
  MaxLists,     \* bound: times a department publishes
  MaxMeanwhile  \* bound: steps of the departments after the import began

Whole == ""  \* the label of a whole class

\* What the constants must satisfy.
TeachingAssumption ==
  /\ ListOf \in [Lecturers -> Departments]
  /\ NoDepartment \notin Departments
  /\ NoLecturer \notin Lecturers
  /\ Whole \notin Labels
  /\ IsFiniteSet(Lecturers)
  /\ {MaxStudents, HoursLimit, MaxWrites, MaxLists, MaxMeanwhile} \subseteq Nat

VARIABLES
  term,     \* [course, unit, lecturer]: everything entered for the term
  listing,  \* department -> [standing, number]: is its latest publication standing, and how many there were
  director, \* the Director's import: the listings when it began, what it has read since, and the steps meanwhile
  edits     \* writes so far

teachingVars == <<term, listing, director, edits>>

NoUnit == [dept |-> NoDepartment, courses |-> {}, groups |-> <<>>]

\* Of the import: it has not begun, or has not read the publications; otherwise the one value it read.
Unread == <<>>

-----------------------------------------------------------------------------
(* Reading the term. *)

OwnUnits(t, d) == {u \in Units : t.unit[u].dept = d}
UnitsTaking(t, c) == {u \in Units : c \in t.unit[u].courses}

\* A course's students in a group: its share when it is split, else all of them.
MemberStudents(g, c, all) == IF g.members[c] = 0 THEN all ELSE g.members[c]

\* The groups a course is in, and how many of its students they take together.
Having(groups, c) == {l \in DOMAIN groups : c \in DOMAIN groups[l].members}
PlacedOf(groups, c, all) == MapThenSumSet(LAMBDA l : MemberStudents(groups[l], c, all), Having(groups, c))

NamedFor(t, u) == {t.unit[u].groups[l].lecturer : l \in DOMAIN t.unit[u].groups}

\* One person's hours a week, from every department's groups.
WeeklyLoad(t, p) ==
  MapThenSumSet(LAMBDA u : Cardinality({l \in DOMAIN t.unit[u].groups :
                              LET who == t.unit[u].groups[l].lecturer
                              IN who # NoLecturer /\ PersonOf[who] = p}), Units)

\* What must be fixed in one unit before its department can publish.
UnitReady(t, u) ==
  LET groups == t.unit[u].groups
  IN /\ t.unit[u].courses # {}
     /\ DOMAIN groups # {}
     /\ \A l \in DOMAIN groups : groups[l].lecturer # NoLecturer /\ DOMAIN groups[l].members # {}
     /\ \A c \in t.unit[u].courses :
          Having(groups, c) # {} /\ PlacedOf(groups, c, t.course[c].students) = t.course[c].students

Problems(t, d) ==
  \/ OwnUnits(t, d) = {}
  \/ \E u \in OwnUnits(t, d) : ~UnitReady(t, u)
  \/ \E u \in OwnUnits(t, d) : \E k \in NamedFor(t, u) \ {NoLecturer} :
       ~t.lecturer[k].staff \/ WeeklyLoad(t, PersonOf[k]) > HoursLimit

-----------------------------------------------------------------------------
(* The writes, as functions of the term: what each accepts and what it     *)
(* leaves.  Everything is checked before anything is written.              *)

Group(who, members) == [lecturer |-> who, members |-> members]
WholeClass(courses) == [l \in {Whole} |-> Group(NoLecturer, [c \in courses |-> 0])]

\* createCourseIn, and updateCourseIn for the department's own course.
CanSaveCourse(t, d, c) == t.course[c].dept \in {NoDepartment, d}
SaveCourse(t, d, c, n) == [t EXCEPT !.course[c] = [dept |-> d, students |-> n]]

CanDeleteCourse(t, d, c) == t.course[c].dept = d /\ UnitsTaking(t, c) = {}
DeleteCourse(t, c) == [t EXCEPT !.course[c] = [dept |-> NoDepartment, students |-> 0]]

InTerm(t, courses) == \A c \in courses : t.course[c].dept # NoDepartment

\* A new unit is one whole class of the courses taking it.
CanCreateUnit(t, u, courses) == t.unit[u].dept = NoDepartment /\ courses # {} /\ InTerm(t, courses)
CreateUnit(t, d, u, courses) ==
  [t EXCEPT !.unit[u] = [dept |-> d, courses |-> courses, groups |-> WholeClass(courses)]]

(* A change of courses takes the others out of every group; a whole class  *)
(* gains the new ones.                                                     *)
Pruned(unit, courses) ==
  LET kept(g) == Restrict(g.members, DOMAIN g.members \cap courses)
      gained(g) == [c \in courses |-> IF c \in DOMAIN g.members THEN g.members[c] ELSE 0]
  IN [l \in DOMAIN unit.groups |->
        Group(unit.groups[l].lecturer,
              IF DOMAIN unit.groups = {Whole} THEN gained(unit.groups[l]) ELSE kept(unit.groups[l]))]

CanUpdateUnit(t, d, u, courses) == t.unit[u].dept = d /\ courses # {} /\ InTerm(t, courses)
UpdateUnit(t, u, courses) ==
  [t EXCEPT !.unit[u] = [dept |-> t.unit[u].dept, courses |-> courses, groups |-> Pruned(t.unit[u], courses)]]

CanDeleteUnit(t, d, u) == t.unit[u].dept = d
DeleteUnit(t, u) == [t EXCEPT !.unit[u] = NoUnit]

\* lecturerFor: nobody, or somebody active on the department's own list.
MayTeach(t, d, k) ==
  k \in {NoLecturer} \cup {j \in Lecturers : ListOf[j] = d /\ t.lecturer[j].there /\ t.lecturer[j].active}

(* setGroupsIn: `split` maps each label to its members' shares.  A group   *)
(* kept by label keeps its lecturer.                                       *)
CanSetGroups(t, d, u, split) ==
  /\ t.unit[u].dept = d
  /\ DOMAIN split # {}
  /\ Whole \in DOMAIN split => DOMAIN split = {Whole}
  /\ \A l \in DOMAIN split :
       /\ DOMAIN split[l] # {}
       /\ \A c \in DOMAIN split[l] : c \in t.unit[u].courses /\ split[l][c] <= t.course[c].students

SetGroups(t, u, split) ==
  LET old == t.unit[u].groups
  IN [t EXCEPT !.unit[u].groups =
        [l \in DOMAIN split |-> Group(IF l \in DOMAIN old THEN old[l].lecturer ELSE NoLecturer, split[l])]]

CanUpdateGroup(t, d, u, l, k) == t.unit[u].dept = d /\ l \in DOMAIN t.unit[u].groups /\ MayTeach(t, d, k)
UpdateGroup(t, u, l, k) == [t EXCEPT !.unit[u].groups[l].lecturer = k]

\* One staff number once on a list; a lecturer somebody names cannot be taken off it.
CanSaveLecturer(t, d, k, staff) ==
  /\ ListOf[k] = d
  /\ staff => \A j \in Lecturers \ {k} :
       ~(ListOf[j] = d /\ PersonOf[j] = PersonOf[k] /\ t.lecturer[j].there /\ t.lecturer[j].staff)
SaveLecturer(t, k, staff, active) == [t EXCEPT !.lecturer[k] = [there |-> TRUE, staff |-> staff, active |-> active]]

CanDeleteLecturer(t, d, k) ==
  ListOf[k] = d /\ t.lecturer[k].there /\ \A u \in Units : k \notin NamedFor(t, u)
DeleteLecturer(t, k) == [t EXCEPT !.lecturer[k] = [there |-> FALSE, staff |-> FALSE, active |-> FALSE]]

\* Pasted rows: each is applied when it is acceptable by then, the others leave nothing behind.
CourseRow(now, d, row) == IF CanSaveCourse(now, d, row[1]) THEN SaveCourse(now, d, row[1], row[2]) ELSE now
PasteCourses(t, d, rows) == FoldLeft(LAMBDA now, row : CourseRow(now, d, row), t, rows)

UnitRow(now, d, row) ==
  IF CanUpdateUnit(now, d, row[1], row[2]) THEN UpdateUnit(now, row[1], row[2])
  ELSE IF CanCreateUnit(now, row[1], row[2]) THEN CreateUnit(now, d, row[1], row[2]) ELSE now
PasteUnits(t, d, rows) == FoldLeft(LAMBDA now, row : UnitRow(now, d, row), t, rows)

(* A unit's rows together replace its groups and name their lecturers; a   *)
(* lecturer not on the list yet is added to it, unless the unit's rows are *)
(* refused.                                                                *)
PasteGroups(t, d, u, split, k) ==
  LET added == IF t.lecturer[k].there THEN t ELSE SaveLecturer(t, k, CanSaveLecturer(t, d, k, TRUE), TRUE)
      set == SetGroups(added, u, split)
  IN IF ListOf[k] = d /\ MayTeach(added, d, k) /\ CanSetGroups(added, d, u, split)
     THEN [set EXCEPT !.unit[u].groups = [l \in DOMAIN split |-> Group(k, split[l])]]
     ELSE t

\* Each row once, with its staff number; who is on the list already keeps their standing.
LecturerRow(now, d, k) ==
  IF CanSaveLecturer(now, d, k, TRUE)
  THEN SaveLecturer(now, k, TRUE, now.lecturer[k].there => now.lecturer[k].active) ELSE now
PasteLecturers(t, d, rows) == FoldSet(LAMBDA k, now : LecturerRow(now, d, k), t, rows)

-----------------------------------------------------------------------------
TeachingInit ==
  /\ term = [course   |-> [c \in Courses |-> [dept |-> NoDepartment, students |-> 0]],
             unit     |-> [u \in Units |-> NoUnit],
             lecturer |-> [k \in Lecturers |-> [there |-> FALSE, staff |-> FALSE, active |-> FALSE]]]
  /\ listing = [d \in Departments |-> [standing |-> FALSE, number |-> 0]]
  /\ director = [meanwhile |-> 0, then |-> Unread, tables |-> <<>>, list |-> Unread]
  /\ edits = 0

\* Mutant for ImportMatchesUnlessRepublished and PublishedListComplete: the publish check is forgotten.
AlwaysOpen(d) == TRUE

\* requireOpen, asked under the department's lock.
Open(d) == ~listing[d].standing

\* A department's step, counted once the import has begun.
Meanwhile ==
  /\ director.then # Unread => director.meanwhile < MaxMeanwhile
  /\ director' = [director EXCEPT !.meanwhile = IF director.then = Unread THEN 0 ELSE @ + 1]

\* One write of one department: under its lock, refused while its list is published.
WriteWhilePublished(new) ==
  /\ edits < MaxWrites
  /\ new # term
  /\ term' = new
  /\ edits' = edits + 1
  /\ Meanwhile
  /\ UNCHANGED listing

Write(d, new) == Open(d) /\ WriteWhilePublished(new)

Splits(u) ==
  UNION {[ls -> UNION {[cs -> 0 .. MaxStudents] : cs \in SUBSET term.unit[u].courses}] :
         ls \in {{Whole}} \cup SUBSET Labels}

EditCourse(d) ==
  \E c \in Courses :
    \/ \E n \in 1 .. MaxStudents : CanSaveCourse(term, d, c) /\ Write(d, SaveCourse(term, d, c, n))
    \/ CanDeleteCourse(term, d, c) /\ Write(d, DeleteCourse(term, c))

EditUnit(d) ==
  \E u \in Units :
    \/ \E cs \in SUBSET Courses : CanCreateUnit(term, u, cs) /\ Write(d, CreateUnit(term, d, u, cs))
    \/ \E cs \in SUBSET Courses : CanUpdateUnit(term, d, u, cs) /\ Write(d, UpdateUnit(term, u, cs))
    \/ CanDeleteUnit(term, d, u) /\ Write(d, DeleteUnit(term, u))

EditGroups(d) ==
  \E u \in OwnUnits(term, d) :
    \/ \E split \in Splits(u) : CanSetGroups(term, d, u, split) /\ Write(d, SetGroups(term, u, split))
    \/ \E l \in DOMAIN term.unit[u].groups, k \in Lecturers \cup {NoLecturer} :
         CanUpdateGroup(term, d, u, l, k) /\ Write(d, UpdateGroup(term, u, l, k))

\* Lecturers' lists are not per term and stay editable while a list is published.
EditLecturer(d) ==
  \E k \in Lecturers :
    \/ \E staff, active \in BOOLEAN :
         CanSaveLecturer(term, d, k, staff) /\ WriteWhilePublished(SaveLecturer(term, k, staff, active))
    \/ CanDeleteLecturer(term, d, k) /\ WriteWhilePublished(DeleteLecturer(term, k))

Paste(d) ==
  \/ \E c1, c2 \in Courses : c1 # c2 /\ Write(d, PasteCourses(term, d, <<<<c1, 1>>, <<c2, MaxStudents>>>>))
  \/ \E u1, u2 \in Units, cs \in SUBSET Courses : u1 # u2 /\ Write(d, PasteUnits(term, d, <<<<u1, cs>>, <<u2, cs>>>>))
  \/ \E u \in OwnUnits(term, d), k \in Lecturers : \E split \in Splits(u) : Write(d, PasteGroups(term, d, u, split, k))
  \/ WriteWhilePublished(PasteLecturers(term, d, Lecturers))

Publish(d) ==
  /\ Open(d)
  /\ ~Problems(term, d)
  /\ listing[d].number < MaxLists
  /\ listing' = [listing EXCEPT ![d] = [standing |-> TRUE, number |-> @.number + 1]]
  /\ Meanwhile
  /\ UNCHANGED <<term, edits>>

Reopen(d) ==
  /\ ~Open(d)
  /\ listing' = [listing EXCEPT ![d].standing = FALSE]
  /\ Meanwhile
  /\ UNCHANGED <<term, edits>>

\* The tables loadTerm reads, one statement each, in this order.
OwnCourses(t, d) == {c \in Courses : t.course[c].dept = d}
LecturersNamed(t) == (UNION {NamedFor(t, u) : u \in Units}) \ {NoLecturer}
TableOf(t, n) ==
  CASE n = 1 -> [c \in Courses |-> t.course[c].students]
    [] n = 2 -> [u \in Units |-> t.unit[u].dept]
    [] n = 3 -> [u \in Units |-> t.unit[u].courses]
    [] n = 4 -> [u \in Units |-> [l \in DOMAIN t.unit[u].groups |-> t.unit[u].groups[l].lecturer]]
    [] n = 5 -> [u \in Units |-> [l \in DOMAIN t.unit[u].groups |-> t.unit[u].groups[l].members]]
    [] n = 6 -> LecturersNamed(t)

ReadTable ==
  /\ Len(director.tables) < 6
  /\ director' = [director EXCEPT !.then = IF @ = Unread THEN <<listing>> ELSE @,
                                  !.tables = Append(@, TableOf(term, Len(@) + 1))]
  /\ UNCHANGED <<term, listing, edits>>

\* latestPublications, sent together with the first of the tables.
ReadPublications ==
  /\ director.list = Unread
  /\ director' = [director EXCEPT !.then = IF @ = Unread THEN <<listing>> ELSE @, !.list = <<listing>>]
  /\ UNCHANGED <<term, listing, edits>>

\* Mutant for ImportMatchesUnlessRepublished: a group of the whole course has the number typed for it.
SubmittedAsTyped(tables, d) ==
  [u \in {v \in Units : tables[2][v] = d} |->
     [courses |-> tables[3][u],
      groups |-> [l \in DOMAIN tables[4][u] |->
        [lecturer |-> IF tables[4][u][l] \in tables[6] THEN tables[4][u][l] ELSE NoLecturer,
         students |-> IF l \notin DOMAIN tables[5][u] THEN <<>> ELSE tables[5][u][l]]]]]

(* submissions: what it gives of a department, put together from the       *)
(* tables.  A row is matched by code and label where the code matches ids: *)
(* of a row replaced between two reads the code finds less than this.      *)
Submitted(tables, d) ==
  [u \in {v \in Units : tables[2][v] = d} |->
     [courses |-> tables[3][u],
      groups |-> [l \in DOMAIN tables[4][u] |->
        [lecturer |-> IF tables[4][u][l] \in tables[6] THEN tables[4][u][l] ELSE NoLecturer,
         students |-> IF l \notin DOMAIN tables[5][u] THEN <<>>
                      ELSE [c \in DOMAIN tables[5][u][l] |->
                              IF tables[5][u][l][c] = 0 THEN tables[1][c] ELSE tables[5][u][l][c]]]]]]

TeachingNext ==
  \/ \E d \in Departments :
       EditCourse(d) \/ EditUnit(d) \/ EditGroups(d) \/ EditLecturer(d) \/ Paste(d) \/ Publish(d) \/ Reopen(d)
  \/ ReadTable \/ ReadPublications

TeachingSpec == TeachingInit /\ [][TeachingNext]_teachingVars

-----------------------------------------------------------------------------
(* While a list stands published, each of its units has a lecturer for     *)
(* every group and places every student of the department's own courses,   *)
(* whatever other departments write meanwhile.  Another department's       *)
(* cohort may since have changed its number of students                    *)
(* (teaching.service.ts publish, write, problems).                         *)
PublishedListComplete ==
  \A d \in Departments : listing[d].standing =>
    /\ OwnUnits(term, d) # {}
    /\ \A u \in OwnUnits(term, d) :
         LET groups == term.unit[u].groups
         IN /\ NoLecturer \notin NamedFor(term, u)
            /\ \A c \in term.unit[u].courses :
                 /\ Having(groups, c) # {}
                 /\ term.course[c].dept = d =>
                      PlacedOf(groups, c, term.course[c].students) = term.course[c].students

\* A unit as the import gives it: its groups and lecturers, and the sizes of
\* the groups as far as the department's own courses and typed shares go.
GivenUnit(given, t, d, u) ==
  LET groups == t.unit[u].groups
  IN /\ given[u].courses = t.unit[u].courses
     /\ DOMAIN given[u].groups = DOMAIN groups
     /\ \A l \in DOMAIN groups :
          /\ given[u].groups[l].lecturer = groups[l].lecturer
          /\ DOMAIN given[u].groups[l].students = DOMAIN groups[l].members
          /\ \A c \in DOMAIN groups[l].members :
               groups[l].members[c] # 0 \/ c \in OwnCourses(t, d) =>
                 given[u].groups[l].students[c] = MemberStudents(groups[l], c, t.course[c].students)

(* The Director's import gives a published department's units, their       *)
(* groups, lecturers and sizes as they stand published, although it reads  *)
(* every table apart and lecturers and other departments' courses change   *)
(* meanwhile; unless the department published or reopened its list after   *)
(* the first of the reads (teaching.service.ts submissions, submittedUnit).*)
ImportMatchesUnlessRepublished ==
  Len(director.tables) = 6 /\ director.list # Unread =>
    \A d \in Departments :
      director.list[1][d].standing /\ director.then[1][d] = listing[d] /\ director.list[1][d] = listing[d] =>
        /\ DOMAIN Submitted(director.tables, d) = OwnUnits(term, d)
        /\ \A u \in OwnUnits(term, d) : GivenUnit(Submitted(director.tables, d), term, d, u)

=============================================================================
