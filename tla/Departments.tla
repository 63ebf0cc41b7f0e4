---------------------------- MODULE Departments ----------------------------
(* Departments and who belongs to them: the copy kept here of SMARTTT's    *)
(* departments, the spellings that mean each of them, the lecturers placed *)
(* by a spelling or by hand, and the department each unit belongs to.  An  *)
(* administrator's request reads, asks SMARTTT, then writes; the list a    *)
(* synchronisation works from may be older than the copy it writes to.     *)
EXTENDS Naturals, Sequences, FiniteSetsExt

CONSTANTS
  Spellings,       \* department names as people type them; SQL orders them, hence numbers
  KeyOf,           \* spelling -> what department_key makes of it
  SmartttIds,      \* SMARTTT's department ids
  FirstLists,      \* the lists SMARTTT may start with
  FirstNames,      \* the departments that may have been made here before SMARTTT was connected
  Staff,           \* lecturers
  Callers,         \* administrators' requests and synchronisations under way
  Nowhere,         \* no department, no spelling
  MaxDepartments,  \* bound: departments ever kept here
  MaxCalls,        \* bound: requests ever made
  MaxRenames       \* bound: changes made in SMARTTT itself

DepartmentIds == 1 .. MaxDepartments
NoUnitYet == 0
Keys == {KeyOf[s] : s \in Spellings}

\* What the constants must satisfy.
DepartmentsAssumption ==
  /\ Spellings \subseteq Nat
  /\ SmartttIds \subseteq Nat /\ IsFiniteSet(SmartttIds)
  /\ FirstLists \subseteq [SmartttIds -> Spellings \cup {Nowhere}]
  /\ FirstNames \subseteq Seq(Spellings)
  /\ {MaxDepartments, MaxCalls, MaxRenames} \subseteq Nat
  /\ Nowhere \notin Spellings \cup SmartttIds \cup DepartmentIds

VARIABLES
  listed,      \* SMARTTT's id -> the name it gives the department, or Nowhere
  department,  \* id -> [there, name, link]: the copy here and its link to SMARTTT
  alias,       \* key -> the department a learned spelling means, or Nowhere
  lecturer,    \* lecturer -> [spelling, department]
  unitOwner,       \* lecturer -> NoUnitYet, or the department their unit belongs to
  handling,        \* request -> what it does and has read
  calls, renames

departmentsVars == <<listed, department, alias, lecturer, unitOwner, handling, calls, renames>>

NoDepartmentRow == [there |-> FALSE, name |-> Nowhere, link |-> Nowhere]
NoCall == [does |-> "nothing", one |-> Nowhere, other |-> Nowhere, name |-> Nowhere, list |-> [i \in SmartttIds |-> Nowhere]]

-----------------------------------------------------------------------------
(* Reading. *)

There(departments) == {d \in DepartmentIds : departments[d].there}
NamedSo(departments, name) == {d \in There(departments) : departments[d].name = name}
SameKey(departments, s) == {d \in There(departments) : KeyOf[departments[d].name] = KeyOf[s]}

\* department_for_name: a department of that canonical name, the first by name; else a learned spelling.
MeaningIn(departments, aliases, s) ==
  IF s = Nowhere THEN Nowhere
  ELSE IF SameKey(departments, s) = {} THEN aliases[KeyOf[s]]
  ELSE CHOOSE d \in SameKey(departments, s) : \A e \in SameKey(departments, s) : departments[d].name <= departments[e].name

Meaning(s) == MeaningIn(department, alias, s)
Unused(departments) == {d \in DepartmentIds : departments[d].name = Nowhere /\ \A e \in 1 .. (d - 1) : departments[e].name # Nowhere}

-----------------------------------------------------------------------------
(* Writing. *)

\* Mutant for PlacementStands: everybody whose spelling means the department.
Everybody(row) == TRUE
\* Only somebody who has no department is placed by a spelling.
Waiting(row) == row.department = Nowhere

\* Everyone waiting whose spelling means d is placed in it.
PlacedIn(d, departments, aliases, staff) ==
  [l \in Staff |->
     IF Waiting(staff[l]) /\ MeaningIn(departments, aliases, staff[l].spelling) = d
     THEN [staff[l] EXCEPT !.department = d] ELSE staff[l]]

\* lecturer_department_claims_units: units nobody owns go to the department their lecturer joins.
ClaimUnits(staff) ==
  [l \in Staff |->
     IF unitOwner[l] = Nowhere /\ staff[l].department \notin {Nowhere, lecturer[l].department}
     THEN staff[l].department ELSE unitOwner[l]]

Place(staff) ==
  /\ lecturer' = staff
  /\ unitOwner' = ClaimUnits(staff)

Ended(r) == handling' = [handling EXCEPT ![r] = NoCall]

-----------------------------------------------------------------------------
DepartmentsInit ==
  /\ listed \in FirstLists
  /\ \E names \in FirstNames :
       department = [d \in DepartmentIds |->
                       IF d <= Len(names) THEN [there |-> TRUE, name |-> names[d], link |-> Nowhere] ELSE NoDepartmentRow]
  /\ alias = [k \in Keys |-> Nowhere]
  /\ lecturer = [l \in Staff |-> [spelling |-> Nowhere, department |-> Nowhere]]
  /\ unitOwner = [l \in Staff |-> NoUnitYet]
  /\ handling = [r \in Callers |-> NoCall]
  /\ calls = 0
  /\ renames = 0

\* SMARTTT's own administrators add, rename or delete a department; names are unique there.
SmartttChanges(i) ==
  /\ renames < MaxRenames
  /\ renames' = renames + 1
  /\ \E s \in (Spellings \ {listed[j] : j \in SmartttIds}) \cup {Nowhere} : listed' = [listed EXCEPT ![i] = s]
  /\ UNCHANGED <<department, alias, lecturer, unitOwner, handling, calls>>

\* Sign-in and registration: the spelling SMARTTT gives now, and the department it means if there was none.
LecturerSignsIn(l) ==
  /\ \E s \in Spellings :
       LET here == IF Waiting(lecturer[l]) THEN Meaning(s) ELSE lecturer[l].department
       IN Place([lecturer EXCEPT ![l] = [spelling |-> s, department |-> here]])
  /\ UNCHANGED <<listed, department, alias, handling, calls, renames>>

\* A unit is added for the lecturer: units_default_department gives it theirs.
UnitIsAdded(l) ==
  /\ unitOwner[l] = NoUnitYet
  /\ unitOwner' = [unitOwner EXCEPT ![l] = lecturer[l].department]
  /\ UNCHANGED <<listed, department, alias, lecturer, handling, calls, renames>>

Begin(r, new) ==
  /\ handling[r] = NoCall
  /\ calls < MaxCalls
  /\ calls' = calls + 1
  /\ handling' = [handling EXCEPT ![r] = new]
  /\ UNCHANGED <<listed, department, alias, lecturer, unitOwner, renames>>

\* What each request reads and refuses before it asks SMARTTT or writes.
RequestArrives(r) ==
  \/ Begin(r, [NoCall EXCEPT !.does = "sync", !.list = listed])
  \/ \E s \in Spellings : Meaning(s) = Nowhere /\ Begin(r, [NoCall EXCEPT !.does = "create", !.name = s])
  \/ \E d \in There(department), s \in Spellings :
       Meaning(s) \in {d, Nowhere} /\ Begin(r, [NoCall EXCEPT !.does = "edit", !.one = d, !.other = department[d].link, !.name = s])
  \/ \E d \in There(department) :
       department[d].link = Nowhere /\ Begin(r, [NoCall EXCEPT !.does = "send", !.one = d, !.name = department[d].name])
  \/ \E l \in Staff, d \in There(department) :
       /\ lecturer[l].department # d
       /\ Begin(r, [NoCall EXCEPT !.does = IF Waiting(lecturer[l]) THEN "place" ELSE "move", !.one = l, !.other = d, !.name = lecturer[l].spelling])
  \/ \E d, e \in There(department) : d # e /\ Begin(r, [NoCall EXCEPT !.does = "merge", !.one = d, !.other = e])

(* SMARTTT answers a creation, a correction or a department sent: a new    *)
(* row, the row of that name, a refusal, or nothing.                       *)
Asked(r) ==
  LET c == handling[r]
      holder == {i \in SmartttIds : listed[i] = c.name}
  IN /\ \/ /\ c.does = "create" /\ holder = {}
           /\ \E i \in SmartttIds :
                /\ listed[i] = Nowhere
                /\ listed' = [listed EXCEPT ![i] = c.name]
                /\ handling' = [handling EXCEPT ![r].does = "insert", ![r].other = i]
        \/ /\ c.does = "create" /\ holder # {}
           /\ handling' = [handling EXCEPT ![r] = [NoCall EXCEPT !.does = "sync", !.list = listed]]
           /\ UNCHANGED listed
        \/ /\ c.does = "send" /\ holder # {}
           /\ handling' = [handling EXCEPT ![r].does = "link", ![r].other = CHOOSE i \in holder : TRUE]
           /\ UNCHANGED listed
        \/ /\ c.does = "send" /\ holder = {}
           /\ \E i \in SmartttIds :
                /\ listed[i] = Nowhere
                /\ listed' = [listed EXCEPT ![i] = c.name]
                /\ handling' = [handling EXCEPT ![r].does = "link", ![r].other = i]
        \/ /\ c.does = "edit" /\ c.other # Nowhere /\ listed[c.other] # Nowhere /\ holder \subseteq {c.other}
           /\ listed' = [listed EXCEPT ![c.other] = c.name]
           /\ handling' = [handling EXCEPT ![r].does = "rename"]
        \/ /\ c.does = "edit" /\ c.other = Nowhere
           /\ handling' = [handling EXCEPT ![r].does = "rename"]
           /\ UNCHANGED listed
        \/ /\ c.does \in {"create", "send", "edit"}
           /\ Ended(r)
           /\ UNCHANGED listed
     /\ UNCHANGED <<department, alias, lecturer, unitOwner, calls, renames>>

-----------------------------------------------------------------------------
\* insertDepartment: the row, and everyone its name was waiting for; the copy so far is [rows, staff].
Inserted(copy, name, link) ==
  LET d == CHOOSE n \in Unused(copy.rows) : TRUE
      rows == [copy.rows EXCEPT ![d] = [there |-> TRUE, name |-> name, link |-> link]]
  IN IF Unused(copy.rows) = {} THEN copy ELSE [rows |-> rows, staff |-> PlacedIn(d, rows, alias, copy.staff)]

Renamed(rows, which, name) ==
  [d \in DepartmentIds |-> IF d \in which THEN [rows[d] EXCEPT !.name = name] ELSE rows[d]]
\* A department made here is linked by its name; one linked already keeps its link.
Linked(rows, which, i) ==
  [d \in DepartmentIds |-> IF d \in which /\ rows[d].link = Nowhere THEN [rows[d] EXCEPT !.link = i] ELSE rows[d]]

\* One department of SMARTTT's list: renamed, linked by its name, skipped or new.
BroughtIn(copy, i, name) ==
  LET mine == {d \in There(copy.rows) : copy.rows[d].link = i}
      same == NamedSo(copy.rows, name)
  IN IF name = Nowhere \/ (mine # {} /\ ~(same \subseteq mine)) THEN copy
     ELSE IF mine # {} THEN [copy EXCEPT !.rows = Renamed(copy.rows, mine, name)]
     ELSE IF same # {} THEN [copy EXCEPT !.rows = Linked(copy.rows, same, i)]
     ELSE Inserted(copy, name, i)

\* The departments of a list, one after another, in the order of their ids.
Brought(list) ==
  MapThenFoldSet(LAMBDA i, copy : BroughtIn(copy, i, list[i]), [rows |-> department, staff |-> lecturer],
                 LAMBDA i : i, Max, SmartttIds)

\* pull: SMARTTT's list as it was read, brought into the copy in one transaction.
Sync(r) ==
  LET copy == Brought(handling[r].list)
  IN /\ handling[r].does = "sync"
     /\ department' = copy.rows
     /\ Place(copy.staff)
     /\ Ended(r)
     /\ UNCHANGED <<listed, alias, calls, renames>>

\* createDepartment, the end: linked to the one here of that name, or inserted; a name or link in use fails.
Insert(r) ==
  LET c == handling[r]
      same == NamedSo(department, c.name)
      copy == Inserted([rows |-> department, staff |-> lecturer], c.name, c.other)
  IN /\ c.does = "insert"
     /\ Ended(r)
     /\ IF \E e \in DepartmentIds : department[e].link = c.other THEN UNCHANGED <<department, lecturer, unitOwner>>
        ELSE IF same = {} THEN department' = copy.rows /\ Place(copy.staff)
        ELSE /\ department' = Linked(department, same, c.other)
             /\ UNCHANGED <<lecturer, unitOwner>>
     /\ UNCHANGED <<listed, alias, calls, renames>>

\* renameDepartment and setDepartmentSmartttId: by id; the unique name and link refuse a second one.
Correct(r) ==
  LET c == handling[r]
      new == IF c.does = "rename" THEN [department[c.one] EXCEPT !.name = c.name] ELSE [department[c.one] EXCEPT !.link = c.other]
      others == There(department) \ {c.one}
  IN /\ c.does \in {"rename", "link"}
     /\ department' = IF department[c.one].there /\ \A e \in others : department[e].name # new.name /\ (new.link # Nowhere => department[e].link # new.link)
                      THEN [department EXCEPT ![c.one] = new] ELSE department
     /\ Ended(r)
     /\ UNCHANGED <<listed, alias, lecturer, unitOwner, calls, renames>>

(* moveLecturer: one transaction.  The spelling of one who was waiting is   *)
(* learned unless it means a department already, and everybody else waiting *)
(* with it comes along.  A department merged away meanwhile fails it.       *)
Move(r) ==
  LET c == handling[r]
      moved == [lecturer EXCEPT ![c.one].department = c.other]
      learns == c.does = "place" /\ c.name # Nowhere /\ Meaning(c.name) = Nowhere
      taught == [alias EXCEPT ![KeyOf[c.name]] = c.other]
  IN /\ c.does \in {"place", "move"}
     /\ IF ~department[c.other].there THEN UNCHANGED <<alias, lecturer, unitOwner>>
        ELSE IF learns THEN alias' = taught /\ Place(PlacedIn(c.other, department, taught, moved))
        ELSE Place(moved) /\ UNCHANGED alias
     /\ Ended(r)
     /\ UNCHANGED <<listed, department, calls, renames>>

\* Mutant for MergedSpellingsFollow: only the name is kept; the aliases go with the row.
NameOnly(dup, keep) ==
  [k \in Keys |->
     IF k = KeyOf[department[dup].name] /\ k # KeyOf[department[keep].name] THEN keep
     ELSE IF alias[k] = dup THEN Nowhere ELSE alias[k]]
\* merge_departments: the duplicate's aliases, and its name unless it is the kept one's too.
MergedAliases(dup, keep) ==
  [k \in Keys |->
     IF alias[k] = dup \/ (k = KeyOf[department[dup].name] /\ k # KeyOf[department[keep].name]) THEN keep ELSE alias[k]]

\* mergeDepartment: everything of the duplicate goes to the department kept, if both are still there.
Merge(r) ==
  LET dup == handling[r].one
      keep == handling[r].other
  IN /\ handling[r].does = "merge"
     /\ IF {dup, keep} \subseteq There(department)
        THEN /\ lecturer' = [l \in Staff |-> IF lecturer[l].department = dup THEN [lecturer[l] EXCEPT !.department = keep] ELSE lecturer[l]]
             /\ unitOwner' = [l \in Staff |-> IF unitOwner[l] = dup THEN keep ELSE unitOwner[l]]
             /\ alias' = MergedAliases(dup, keep)
             /\ department' = [department EXCEPT ![dup].there = FALSE, ![dup].link = Nowhere]
        ELSE UNCHANGED <<lecturer, unitOwner, alias, department>>
     /\ Ended(r)
     /\ UNCHANGED <<listed, calls, renames>>

\* deleteDepartmentAlias: those placed through it stay.
ForgetSpelling(k) ==
  /\ alias[k] # Nowhere
  /\ alias' = [alias EXCEPT ![k] = Nowhere]
  /\ UNCHANGED <<listed, department, lecturer, unitOwner, handling, calls, renames>>

DepartmentsNext ==
  \/ \E i \in SmartttIds : SmartttChanges(i)
  \/ \E l \in Staff : LecturerSignsIn(l) \/ UnitIsAdded(l)
  \/ \E r \in Callers : RequestArrives(r) \/ Asked(r) \/ Sync(r) \/ Insert(r) \/ Correct(r) \/ Move(r) \/ Merge(r)
  \/ \E k \in Keys : ForgetSpelling(k)

DepartmentsSpec == DepartmentsInit /\ [][DepartmentsNext]_departmentsVars

-----------------------------------------------------------------------------
(* A lecturer who has a department leaves it only when an administrator    *)
(* moves that lecturer or merges the department away: no later sign-in,    *)
(* new department or learned spelling takes them elsewhere                 *)
(* (lecturer.placement.ts, "Sign-in never overrides a placement").         *)
PlacementStandsStep ==
  \A l \in Staff :
     lecturer[l].department \notin {Nowhere, lecturer'[l].department} =>
       \E r \in Callers :
         \/ handling[r].does \in {"place", "move"} /\ handling[r].one = l /\ handling[r].other = lecturer'[l].department
         \/ handling[r].does = "merge" /\ handling[r].one = lecturer[l].department /\ handling[r].other = lecturer'[l].department
PlacementStands == [][PlacementStandsStep]_departmentsVars

(* Every spelling that meant a merged department means the one it was      *)
(* merged into, unless a third has that very name (admin.service.ts        *)
(* mergeDepartment, "so SMARTTT's use of it still matches").               *)
MergedSpellingsFollowStep ==
  \A d \in There(department) \ There(department'), s \in Spellings :
     Meaning(s) = d =>
       \E r \in Callers : handling[r].one = d /\ Meaning(s)' \in {handling[r].other} \cup (SameKey(department, s) \ {d})
MergedSpellingsFollow == [][MergedSpellingsFollowStep]_departmentsVars

=============================================================================
