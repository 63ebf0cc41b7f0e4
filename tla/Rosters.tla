------------------------------- MODULE Rosters -------------------------------
(* Units, their timetable and their rosters, copied from SMARTTT.  A page   *)
(* load starts a sync of the lecturer's units, one at a time per lecturer   *)
(* and throttled; SMARTTT reporting a change waits for a sync that runs and *)
(* starts another.  A sync reads SMARTTT, then writes unit after unit, each *)
(* with its roster; it may fail at any of these steps.  Students' accounts  *)
(* are made, and attached to the rosters they are on, meanwhile.            *)
EXTENDS Naturals, FiniteSets

CONSTANTS
  Classrooms,    \* units: a unit, or one teaching group of it
  Teachers,      \* lecturers with a staff number
  LinkedAccounts, \* the lecturers SMARTTT knows by account, the others by name
  Scholars,      \* registration numbers
  NoTeacher,        \* no lecturer, no unit
  Timetables,    \* the timetables SMARTTT may have: version -> unit -> [teacher, listed]
  MaxVersion     \* bound: versions of SMARTTT's timetable

\* What the constants must satisfy.
RostersAssumption ==
  /\ MaxVersion \in Nat \ {0} /\ LinkedAccounts \subseteq Teachers /\ NoTeacher \notin Teachers \cup Classrooms
  /\ Timetables \subseteq [1 .. MaxVersion -> [Classrooms -> [teacher : Teachers, listed : SUBSET Scholars]]]

VARIABLES
  timetable,  \* version -> unit -> [teacher, listed]: what SMARTTT lists
  version,    \* SMARTTT's current version
  unit,       \* unit -> [owner, status, asOf]: the row, and the version it was synced from
  roster,     \* unit -> number -> "NONE", "ACTIVE" or "DROPPED"
  attached,   \* unit -> numbers whose row has a student_user_id
  registered, \* number -> "no", "linking" (rosters not attached yet), "yes", or "unlinked" when that failed
  sync,       \* lecturer -> the sync in flight: [phase, asOf, todo, unit, known]
  throttled,  \* lecturers who synced less than SMARTTT_SYNC_INTERVAL_SECONDS ago
  changeReport      \* lecturer -> SMARTTT's report of a change being handled: [phase, since]

rostersVars == <<timetable, version, unit, roster, attached, registered, sync, throttled, changeReport>>
rosterRows == <<unit, roster, attached, registered>>

NotCreated == [owner |-> NoTeacher, status |-> "NONE", asOf |-> 0]
NoSync == [phase |-> "idle", asOf |-> 0, todo |-> {}, unit |-> NoTeacher, known |-> {}]
NoReport == [phase |-> "none", since |-> 0]

-----------------------------------------------------------------------------
RostersInit ==
  /\ timetable \in Timetables
  /\ version = 1
  /\ unit = [u \in Classrooms |-> NotCreated]
  /\ roster = [u \in Classrooms |-> [n \in Scholars |-> "NONE"]]
  /\ attached = [u \in Classrooms |-> {}]
  /\ registered = [n \in Scholars |-> "no"]
  /\ sync = [l \in Teachers |-> NoSync]
  /\ throttled = {}
  /\ changeReport = [l \in Teachers |-> NoReport]

\* SMARTTT's timetable changes: a class moved, was given to another lecturer, or students registered.
Change ==
  /\ version < MaxVersion
  /\ version' = version + 1
  /\ UNCHANGED <<timetable, rosterRows, sync, throttled, changeReport>>

\* A lecturer adds a unit by code; the ERP says whether it is theirs.
CreateUnitByHand(l, u) ==
  /\ unit[u] = NotCreated
  /\ \E status \in {"VERIFIED", "PENDING_VERIFICATION"} : unit' = [unit EXCEPT ![u] = [owner |-> l, status |-> status, asOf |-> 0]]
  /\ UNCHANGED <<timetable, version, roster, attached, registered, sync, throttled, changeReport>>

\* An administrator confirms the assignment.
VerifyUnit(u) ==
  /\ unit[u].status = "PENDING_VERIFICATION"
  /\ unit' = [unit EXCEPT ![u].status = "VERIFIED"]
  /\ UNCHANGED <<timetable, version, roster, attached, registered, sync, throttled, changeReport>>

-----------------------------------------------------------------------------
(* The sync. *)

Running(l) == sync[l] # NoSync

\* syncUnitsFromTimetable, from a page: nothing while one runs or the interval lasts.
PageLoad(l) ==
  /\ ~Running(l) /\ l \notin throttled
  /\ sync' = [sync EXCEPT ![l].phase = "fetch"]
  /\ throttled' = throttled \cup {l}
  /\ UNCHANGED <<timetable, version, rosterRows, changeReport>>

\* listLecturerUnits: the classes SMARTTT lists for the staff number.
Fetch(l) ==
  /\ sync[l].phase = "fetch"
  /\ sync' = [sync EXCEPT ![l] = [@ EXCEPT !.phase = "units", !.asOf = version,
                                           !.todo = {u \in Classrooms : timetable[version][u].teacher = l}]]
  /\ UNCHANGED <<timetable, version, rosterRows, throttled, changeReport>>

\* upsertUnitFromTimetable: a unit another lecturer holds is left alone.
Holdable(u, l) == unit[u].owner \in {l, NoTeacher}

\* The status only moves up.
Verification(u, l) ==
  IF l \in LinkedAccounts \/ unit[u].status = "VERIFIED" THEN "VERIFIED" ELSE "PENDING_VERIFICATION"

UpsertUnit(l) ==
  /\ sync[l].phase = "units"
  /\ \E u \in sync[l].todo :
       IF Holdable(u, l)
       THEN /\ unit' = [unit EXCEPT ![u] = [owner |-> l, status |-> Verification(u, l), asOf |-> sync[l].asOf]]
            /\ sync' = [sync EXCEPT ![l].phase = "roster", ![l].unit = u, ![l].todo = @ \ {u}]
       ELSE /\ sync' = [sync EXCEPT ![l].todo = @ \ {u}]
            /\ UNCHANGED unit
  /\ UNCHANGED <<timetable, version, roster, attached, registered, throttled, changeReport>>

\* syncRosterAllocations, its statements: the last attaches the accounts that are there by now.
RosterStatements(l) ==
  /\ sync[l].phase = "roster"
  /\ sync' = [sync EXCEPT ![l] = [@ EXCEPT !.phase = "commit", !.known = {n \in Scholars : registered[n] # "no"}]]
  /\ UNCHANGED <<timetable, version, rosterRows, throttled, changeReport>>

\* Each listed student ACTIVE, each other row DROPPED.
Reconciled(old, listed) ==
  [n \in Scholars |-> CASE n \in listed -> "ACTIVE" [] n \notin listed /\ old[n] = "ACTIVE" -> "DROPPED" [] OTHER -> old[n]]

\* Mutant for UnattachedOnlyByOverlap: the sync no longer attaches accounts.
AttachedNow(u, rowsNow, known) == attached[u]

\* The rows of students who have an account, attached to it.
Attached(u, rowsNow, known) == attached[u] \cup {n \in known : rowsNow[n] # "NONE"}

RosterCommit(l) ==
  LET u == sync[l].unit
      rowsNow == Reconciled(roster[u], timetable[sync[l].asOf][u].listed)
  IN /\ sync[l].phase = "commit"
     /\ roster' = [roster EXCEPT ![u] = rowsNow]
     /\ attached' = [attached EXCEPT ![u] = Attached(u, rowsNow, sync[l].known)]
     /\ sync' = [sync EXCEPT ![l] = [@ EXCEPT !.phase = "units", !.unit = NoTeacher, !.known = {}]]
     /\ UNCHANGED <<timetable, version, unit, registered, throttled, changeReport>>

\* The sync settles: who waited for it to end wakes, who asked for it is answered.
Settled(l) ==
  /\ sync' = [sync EXCEPT ![l] = NoSync]
  /\ changeReport' = [changeReport EXCEPT ![l] =
       CASE @.phase = "wait" -> [@ EXCEPT !.phase = "woken"] [] @.phase = "asked" -> NoReport [] OTHER -> @]

Finish(l) ==
  /\ sync[l].phase = "units" /\ sync[l].todo = {}
  /\ Settled(l)
  /\ UNCHANGED <<timetable, version, rosterRows, throttled>>

\* SMARTTT or the database does not answer: logged, and what was committed stays.
Fail(l) ==
  /\ sync[l].phase \in {"fetch", "roster", "commit"} \/ sync[l].todo # {}
  /\ Settled(l)
  /\ UNCHANGED <<timetable, version, rosterRows, throttled>>

\* SMARTTT_SYNC_INTERVAL_SECONDS later.
IntervalEnds(l) ==
  /\ l \in throttled
  /\ throttled' = throttled \ {l}
  /\ UNCHANGED <<timetable, version, rosterRows, sync, changeReport>>

\* findLecturersForTimetableChange: the class's lecturer in SMARTTT, and whoever holds it here.
Affected(u) == ({timetable[version][u].teacher, unit[u].owner}) \ {NoTeacher}

\* Mutant for ReportedChangeArrives: a running sync is not waited for, only joined.
WaitsForNone(l) == FALSE

\* A sync already running may have read the timetable before the change.
WaitsFirst(l) == Running(l)

\* resyncAfterTimetableChange, up to its await.
Report(u) ==
  /\ \A l \in Affected(u) : changeReport[l] = NoReport
  /\ changeReport' = [l \in Teachers |->
       IF l \in Affected(u) THEN [phase |-> IF WaitsFirst(l) THEN "wait" ELSE "woken", since |-> version] ELSE changeReport[l]]
  /\ UNCHANGED <<timetable, version, rosterRows, sync, throttled>>

\* Its rest: the throttle is skipped, and a sync that was started since is joined.
Resync(l) ==
  /\ changeReport[l].phase = "woken"
  /\ changeReport' = [changeReport EXCEPT ![l].phase = "asked"]
  /\ sync' = IF Running(l) THEN sync ELSE [sync EXCEPT ![l].phase = "fetch"]
  /\ throttled' = IF Running(l) THEN throttled \ {l} ELSE throttled \cup {l}
  /\ UNCHANGED <<timetable, version, rosterRows>>

-----------------------------------------------------------------------------
\* A student's account is created.
RegisterScholar(n) ==
  /\ registered[n] = "no"
  /\ registered' = [registered EXCEPT ![n] = "linking"]
  /\ UNCHANGED <<timetable, version, unit, roster, attached, sync, throttled, changeReport>>

\* linkAllocationsToStudent: the rows it can see; one a sync has locked is waited for.
LinkAllocations(n) ==
  /\ registered[n] = "linking"
  /\ \A l \in Teachers : sync[l].phase = "commit" => roster[sync[l].unit][n] = "NONE"
  /\ attached' = [u \in Classrooms |-> IF roster[u][n] # "NONE" THEN attached[u] \cup {n} ELSE attached[u]]
  /\ registered' = [registered EXCEPT ![n] = "yes"]
  /\ UNCHANGED <<timetable, version, unit, roster, sync, throttled, changeReport>>

\* linkRosters, linkStudentToRosters: best-effort, and not tried again; a failure is logged.
LinkingFails(n) ==
  /\ registered[n] = "linking"
  /\ registered' = [registered EXCEPT ![n] = "unlinked"]
  /\ UNCHANGED <<timetable, version, unit, roster, attached, sync, throttled, changeReport>>

RostersNext ==
  \/ Change
  \/ \E u \in Classrooms : VerifyUnit(u) \/ Report(u) \/ \E l \in Teachers : CreateUnitByHand(l, u)
  \/ \E l \in Teachers :
       \/ PageLoad(l) \/ Fetch(l) \/ UpsertUnit(l) \/ RosterStatements(l) \/ RosterCommit(l)
       \/ Finish(l) \/ Fail(l) \/ IntervalEnds(l) \/ Resync(l)
  \/ \E n \in Scholars : RegisterScholar(n) \/ LinkAllocations(n) \/ LinkingFails(n)

RostersSpec == RostersInit /\ [][RostersNext]_rostersVars

-----------------------------------------------------------------------------
(* When a reported change has been handled and the sync did not fail, every *)
(* class SMARTTT lists for the lecturer, and which is theirs here, is at    *)
(* least as new as the report, although a sync that read SMARTTT before the *)
(* change may have been running (unit.service.ts                            *)
(* resyncAfterTimetableChange).                                             *)
ReportedChangeArrivesStep ==
  \A l \in Teachers :
     changeReport[l].phase = "asked" /\ changeReport'[l].phase = "none" /\ sync[l].phase = "units" /\ sync[l].todo = {} =>
       \A u \in Classrooms :
         unit'[u].owner = l /\ timetable[sync[l].asOf][u].teacher = l => unit'[u].asOf >= changeReport[l].since
ReportedChangeArrives == [][ReportedChangeArrivesStep]_rostersVars

Unattached(u, n) == roster[u][n] = "ACTIVE" /\ registered[n] \in {"yes", "unlinked"} /\ n \notin attached[u]

(* A student with an account is left unattached on a roster, and refused at *)
(* every check-in, only when the account was made between a sync's last     *)
(* statement and its commit, or when linking it failed; a later sync of     *)
(* that roster attaches them (unit.repository.ts syncRosterAllocations,     *)
(* linkAllocationsToStudent; auth.service.ts linkStudentToRosters).         *)
UnattachedOnlyByOverlapStep ==
  \A u \in Classrooms, n \in Scholars :
     /\ Unattached(u, n)' /\ ~Unattached(u, n) =>
          \/ \E l \in Teachers : sync[l].phase = "commit" /\ sync[l].unit = u /\ n \notin sync[l].known
          \/ registered[n] = "linking" /\ registered'[n] = "unlinked"
     /\ \A l \in Teachers :
          sync[l].phase = "commit" /\ sync'[l].phase = "units" /\ sync[l].unit = u /\ n \in sync[l].known => ~Unattached(u, n)'
UnattachedOnlyByOverlap == [][UnattachedOnlyByOverlapStep]_rostersVars

=============================================================================
