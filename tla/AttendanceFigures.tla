------------------------- MODULE AttendanceFigures -------------------------
(* What every page counts from the same classes and check-ins: a student's *)
(* own units and history, the lecturer's, the department's, management's   *)
(* and quality assurance's pages, and the verdict on who may sit the exam. *)
(* Each is a query of its own, so the figures are operators here; the      *)
(* state is what they read, changed by classes, check-ins and rosters.     *)
EXTENDS Integers, FiniteSets, Functions

CONSTANTS
  Learners,
  Modules,        \* units
  TaughtBy,       \* unit -> its lecturer
  OwnedBy,        \* unit -> the department it belongs to
  YearOf,         \* unit -> 1 to 4, by the first digit of its code, or 0
  HomeOf,        \* lecturer -> their own department
  Policies,       \* the rules considered: [least, margin], in percent
  SlotsOf,        \* unit -> its weekly meetings [start, end], none for a unit without a schedule
  Grace,          \* ticks a class may start late and be on time
  TicksPerMinute,
  PageSizes,      \* how many classes of their history a student may ask for at once
  DrilldownLimit, \* how many classes the page of one lecturer lists: DRILLDOWN_SESSION_LIMIT
  Openings,       \* bound: the opening times lecturers name
  Length,         \* bound: ticks a class without a schedule is open
  MaxMeetings,    \* bound: classes ever held
  MaxDeletions,   \* bound: accounts ever deleted; the records of two deleted accounts of one student are not told apart
  MaxTicks        \* bound: the clock

Meetings == 1 .. MaxMeetings
Tutors == DOMAIN HomeOf
OwningDepartments == Range(OwnedBy)
Unscheduled == -1

\* What the constants must satisfy.
FiguresAssumption ==
  /\ \A rows \in {Learners, Modules, Tutors} : IsFiniteSet(rows)
  /\ TaughtBy \in [Modules -> Tutors] /\ OwnedBy \in [Modules -> Range(HomeOf)]
  /\ YearOf \in [Modules -> 0 .. 4]
  /\ Policies \subseteq [least : 1 .. 100, margin : 0 .. 50]
  /\ PageSizes \subseteq 1 .. 200 /\ DrilldownLimit \in Nat
  /\ Openings \subseteq Nat
  /\ SlotsOf \in [Modules -> SUBSET [start : Nat, end : Nat]]
  /\ {Grace, Length, MaxMeetings, MaxDeletions, MaxTicks} \subseteq Nat /\ TicksPerMinute \in Nat \ {0} /\ Grace % TicksPerMinute = 0

VARIABLES
  tick,      \* the clock
  meeting,   \* class -> [module, opens, closes, status, scheduled]; a class not held yet has status "NONE"
  enrolled,  \* <<unit, student>> with an ACTIVE allocation; no page sees another
  checkedIn,   \* <<class, student>> recorded for the account the student has
  formerly,    \* <<class, student>> recorded for an account of theirs deleted since
  withAccount, \* students with an account
  departed,  \* lecturers whose account was deleted
  deletions, \* accounts deleted so far
  policy

figuresVars == <<tick, meeting, enrolled, checkedIn, formerly, withAccount, departed, deletions, policy>>

Of(u) == {m \in Meetings : meeting[m].status # "NONE" /\ meeting[m].module = u}
Over(m) == meeting[m].status = "CLOSED" \/ meeting[m].closes <= tick
ActiveOn(u) == {s \in Learners : <<u, s>> \in enrolled}
Here(m) == {s \in Learners : <<m, s>> \in checkedIn}
Once(m) == {s \in Learners : <<m, s>> \in formerly}
\* Records of a class: somebody who registered anew can have two.
Recorded(m) == Cardinality(Here(m)) + Cardinality(Once(m))
SumOver(S, f(_)) == Cardinality(UNION {{x} \X (1 .. f(x)) : x \in S})

-----------------------------------------------------------------------------
(* A student's standing in a unit. *)

\* Mutant for HistoryAgrees: a class under way the student is in does not count yet.
HeldWhenOver(u, s) == {m \in Of(u) : Over(m)}
\* Mutant for OpenClassIsNoAbsence: a class counts from the moment it opens.
HeldOnceOpen(u, s) == {m \in Of(u) : meeting[m].opens <= tick}
\* The classes that count for or against a student: over, or checked in to already.
Held(u, s) == {m \in Of(u) : meeting[m].opens <= tick /\ (s \in Here(m) \/ Over(m))}
Attended(u, s) == {m \in Of(u) : s \in Here(m)}

StudentRow(u, s) == [module |-> u, learner |-> s, held |-> Cardinality(Held(u, s)), attended |-> Cardinality(Attended(u, s))]

\* findUnitsForStudent, and the same pair on the lecturer's, the department's, the eligibility and the year's page.
UnitsOf(s) == {u \in Modules : s \in ActiveOn(u)}
StudentsUnits(s) == {StudentRow(u, s) : u \in UnitsOf(s)}
TutorsStudents(t) == UNION {{StudentRow(u, s) : s \in ActiveOn(u)} : u \in {v \in Modules : TaughtBy[v] = t}}
DepartmentStudents(d) == UNION {{StudentRow(u, s) : s \in ActiveOn(u)} : u \in {v \in Modules : OwnedBy[v] = d}}
Standing(ds) == UNION {{StudentRow(u, s) : s \in ActiveOn(u)} : u \in {v \in Modules : OwnedBy[v] \in ds}}
UnitStudents(us) == UNION {{StudentRow(u, s) : s \in ActiveOn(u)} : u \in us}

\* ORDER BY opens_at DESC LIMIT n: the newest classes; of those that opened together, any.
Limited(count, n) == IF count <= n THEN count ELSE n
Newest(ms, n) == {page \in SUBSET ms : /\ Cardinality(page) = Limited(Cardinality(ms), n)
                                       /\ \A m \in page, o \in ms \ page : meeting[o].opens <= meeting[m].opens}

\* listMyAttendance: the newest classes of one unit or of all the student's that have opened, each with its
\* mark, and the summary over those returned that are not still open.
Opened(us) == {m \in UNION {Of(u) : u \in us} : meeting[m].opens <= tick}
Mark(m, s) == IF s \in Here(m) THEN "PRESENT" ELSE IF ~Over(m) THEN "OPEN" ELSE "ABSENT"
Histories(us, s, n) == {[m \in page |-> Mark(m, s)] : page \in Newest(Opened(us), n)}
HistorySummary(history) ==
  LET counted == {m \in DOMAIN history : history[m] # "OPEN"}
  IN [held |-> Cardinality(counted), attended |-> Cardinality({m \in counted : history[m] = "PRESENT"})]

\* classify, on the unrounded ratio.
Classify(row, rule) ==
  IF row.held = 0 THEN "NOT_YET_MEASURED"
  ELSE IF row.attended * 100 < rule.least * row.held THEN "NOT_ELIGIBLE"
  ELSE IF row.attended * 100 < (rule.least + rule.margin) * row.held THEN "AT_RISK"
  ELSE "ELIGIBLE"

\* buildReport: everybody counted once, the rows only those at risk or barred.
EligibilityReport(ds) ==
  LET verdict(row) == Classify(row, policy)
  IN [rows |-> {row \in Standing(ds) : verdict(row) \in {"AT_RISK", "NOT_ELIGIBLE"}},
      summary |-> [v \in {"ELIGIBLE", "AT_RISK", "NOT_ELIGIBLE", "NOT_YET_MEASURED"} |->
                     Cardinality({row \in Standing(ds) : verdict(row) = v})]]

-----------------------------------------------------------------------------
(* Classes counted for a lecturer, a unit, a department, the university. *)

\* SESSION_RATE, in percent rounded down, or -1 without an active allocation.
SessionRate(m) ==
  LET class == Cardinality(ActiveOn(meeting[m].module))
  IN IF class = 0 THEN -1 ELSE (Recorded(m) * 100) \div class

UnitRow(u) == [module |-> u, active |-> Cardinality(ActiveOn(u)), held |-> Cardinality(Of(u))]
UnitRows(d) == {UnitRow(u) : u \in {v \in Modules : OwnedBy[v] = d}}
DepartmentMeetings(d) == UNION {Of(u) : u \in {v \in Modules : OwnedBy[v] = d}}

\* Mutant for RowsAddUp: only the department's own staff.
OwnStaffOnly(d) == {t \in Tutors : HomeOf[t] = d} \ departed
\* DEPT_LECTURERS: its own staff and whoever teaches one of its units, of those still here.
DepartmentTutors(d) == ({t \in Tutors : HomeOf[t] = d} \cup {TaughtBy[u] : u \in {v \in Modules : OwnedBy[v] = d}}) \ departed

TutorRow(d, t) == [tutor |-> t, held |-> Cardinality({m \in DepartmentMeetings(d) : TaughtBy[meeting[m].module] = t})]
TutorSummary(t) == [tutor |-> t, held |-> Cardinality(UNION {Of(u) : u \in {v \in Modules : TaughtBy[v] = t}})]

Overview(d) ==
  [staff |-> Cardinality({t \in Tutors : HomeOf[t] = d} \ departed),
   modules |-> Cardinality({u \in Modules : OwnedBy[u] = d}),
   learners |-> Cardinality(UNION {ActiveOn(u) : u \in {v \in Modules : OwnedBy[v] = d}}),
   held |-> Cardinality(DepartmentMeetings(d))]

\* getLecturerDetail: the units and the newest classes here of somebody in scope.
LecturerDetails(d, t) ==
  {[modules |-> {UnitRow(u) : u \in {v \in Modules : OwnedBy[v] = d /\ TaughtBy[v] = t}}, sessions |-> page] :
   page \in Newest({m \in DepartmentMeetings(d) : TaughtBy[meeting[m].module] = t}, DrilldownLimit)}

\* Management's department row, and the university's totals over them.
ManagementRow(d) ==
  [held |-> Cardinality({m \in Meetings : meeting[m].status # "NONE" /\ OwnedBy[meeting[m].module] = d}),
   checkIns |-> Cardinality({p \in checkedIn : OwnedBy[meeting[p[1]].module] = d})
                + Cardinality({p \in formerly : OwnedBy[meeting[p[1]].module] = d})]
University == [held |-> SumOver(OwningDepartments, LAMBDA d : ManagementRow(d).held),
               checkIns |-> SumOver(OwningDepartments, LAMBDA d : ManagementRow(d).checkIns)]

\* listYearUnits, listYears: years 1 to 4, and how many units are of none; their classes are in no year's row.
YearUnits(d, y) == {u \in Modules : OwnedBy[u] = d /\ YearOf[u] = y}
YearRow(d, y) ==
  LET held == UNION {Of(u) : u \in YearUnits(d, y)}
  IN [modules |-> Cardinality(YearUnits(d, y)), held |-> Cardinality(held), checkIns |-> SumOver(held, Recorded)]
WithoutYear(d) == Cardinality(YearUnits(d, 0))

\* listSessionReports and the exported sheet.
SessionReport(m) ==
  LET total == Cardinality(ActiveOn(meeting[m].module))
      here == Recorded(m)
  IN [checkedIn |-> here, total |-> total, absent |-> IF total > here THEN total - here ELSE 0]
\* A record belongs to the roster row it was made for: the sheet has a line for each, or one that says absent.
ExportedSheet(m) == [s \in ActiveOn(meeting[m].module) |->
                       IF s \in Here(m) \cup Once(m) THEN "Present" ELSE "Absent"]

-----------------------------------------------------------------------------
(* Punctuality. *)

Measurable(m) == meeting[m].status # "NONE" /\ meeting[m].scheduled # Unscheduled
Late(m) == meeting[m].opens - meeting[m].scheduled

\* Mutant for LogAgreesToHalfAMinute: the seconds cut off.
LateMinutesDown(m) == Late(m) \div TicksPerMinute
Nearest(ticks) == (2 * ticks + TicksPerMinute) \div (2 * TicksPerMinute)
\* Late minutes as the log shows them: SQL rounds half a minute away from zero.
LateMinutes(m) == IF Late(m) >= 0 THEN Nearest(Late(m)) ELSE - Nearest(- Late(m))
\* As a lecturer's own page shows them: Math.round takes half a minute up.
LateMinutesShown(m) == Nearest(Late(m))

OnTimeInRate(m) == Late(m) <= Grace
OnTimeInLog(m) == LateMinutes(m) * TicksPerMinute <= Grace

-----------------------------------------------------------------------------
NoMeeting == [module |-> CHOOSE u \in Modules : TRUE, opens |-> 0, closes |-> 0, status |-> "NONE", scheduled |-> Unscheduled]

FiguresInit ==
  /\ tick = 0
  /\ meeting = [m \in Meetings |-> NoMeeting]
  /\ enrolled = {}
  /\ checkedIn = {}
  /\ formerly = {}
  /\ withAccount = Learners
  /\ departed = {}
  /\ deletions = 0
  /\ policy \in Policies

\* resolveWindow: the slot the opening falls in, or the closing time the lecturer names.
WindowsFrom(u, opens) ==
  IF SlotsOf[u] = {} THEN {[start |-> Unscheduled, end |-> opens + Length]}
  ELSE {slot \in SlotsOf[u] : slot.start <= opens /\ opens < slot.end}

\* Whoever teaches the unit opens a class at a time they name, inside one of its slots if it has any.
Activate(m, u, opens) ==
  /\ meeting[m].status = "NONE" /\ \A n \in 1 .. (m - 1) : meeting[n].status # "NONE"
  /\ TaughtBy[u] \notin departed
  /\ \E window \in WindowsFrom(u, opens) :
       meeting' = [meeting EXCEPT ![m] =
         [module |-> u, opens |-> opens, closes |-> window.end, status |-> "OPEN", scheduled |-> window.start]]
  /\ UNCHANGED <<tick, enrolled, checkedIn, formerly, withAccount, departed, deletions, policy>>

\* A pause, which only holds check-ins up, is left out.
CloseMeeting(m) ==
  /\ meeting[m].status = "OPEN" /\ TaughtBy[meeting[m].module] \notin departed
  /\ meeting' = [meeting EXCEPT ![m].status = "CLOSED"]
  /\ UNCHANGED <<tick, enrolled, checkedIn, formerly, withAccount, departed, deletions, policy>>

Attend(m, s) ==
  /\ meeting[m].status = "OPEN" /\ meeting[m].opens <= tick /\ tick <= meeting[m].closes
  /\ s \in ActiveOn(meeting[m].module) \cap withAccount
  /\ checkedIn' = checkedIn \cup {<<m, s>>}
  /\ UNCHANGED <<tick, meeting, enrolled, formerly, withAccount, departed, deletions, policy>>

\* A roster synchronisation lists the student, or no longer does.
Enrol(u, s) ==
  /\ enrolled' = IF s \in ActiveOn(u) THEN enrolled \ {<<u, s>>} ELSE enrolled \cup {<<u, s>>}
  /\ UNCHANGED <<tick, meeting, checkedIn, formerly, withAccount, departed, deletions, policy>>

Deletion == deletions < MaxDeletions /\ deletions' = deletions + 1

\* Deleting a lecturer leaves their units and classes, but ends a class still open.
DeleteTutor(t) ==
  /\ t \notin departed
  /\ Deletion
  /\ departed' = departed \cup {t}
  /\ meeting' = [m \in Meetings |->
                   IF meeting[m].status = "OPEN" /\ TaughtBy[meeting[m].module] = t
                   THEN [meeting[m] EXCEPT !.status = "CLOSED", !.closes = IF @ <= tick THEN @ ELSE IF tick <= meeting[m].opens THEN meeting[m].opens + 1 ELSE tick]
                   ELSE meeting[m]]
  /\ UNCHANGED <<tick, enrolled, checkedIn, formerly, withAccount, policy>>

\* Deleting a student takes the account off the roster rows, which stay, and leaves its records on the account.
DeleteLearner(s) ==
  /\ s \in withAccount
  /\ Deletion
  /\ withAccount' = withAccount \ {s}
  /\ formerly' = formerly \cup {p \in checkedIn : p[2] = s}
  /\ checkedIn' = {p \in checkedIn : p[2] # s}
  /\ UNCHANGED <<tick, meeting, enrolled, departed, policy>>

\* The same person with a new account is put back on the rows; the old records stay where they are.
RegisterAgain(s) ==
  /\ s \notin withAccount
  /\ withAccount' = withAccount \cup {s}
  /\ UNCHANGED <<tick, meeting, enrolled, checkedIn, formerly, departed, deletions, policy>>

\* updatePolicy
SetPolicy(rule) ==
  /\ policy # rule
  /\ policy' = rule
  /\ UNCHANGED <<tick, meeting, enrolled, checkedIn, formerly, withAccount, departed, deletions>>

TickOn ==
  /\ tick < MaxTicks
  /\ tick' = tick + 1
  /\ UNCHANGED <<meeting, enrolled, checkedIn, formerly, withAccount, departed, deletions, policy>>

FiguresNext ==
  \/ \E m \in Meetings, u \in Modules, opens \in Openings : Activate(m, u, opens)
  \/ \E m \in Meetings : CloseMeeting(m) \/ \E s \in Learners : Attend(m, s)
  \/ \E u \in Modules, s \in Learners : Enrol(u, s)
  \/ \E t \in Tutors : DeleteTutor(t)
  \/ \E s \in Learners : DeleteLearner(s) \/ RegisterAgain(s)
  \/ \E rule \in Policies : SetPolicy(rule)
  \/ TickOn

FiguresSpec == FiguresInit /\ [][FiguresNext]_figuresVars

-----------------------------------------------------------------------------
\* The classes that count and are older than all the answer holds.
LeftOut(us, s, history) == (UNION {Held(u, s) : u \in us}) \ DOMAIN history

(* A student's history, of one unit or of all, adds up to the figures      *)
(* their units page shows, in every state of every class, but for the      *)
(* classes that a full page leaves out; and those figures are what the     *)
(* lecturer, the department, the university and the eligibility report     *)
(* hold of them (student.repository.ts findUnitsForStudent, "so the two    *)
(* figures agree"; student.service.ts listMyAttendance, "Over the sessions *)
(* returned").  The sheets a lecturer exports show as many classes         *)
(* attended, but for somebody whose account was deleted since              *)
(* (anonymiseAccount).                                                     *)
HistoryAgrees ==
  /\ \A s \in Learners, n \in PageSizes : \A us \in {UnitsOf(s)} \cup {{u} : u \in UnitsOf(s)} :
       \A history \in Histories(us, s, n) :
         LET summary == HistorySummary(history)
             older == LeftOut(us, s, history)
         IN /\ summary.held + Cardinality(older) = SumOver(us, LAMBDA u : StudentRow(u, s).held)
            /\ summary.attended + Cardinality({m \in older : s \in Here(m)}) = SumOver(us, LAMBDA u : StudentRow(u, s).attended)
            /\ older # {} => Cardinality(DOMAIN history) = n
  /\ \A u \in Modules : \A s \in ActiveOn(u) :
       /\ LET row == StudentRow(u, s)
          IN /\ row \in StudentsUnits(s) \cap TutorsStudents(TaughtBy[u])
             /\ row \in DepartmentStudents(OwnedBy[u])
             /\ YearOf[u] # 0 => row \in UnitStudents(YearUnits(OwnedBy[u], YearOf[u]))
             /\ row \in EligibilityReport({OwnedBy[u]}).rows <=> Classify(row, policy) \in {"AT_RISK", "NOT_ELIGIBLE"}
       /\ LET present == {m \in Of(u) : ExportedSheet(m)[s] = "Present"}
          IN present # Attended(u, s) => \E m \in present : s \in Once(m)

\* Classes nobody can check in to any more.
Done(u) == {m \in Of(u) : meeting[m].opens <= tick /\ Over(m)}
Severity(v) == CASE v = "NOT_ELIGIBLE" -> 0 [] v = "AT_RISK" -> 1 [] OTHER -> 2

(* Somebody on the list gets a worse verdict only when a class they missed *)
(* is over, the rule changes or their account is deleted: a class still    *)
(* taking check-ins, a check-in or a new account never costs them the exam *)
(* (eligibility.repository.ts listStanding).  The rule may ask for a rate  *)
(* and a margin that pass 100 % together; then nobody is ever clear of     *)
(* risk, and the first class attended says so.                             *)
OpenClassIsNoAbsenceStep ==
  \A u \in Modules : \A s \in ActiveOn(u) :
     /\ s \in ActiveOn(u)'
     /\ Severity(Classify(StudentRow(u, s), policy))' < Severity(Classify(StudentRow(u, s), policy))
     => \/ policy' # policy \/ s \in withAccount \ withAccount' \/ \E m \in Done(u)' \ Done(u) : s \notin Here(m)
        \/ policy.least + policy.margin > 100 /\ StudentRow(u, s).held = 0
OpenClassIsNoAbsence == [][OpenClassIsNoAbsenceStep]_figuresVars

(* The pages add up: the university's totals are every class and check-in  *)
(* of an owned unit, a department's units are its total, its years are but *)
(* for the units of none, and its lecturers' rows are but for the classes  *)
(* of lecturers deleted since, whoever's units those are; a lecturer's own *)
(* page lists as many as its limit lets it, and its units have them all    *)
(* (department.repository.ts listLecturers, "so the rows add up").  A      *)
(* class's rate is over 100 % and its absentees are fewer than the sheet's *)
(* only for somebody off the roster since or recorded on two accounts, and *)
(* twice for somebody who is both.                                         *)
RowsAddUp ==
  /\ University.held = Cardinality({m \in Meetings : meeting[m].status # "NONE"})
  /\ University.checkIns = Cardinality(checkedIn) + Cardinality(formerly)
  /\ \A d \in OwningDepartments :
       /\ Overview(d).held = ManagementRow(d).held
       /\ Overview(d).held = SumOver({u \in Modules : OwnedBy[u] = d}, LAMBDA u : UnitRow(u).held)
       /\ Overview(d).modules = SumOver(1 .. 4, LAMBDA y : YearRow(d, y).modules) + WithoutYear(d)
       /\ Overview(d).held = SumOver(1 .. 4, LAMBDA y : YearRow(d, y).held) + SumOver(YearUnits(d, 0), LAMBDA u : UnitRow(u).held)
       /\ Overview(d).held =
            SumOver(DepartmentTutors(d), LAMBDA t : TutorRow(d, t).held) + SumOver(departed, LAMBDA t : TutorRow(d, t).held)
       /\ \A t \in DepartmentTutors(d) : \A detail \in LecturerDetails(d, t) :
            /\ Cardinality(detail.sessions) = Limited(TutorRow(d, t).held, DrilldownLimit)
            /\ TutorRow(d, t).held = SumOver(detail.modules, LAMBDA row : row.held)
  /\ \A m \in {n \in Meetings : meeting[n].status # "NONE"} :
       LET sheet == ExportedSheet(m)
           absent == Cardinality({s \in DOMAIN sheet : sheet[s] = "Absent"})
           off == (Here(m) \cup Once(m)) \ ActiveOn(meeting[m].module)
           twice == Here(m) \cap Once(m)
       IN /\ absent - SessionReport(m).absent \in 0 .. Cardinality(off) + Cardinality(twice)
          /\ SessionRate(m) > 100 => off \cup twice # {}
  /\ \A t \in Tutors : TutorSummary(t).held = SumOver(OwningDepartments, LAMBDA d : TutorRow(d, t).held)

(* A class the on-time rate counts as on time is so in the log; one only   *)
(* the log counts so was less than half a minute over the grace, and its   *)
(* lecturer's own page shows the log's minutes, though it rounds halves    *)
(* the other way: no class opens before its slot (department.service.ts    *)
(* listTimekeeping, lateMinutes; session.service.ts resolveWindow).        *)
LogAgreesToHalfAMinute ==
  \A m \in Meetings : Measurable(m) =>
    /\ OnTimeInRate(m) => OnTimeInLog(m)
    /\ OnTimeInLog(m) => 2 * (Late(m) - Grace) < TicksPerMinute
    /\ LateMinutesShown(m) = LateMinutes(m)

=============================================================================
