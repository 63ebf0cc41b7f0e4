------------------------------- MODULE Campus -------------------------------
(* The components that keep their own rows and share no state, side by side. *)
(* A behaviour is that of one of them, and part says which: as they share no *)
(* variable, running them together would take none of them to a state that   *)
(* this does not.  Two are extended, and stay as they started while another  *)
(* runs.  The others are instantiated, their variables, in order, kept in    *)
(* r1, r2, ...: only one of them runs.                                       *)
EXTENDS QualityAudits, Accounts

\* A round of evaluations.
CONSTANTS
  Respondents, Taught, Owners, Scopes, Windows, Minimums, EvalRequests, MaxEditions,
  MaxEvalTime, MaxResponses

\* The departments' teaching lists.
CONSTANTS
  Departments, Courses, Units, Lecturers, ListOf, PersonOf, Labels,
  MaxStudents, HoursLimit, NoDepartment, NoLecturer, MaxWrites, MaxLists,
  MaxMeanwhile

\* The invigilators of the papers.
CONSTANTS
  Examiners, Faculties, Papers, PaperFaculty, Invigilators, StaffNumber,
  OnListOf, DutyLimits, Rooms, Main, Unnamed, Drafts

\* Faces, and the cards and codes used with them.
CONSTANTS
  Pupils, Photos, Cards, Likeness(_, _), Certain, MatchThreshold, MatchMargin,
  DuplicateThreshold, PhotosEach, TokenTtl, Lessons, Stranger, Enrolments,
  Taps, MaxAsked, MaxClock

\* Exam rooms.
CONSTANTS
  Halls, Sitters, Invigilating, Unseated, Handhelds, PushedVersions, Pushes, Starts,
  OpenEarly, EndTimes, CodeLife, MaxRequests, MaxPushes, LastMinute

\* The rosters brought from SMARTTT.
CONSTANTS
  Classrooms, Teachers, LinkedAccounts, Scholars, NoTeacher, Timetables,
  MaxVersion

\* The departments and who belongs to them.
CONSTANTS
  Spellings, KeyOf, SmartttIds, FirstLists, FirstNames, Staff, Callers,
  Nowhere, MaxDepartments, MaxCalls, MaxRenames

\* The figures on every page.
CONSTANTS
  Learners, Modules, TaughtBy, OwnedBy, YearOf, HomeOf, Policies, SlotsOf,
  Grace, TicksPerMinute, PageSizes, DrilldownLimit, Openings, Length, MaxMeetings, MaxDeletions, MaxTicks

CONSTANT Unkept  \* what a row nobody keeps holds

VARIABLES part, r1, r2, r3, r4, r5, r6, r7, r8, r9, r10

E == INSTANCE Evaluations WITH
       evalClock <- r1, round <- r2, accounts <- r3, allocated <- r4,
       givenBy <- r5, submissions <- r6, responses <- r7, evalCall <- r8,
       report <- r9

L == INSTANCE TeachingLists WITH
       term <- r1, listing <- r2, director <- r3, edits <- r4

I == INSTANCE Invigilation WITH
       limit <- r1, shared <- r2, papers <- r3, named <- r4,
       published <- r5, request <- r6

R == INSTANCE Recognition WITH
       person <- r1, template <- r2, card <- r3, live <- r4, present <- r5,
       tokens <- r6, enrolling <- r7, tap <- r8, clock <- r9, asked <- r10

X == INSTANCE ExamRooms WITH
       plan <- r1, hall <- r2, sat <- r3, shown <- r4, device <- r5,
       minute <- r6, requests <- r7, pushing <- r8,
       arrived <- r9, mixed <- r10

T == INSTANCE Rosters WITH
       timetable <- r1, version <- r2, unit <- r3, roster <- r4,
       attached <- r5, registered <- r6, sync <- r7, throttled <- r8,
       changeReport <- r9

D == INSTANCE Departments WITH
       listed <- r1, department <- r2, alias <- r3, lecturer <- r4,
       unitOwner <- r5, handling <- r6, calls <- r7, renames <- r8

F == INSTANCE AttendanceFigures WITH
       tick <- r1, meeting <- r2, enrolled <- r3, checkedIn <- r4,
       departed <- r5, policy <- r6, formerly <- r7, withAccount <- r8,
       deletions <- r9

\* What the constants must satisfy.
ASSUME CampusAssumption ==
  /\ E!EvaluationsAssumption
  /\ L!TeachingAssumption
  /\ I!InvigilationAssumption
  /\ R!RecognitionAssumption
  /\ X!ExamRoomsAssumption
  /\ T!RostersAssumption
  /\ D!DepartmentsAssumption
  /\ F!FiguresAssumption

-----------------------------------------------------------------------------
instantiated == <<r1, r2, r3, r4, r5, r6, r7, r8, r9, r10>>
campusVars == <<part, auditVars, accountsVars, instantiated>>

\* The extended parts; while another runs, nobody has a number or an address.
Extended ==
  /\ AuditInit
  /\ AccountsInit /\ (part = "accounts" \/ \A p \in People : Names(smarttt[p]) = {})

\* The rows from r7, r8, ... on, kept by no component that runs.
From10 == r10 = Unkept
From9 == r9 = Unkept /\ From10
From8 == r8 = Unkept /\ From9
From7 == r7 = Unkept /\ From8
From5 == r5 = Unkept /\ r6 = Unkept /\ From7
From1 == r1 = Unkept /\ r2 = Unkept /\ r3 = Unkept /\ r4 = Unkept /\ From5

CampusInit ==
  /\ Extended
  /\ \/ part \in {"quality", "accounts"} /\ From1
     \/ part = "evaluations" /\ E!EvalInit /\ From10
     \/ part = "teaching lists" /\ L!TeachingInit /\ From5
     \/ part = "invigilation" /\ I!InvigilationInit /\ From7
     \/ part = "recognition" /\ R!RecognitionInit
     \/ part = "exam rooms" /\ X!ExamRoomsInit
     \/ part = "rosters" /\ T!RostersInit /\ From10
     \/ part = "departments" /\ D!DepartmentsInit /\ From9
     \/ part = "figures" /\ F!FiguresInit /\ From10

Others == UNCHANGED <<part, auditVars, accountsVars>>

QualityStep == part = "quality" /\ AuditNext /\ UNCHANGED <<part, accountsVars, instantiated>>
AccountsStep == part = "accounts" /\ AccountsNext /\ UNCHANGED <<part, auditVars, instantiated>>
EvaluationsStep == part = "evaluations" /\ E!EvalNext /\ Others /\ UNCHANGED <<r10>>
TeachingStep == part = "teaching lists" /\ L!TeachingNext /\ Others /\ UNCHANGED <<r5, r6, r7, r8, r9, r10>>
InvigilationStep == part = "invigilation" /\ I!InvigilationNext /\ Others /\ UNCHANGED <<r7, r8, r9, r10>>
RecognitionStep == part = "recognition" /\ R!RecognitionNext /\ Others
ExamRoomsStep == part = "exam rooms" /\ X!ExamRoomsNext /\ Others
RostersStep == part = "rosters" /\ T!RostersNext /\ Others /\ UNCHANGED <<r10>>
DepartmentsStep == part = "departments" /\ D!DepartmentsNext /\ Others /\ UNCHANGED <<r9, r10>>
FiguresStep == part = "figures" /\ F!FiguresNext /\ Others /\ UNCHANGED <<r10>>

CampusNext ==
  \/ QualityStep \/ AccountsStep \/ EvaluationsStep \/ TeachingStep \/ InvigilationStep
  \/ RecognitionStep \/ ExamRoomsStep \/ RostersStep \/ DepartmentsStep \/ FiguresStep

CampusSpec == CampusInit /\ [][CampusNext]_campusVars

-----------------------------------------------------------------------------
(* The properties of the instantiated components, in the behaviours that are *)
(* theirs.                                                                   *)

\* Evaluations: ratings and comments are given only out of as many responses as the round asks.
ShownOnlyFromMinimum == part = "evaluations" => E!ShownOnlyFromMinimum

\* Evaluations: every answer is to the questions the round has now, and was given once.
AnswersFitQuestions == part = "evaluations" => E!AnswersFitQuestions

\* TeachingLists: what the Director imports is what stands published, unless published again since the first read.
ImportMatchesUnlessRepublished == part = "teaching lists" => L!ImportMatchesUnlessRepublished

\* TeachingLists: a list that stands published has nothing left to put right.
PublishedListComplete == part = "teaching lists" => L!PublishedListComplete

\* Invigilation: nobody is named in two places at the same time.
NamesApart == part = "invigilation" => I!NamesApart

\* Invigilation: no name gives a person a new duty beyond their limit.
WithinDutyLimit == [][part = "invigilation" => I!WithinDutyLimitStep]_campusVars

\* Invigilation: the names of a published department stay until it reopens.
NamesStandWhilePublished == [][part = "invigilation" => I!NamesStandWhilePublishedStep]_campusVars

\* Recognition: a face check-in is recorded in the class it was matched for.
RecordedWhereMatched == part = "recognition" => R!RecordedWhereMatched

\* Recognition: one face gets a second name only through two enrolments that overlap.
SecondNameOnlyByOverlap == [][part = "recognition" => R!SecondNameOnlyByOverlapStep]_campusVars

\* ExamRooms: who is recorded in a room was seated there by a version of the plan, and nobody is in two rooms
\* unless pushes overlapped.
SatWhereSeated == part = "exam rooms" => X!SatWhereSeated

\* Rosters: a reported change has arrived when its handling ends.
ReportedChangeArrives == [][part = "rosters" => T!ReportedChangeArrivesStep]_campusVars

\* Rosters: a student is left off a roster only by a sync that overlaps their registration, or a failed linking.
UnattachedOnlyByOverlap == [][part = "rosters" => T!UnattachedOnlyByOverlapStep]_campusVars

\* Departments: a lecturer leaves their department only when moved or when it is merged.
PlacementStands == [][part = "departments" => D!PlacementStandsStep]_campusVars

\* Departments: every spelling of a merged department means the one it was merged into.
MergedSpellingsFollow == [][part = "departments" => D!MergedSpellingsFollowStep]_campusVars

\* AttendanceFigures: what a student's own history and what a full page leaves out add up to is what others count.
HistoryAgrees == part = "figures" => F!HistoryAgrees

\* AttendanceFigures: the rows of a page add up to the totals above them.
RowsAddUp == part = "figures" => F!RowsAddUp

\* AttendanceFigures: the timekeeping log and the rate differ by their rounding only.
LogAgreesToHalfAMinute == part = "figures" => F!LogAgreesToHalfAMinute

\* AttendanceFigures: a class still open is counted an absence for nobody.
OpenClassIsNoAbsence == [][part = "figures" => F!OpenClassIsNoAbsenceStep]_campusVars

=============================================================================
