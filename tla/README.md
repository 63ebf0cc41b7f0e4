# Verification of the attendance backend

TLA+ models of the attendance backend under `src/`: an Express server in TypeScript over
PostgreSQL, with portable check-in terminals (an ESP32 box and an Android handheld) and a
face service around it. The models are checked with TLC on small instances, and the results
that matter most are proved with TLAPS for every value of the constants.

Contents: the system, the way it is modelled, what each module says, the runs and their
bounds, fairness, what is proved, where the code and its own statements disagree, what is
not modelled, and what is left.

## 1. The system

### What makes it hard

The server is one Node process, or several, over one PostgreSQL at READ COMMITTED. A
handler runs alone on the event loop until it awaits. Every database statement, password
hash and outgoing call is an await, so two requests interleave at every one of them, and
what a request read before an await may be stale after it. Some writes repeat what was
read in their `WHERE`, some hold a lock, some rely on a unique index, and some write by id
alone: whether that is enough is the question these modules ask. Around the server there are
clients that repeat requests, answers that are lost, terminals whose battery dies, emailed
links that are used twice, and SMARTTT (the university's timetable), which may answer late,
differently, or not at all.

### Components

For each component: the state it keeps, its operations, the components it works with, what
makes it correct, and the module that models it. `PROJECT.json` lists the files.

| Component | State | Operations | Works with | Correct when | Module |
|---|---|---|---|---|---|
| Class sessions and check-in (`session`, `attendance`) | `attendance_sessions`, `attendance_records`, `unit_allocations` | open, pause, resume, close, move the fence; check in by QR, card, fingerprint, face | rooms and the timetable give the fence and the window; the roster comes from the ERP; terminals and face tokens bring check-ins | one row per student; a row only for a check that held inside window, fence, method and roster; a class that is over comes back, and a captured centre is lost, only by a request that read the row before | `ClassSession` |
| Rotating QR code (`session.token`) | none: an HMAC of the time step | issue, verify, show | class sessions, exam rooms | the code on the screen is good while it is shown, and an old one is refused | `RotatingCode` |
| Geofence (`session.geofence`) | none | check a reading, choose the centre | class sessions | who is inside is let in, who is let in is near | `Geofence` |
| Weekly meetings (`unit`) | `unit_timetable_slots`, a unit's schedule | keep, offer now, find the window | class sessions, rosters | what is offered can be opened | `Timetables` |
| Fingerprint enrolment (`terminal/enrolment`) | `student_fingerprints`, `terminal_commands`; the reader's flash and the device's slot notes | request, cancel, revoke; fetch, enrol, erase, report | terminals; class sessions resolve a slot to a student | no finger counts for another student; no template without an owner; a removal takes its finger off the reader, and no other | `FingerprintEnrolment` |
| Terminals (`terminal`) | `terminals` row: status, pairing code, key, linked class | register, pair, re-pair, lose, retire; link, unlink, heartbeat | class sessions, departments | one device per terminal; only its department's classes; a finished class lets go | `Terminals` |
| Sign-in and invited accounts (`auth`) | `users`, `auth_sessions`, `account_invitations`, `password_reset_tokens`, cookies | log in, refresh, log out, change or reset the password; invite, accept, deactivate, re-invite | everything behind a role | the lock holds; links are good once; access taken away comes back only by invitation | `SignIn` |
| Accounts (`auth.service`, `auth.smarttt`, `auth.deletion`) | `users` with profiles and SMARTTT ids | register, sign in with SMARTTT, link, provision, delete | sign-in, rosters | one account per person; a deleted one names nobody | `Accounts` |
| Exam papers (`teaching/exams`, `exam-list`) | `teaching_exam_papers`, their class rows, publication | save an upload, correct, recount, switch, delete, publish, reopen; the Director's import | SMARTTT's counts; the moderation letter; the Generator reads | corrections survive a recount; no seat is lost; the published list is the one that was signed | `ExamPapers` |
| Moderation letter (`teaching/exam-list.read`, the review) | none until it is saved | read the document, review it against the term, save | exam papers; SMARTTT's programmes and timetable | no listing is lost; one ODEL paper per unit; what is proposed can be saved | `ModerationLetter` |
| Exam board and submission (`teaching/exams`) | none: reads | the department's page; the Generator's import | exam papers, publication, the Generator | a class is one course, big enough for every paper it sits | `ExamSubmission` |
| Teaching lists (`teaching`) | courses, units, groups, lecturers, publication | edit, paste, import, publish, reopen | exam papers share its lock | a published list has nothing left to put right, and it is what the Director takes | `TeachingLists` |
| Invigilators (`teaching/invigilation`) | named lecturers per session and room | name, clear, publish, reopen | exam papers, other departments, the Generator's draft | nobody in two rooms at once, nor over their limit | `Invigilation` |
| Exam rooms (`exam`) | pushed seating, open rooms, room attendance | push, open, show, check in, close, report | SMARTTT | only seated students, and each in one room of the report | `ExamRooms` |
| Face verification and cards (`verification`, `attendance`) | consent, templates, cards, match tokens | consent, enrol, match, confirm, withdraw; tap a card | the face service, class sessions | a face has one name; a match counts in its own class | `Recognition` |
| Units and rosters (`unit`, `student`) | units, allocations, in-process memory of syncs | sync, report a change, add by hand, verify, register | ERP and SMARTTT; class sessions | a reported change arrives; a student is attached to the rosters they are on, unless registration overlapped a sync or its linking failed | `Rosters` |
| Departments and directory (`directory`, `admin`, `lecturer.placement`) | departments and their links, spellings, placements, units' owners | pull, create, correct, send, merge, place | SMARTTT | a placement stands; a spelling follows a merge | `Departments` |
| Quality assurance (`quality-assurance`) | standards, checklists, audits, findings, corrective actions | plan, start, complete, record, verify, close | management | stamps match statuses | `QualityAudits` |
| Evaluations (`quality-assurance/evaluation`) | rounds, questions, submissions, anonymous responses | create, change, delete; answer; read results | units, rosters | answers fit the questions; answers are shown only out of a group as large as the round asks | `Evaluations` |
| Figures (`student`, `lecturer`, `department`, `management`, `reporting`, `eligibility`) | an eligibility policy; otherwise reads | every page's counts; change the policy; delete and register anew | class sessions, rosters, departments | the pages agree with each other | `AttendanceFigures` |
| ERP client (`integrations/erp`) | none | look up a student, a lecturer, a list | accounts, rosters | errors are reported, never guessed over | `ErpLookups` |
| Passkeys, notification and audit trail, HTTP middleware, device screens, face service, schema and stand-ins | - | - | - | - | section 7 |

## 2. How the code is modelled

*A request is a frame.* A handler that reads, awaits and writes is a record in a slot
(`scan`, `edit`, `call`, `officer`, `calls`, `request`, `visit`, ...). It takes one step per
database statement on which a decision rests and keeps what it read. The slots bound how many
requests run at the same time; there is no bound on how many are ever made unless a constant
says so. A transaction, or a single `UPDATE ... WHERE`, is one step. A lock held from the
first read to the commit makes the whole request one step, as for the department's lock in
`ExamPapers` and `TeachingLists`; requests under different locks interleave, as in
`Invigilation`. Where transactions without such a lock overlap and it matters, each row is a step
and what a statement sees is what was committed when it began, as in `ExamRooms`. Reads on the pool
are a step each, as the import's in `TeachingLists`.

*A refused request is a stutter.* It changes nothing but the audit log, so its guard is
false, or its frame goes back to idle when the refusal comes after an await.

*A restart drops the frames.* Rows survive, requests in flight do not. For devices, flash
survives a dead battery and what the device was doing does not.

*A constraint of the database is a guard, where the code relies on it* (unique indexes,
foreign keys). Where a property says the code never needs one, the constraint is left out:
`QualityAudits` leaves out the CHECK that ties a status to its verifier.

*Data is small.* A place is a model value, a password is the number of the choice that made
it, a key the number of the pairing code it was traded for, a class of students a model
value, a photo a number with a likeness to the others. Cryptography is taken at its word: a
hash identifies what was hashed, an HMAC equals another exactly when its parts do.

| Module | Models | State and actions |
|---|---|---|
| `ClassSession` | `session.service.ts`, `session.repository.ts`, `session.geofence.ts`, `attendance.*` for one class | `session` is the row, `records` and `allocation` the tables, `scan` and `edit` the requests. `ReadForStatus`/`WriteStatus` and `ReadForFence`/`WriteFence` are the two halves of the lecturer's handlers. A check-in is `VerifySession`, `CheckRoster`, `CheckAlreadyRecorded`, `InsertRecord`, one per statement |
| `AttendanceRegister` | nothing of the code: what attendance promises | a class, the methods it takes, admissions, who is present, and the lecturer's decisions (`order`) that have yet to take effect |
| `ClassSessionRegister` | the refinement mapping | the status is the class, a check-in past its session check is an admission, the row is the mark, a status request that has read and not written is a decision |
| `FingerprintEnrolment` | `enrolment.service.ts`, `enrolment.repository.ts`, `main.cpp`, `TerminalEngine.kt` | server tables `enrolments`, `commands`; the reader's `template`; the device's `slotMap` and its loop `device`. `kind` says which client it is |
| `Terminals` | `terminal.service.ts`, `.repository.ts`, `.middleware.ts`, `.link.ts`, and pairing on the devices | `row`, the devices' keys, requests of officers and devices |
| `SignIn` | `auth.login.service.ts`, `auth.password.*`, `auth.invitation.*`, `auth.session.*`, `auth.controller.ts` | one officer's `user` row, `links`, `sessions`, each browser's `cookie`, requests in `calls` |
| `ExamPapers` | `exam-list.service.ts`, `exams.service.ts`, `teaching.service.ts` (lock and publication) | `paper`, `publication`, SMARTTT's present answer, and the requests that wait for it. `Merged`, `SharedOut`, `WithLetterClasses`, `ApplyRows` are the code's pure functions over class rows |
| `QualityAudits` | `audit.*`, `capa.*`, `checklist.*`, `standards.service.ts` | the catalogue, one template's items, one audit with its findings, one corrective action; a PATCH is a read, a decision and a write by id (`auditCall`) |
| `Evaluations` | `evaluation.*` | a round, the edition of its questions, submissions by name and responses without one. Results are three reads: the round, the counts per unit, lecturer and department, and the ratings and comments per unit and lecturer; they are given per row and as `overall` |
| `TeachingLists` | `teaching.service.ts`, `teaching.repository.ts`, `teaching.import.ts` | `term` is all that is entered for a term; every write of a department is one step under its lock; a paste is a fold over its rows; the Director reads six tables one by one, and the publications beside them, under no lock |
| `Invigilation` | `invigilation.service.ts`, the draft of `generator.client.ts` | the draft is read first, then the lock is taken, then names are judged and written |
| `Accounts` | `auth.service.ts`, `auth.smarttt.*`, `auth.deletion.*`, `student.directory.ts` | `account` rows and what SMARTTT says of each person; sign-ins that find a candidate and link it by id later |
| `Recognition` | `verification.*`, `face.match.ts`, `face.token.ts`, `card.repository.ts` and the terminal's half of `attendance.service.ts` | consent, templates, match tokens; an enrolment embeds, compares, then saves |
| `ExamRooms` | `exam.service.ts`, `exam.repository.ts` | the pushed plan, the rooms' rows, the code shown, who sat where. A push (`pushing`) writes its rooms row by row, reads which others are on the paper, withdraws them row by row and commits or rolls back; pushes come late, twice, out of order and overlap |
| `Rosters` | `unit.service.ts`, `unit.repository.ts`, `smarttt.client.ts`, registration in `auth.service.ts` | a sync in its phases, the map of those in flight, the throttle, the report of a change; a registration links its rosters in a step of its own that may fail and is not tried again |
| `Departments` | `directory.*`, `admin.*`, `lecturer.placement.ts`, migrations 033 and 036 | departments, links, learned spellings, placements and units' owners |
| `AttendanceFigures` | the queries of `student`, `lecturer`, `department`, `management`, `reporting`, `eligibility` | each page's query is an operator over one small state of classes, check-ins and rosters, with its `LIMIT` |
| `RotatingCode`, `Geofence`, `Timetables`, `ErpLookups`, `ModerationLetter`, `ExamSubmission` | `session.token.ts`, `session.geofence.ts`, the timetable's half of `unit.service.ts` and `resolveWindow`, `erp.client.ts`, `exam-list.read.ts` with `letterClasses` and `review`, the reads of `exams.service.ts` | no state: operators, compared with plainer statements in `MCRules` and proved about in `RulesProofs` |
| `Campus` | nothing of the code: ten components that share no variable, side by side | `part` says which of them a behaviour is of, section 3 |
| `MC...` | - | the small sets of each run; `MCCampus` gives them for `Campus` |
| `...Proofs` | - | theorems about the components, section 5: devices in `DeviceProofs`, people and figures in `PeopleProofs`, departments' and quality work in `OfficeProofs`, stateless rules in `RulesProofs`, the composition in `CampusProofs` |

Operators marked "Mutant" or "Not the code" stand beside the definition they vary. Each is
a plausible slip in that code; with it in place of the original, TLC finds the property
named in `PROJECT.json` violated under the run's own configuration. They show what the
property would catch and are part of no specification.

## 3. Runs, bounds and what they show

Numbers of states are distinct states.

### Class sessions

* `ClassSession_checkins` (1,036,960 states). One student, two check-ins at once by QR, two
  requests of the lecturer at once, a room that was not surveyed (so that the fence moves with the
  phone), a meeting 0..1 on a clock 0..2. `OncePerStudent`: the advisory check can be passed twice,
  the unique index decides. `RecordsEarned`: a row goes back to a check that was right when it was
  made, though session, fence and roster are not looked at again. `CentreLostOnlyByOverlap`: a
  request that switches the fence off may erase the centre a phone has just sent, but only one that
  had read the row before; once no such request is in flight no later one loses it.
  `ImplementsRegister`: the handlers implement the abstract register, in which a class that is over
  comes back only by a decision taken before it was over. Two slots on each side show every race of
  one student's check-ins and of two devices of the lecturer; two students do not share a row; the
  clock runs before, through and past the window, both ends included. The other methods differ from
  QR in what the lecturer may allow and in no step; the theorems are for any set of them. Scans,
  requests and places are interchangeable (symmetry; there is no liveness in the run).
* `ClassSession_reopen` (violation). Two requests of the lecturer at once; see section 6.

### Fingerprint enrolment

* `Fingerprint_faults` (42,345 states). The ESP32 box, two students on a reader with
  one slot, three commands, and every fault but a broken reader: requests and replies lost, the
  battery. One slot makes every reuse collide at once, and three commands are an enrolment,
  its removal and a second enrolment. `FingerCountsForItsOwner`, `NoOrphanTemplate`,
  `SettledIsFinal`, and `RemovalsHappen`: a removal ends with its finger off the reader, reported
  done, unless an officer withdraws it or the box was cut off. A broken reader is left to the
  proofs, which assume nothing about faults: with it a removal ends `FAILED`, and nothing queues it
  again, so that `RemovalsHappen` is a claim about a reader that works.
  The claims are for the box. The handheld keeps the template when the reply
  timed out and forgets the slot (`TerminalEngine.kt:217`), so they do not hold for it.
* `Fingerprint_removal` (violation). Two slots, messages lost; see section 6.

### Terminals

* `Terminals_paired` (70,496 states). Two devices taking over one name, two pairing
  codes, a class of the terminal's department and a foreign one, one request of the officers and
  one of the devices at a time. Two codes are one handover, and one request beside
  another is every stale read there is on one row. `OneDevicePaired`, `RecordsForOwnClasses`,
  `FinishedClassDropped`. With two officers at once a retired terminal can come back:
  `reissuePairing` and `decommission` check the status and write by id later.
* `Terminals_handover` (violation). See section 6.

### Sign-in

* `SignIn_account` (1,220,408 states). One browser, every request, two at a time; a limit
  of two wrong passwords, two passwords, one session, one refresh, three links, and one
  deactivation. Three links are an invitation, its resend and a reset, or an invitation in
  each term. `LimitHolds`, `NobodyReturnsUninvited`, `OnePasswordPerLink`. Two resends at the
  same time do leave two live links (`auth.invitation.repository.ts:110`); the model has it, and
  the properties say why that does no harm.
* `SignIn_reset` (violation). See section 6.

### Exam papers

* `ExamPapers_list` (1,239,023 states). Two papers (symmetric), four classes (the guessed
  one, the whole class, a stream of it, its ODEL row), one request that waits for SMARTTT
  while officers make up to three changes and SMARTTT's answer changes once. Two papers are
  the regular and the ODEL paper of one set of codes; three changes let a correction, an
  upload and a deletion meet one reading. `PublishedListHolds`, `CorrectionsKept`, `SeatsKept`,
  `LetterIsWhole`.
* `ExamPapers_recount` (violation). See section 6.

### The rest of the campus

* `Evaluations_overall` (violation). Two students, two units of one lecturer, one reader; the
  overall figures beside the rows. See section 6.
* `Campus` (1,337,970 states). `Campus` holds ten components that share no variable. A behaviour
  is one component's, chosen initially and named by `part`; the others stand still. As no action
  reads or writes another component's variables, running them side by side reaches no state of a
  component that this does not, and the run costs the sum of their states instead of the product.
  `QualityAudits` and `Accounts` are extended (their assumptions are TLC's to check); the other
  eight are instantiated over the shared variables `r1` ... `r10`, and their assumptions are
  gathered in `CampusAssumption`. Symmetry is taken over the pairs `PairA`, `PairB`, `PairC`,
  which every component uses as unordered sets; the run has no liveness.

  | Part | Instance | Properties, and what would break them |
  |---|---|---|
  | Quality audits | two officers at once, two items, one corrective action, three status writes | `StampMatchesStatus`: verifying, closing and going back overlap, and each writes the verifier it decided on. `StampsStay`: a slow start written after a completion |
  | Accounts | two people, two numbers, two addresses, two account rows, two requests, one change in SMARTTT | `LinkKept`: a number SMARTTT reassigned. `DeletedNamesNobody`: a deletion against a sign-in in flight |
  | Evaluations | two students of one unit, its lecturer for either of two departments, two editions of the questions, a minimum of two, two requests, results for every department at once | `AnswersFitQuestions`: answering against replacing the questions, answering twice, and an evaluation without answers of questions that were replaced. `ShownOnlyFromMinimum`: rows counted per department show answers found by unit and lecturer, read apart while the unit changes hands. Results for one department are covered by the theorem |
  | Teaching lists | two departments, two courses and units, one lecturer of one of the two, four writes, two publications, one step of the departments between the Director's reads | `PublishedListComplete`: another department changes what a published list relies on. `ImportMatchesUnlessRepublished`: six tables and the publications read apart, around a write or a reopening |
  | Invigilation | three papers of two departments at one time, two rooms, limits of none and one, two officers | `NamesApart`, `WithinDutyLimit`: two officers of one department judge the same names. `NamesStandWhilePublished` |
  | Recognition | two students, three photos of which two are alike, two classes, two enrolments and one terminal request | `RecordedWhereMatched`: a match from another class. `SecondNameOnlyByOverlap`: two enrolments that each compared before the other was saved |
  | Exam rooms | two rooms, two candidates, two versions of the plan, two pushes that may overlap, one handheld, a code that lasts a minute | `SatWhereSeated`: a push between the check of the seat and the record, pushes that overlap, roll back or come in the wrong order; what it excepts, a report after overlapping pushes, is reachable |
  | Rosters | a unit two lecturers are listed for in turn, one student | `ReportedChangeArrives`: a report during a sync that read the old timetable. `UnattachedOnlyByOverlap`: an account made during a sync, or whose linking failed; a sync that knew the account attaches it when it commits |
  | Departments | three spellings, two of one key; two departments, one rename in SMARTTT, two requests | `PlacementStands`: a sign-in or a learned spelling against a placement. `MergedSpellingsFollow`: spellings through a merge and a rename |
  | Figures | one student, two units of one department, one taught from outside; two classes, one deletion, two policies; pages of one class and of all for the student, of one for the lecturer's page (20 in the code) | `HistoryAgrees`, `RowsAddUp`: the same classes counted by ten queries, also after a student was deleted and came back, or left, and where a page is full. `LogAgreesToHalfAMinute`: two roundings. `OpenClassIsNoAbsence` |

  Properties named "...OnlyByOverlap" or "...Unless..." state the exact exception the code leaves:
  the overlap itself is reachable in the run, so the exception is not idle. Bounds are the least
  at which the overlap happens: two requests, one change of the outside world between them.

### The rules that keep nothing

`MCRules` (extended by `MCCampus`) evaluates `RotatingCode`, `Geofence`, `Timetables`, `ErpLookups`,
`ModerationLetter` and `ExamSubmission` on every input of a small instance and compares them with
plainer statements, as `RulesAssumption`: codes of two classes around every whole second of six;
every place, reading and accuracy on a line of seven points; every timetable of five entries; every
sequence of answers of three attempts; every letter of up to four blocks of seven kinds, read
against a line-by-line reading and, up to three blocks, reviewed against every list of two papers
and saved with every choice the review leaves; every answer of the timetable for a class that does
not say its year; every two papers of two departments and two classes. It also keeps one instance in
which a rule fails because a precondition is missing (a device less precise than the fence is wide),
so that the theorem's assumption is seen to be needed.

### Bounds and deadlock

`CHECK_DEADLOCK FALSE` stands where the system may stop by the bounds: all commands are
queued, all codes issued, all links sent, all edits made.

`MaxTime`, `MaxCommands`, `MaxCodes`, `MaxPasswords`, `MaxSessions`, `MaxRefreshes`, `MaxLinks`,
`MaxTerms`, `MaxMeanwhile`, `MaxPushes`, `MaxSyncs`, `MaxEdits`, `MaxStatusWrites`, `MaxAccounts`,
`MaxVisits`, `MaxRenewals`, `MaxEditions`, `MaxEvalTime`, `MaxResponses`, `MaxStudents`,
`MaxWrites`, `MaxLists`, `MaxAsked`, `MaxClock`, `MaxRequests`, `LastMinute`, `MaxVersion`,
`MaxDepartments`, `MaxCalls`, `MaxRenames`, `MaxMeetings`, `MaxDeletions`, `MaxTicks`, `Openings`
and `Length` are bounds of the model, kept in the guards. `Capacity` (of the reader), `MaxFailures`,
`PageSizes` and `DrilldownLimit` are the code's own, at smaller values. `cutOff` lets a battery die
once.

## 4. Fairness

* `FingerprintEnrolment`: the device's loop beats every minute and runs what it fetched to
  the end (weak fairness of `Fetch`, of `DeviceStep` and of the answer's coming or not
  coming). A removal stays pending until its report is taken, so it is repeated for ever;
  strong fairness of `EraseFinger(c)` and of `Complete(c, FALSE)` says that a network that
  loses messages does not lose every one. The reader is taken to work: a removal it refuses is
  reported failed and is over. No officer is assumed to do anything.
* `Terminals`: a paired device beats (strong fairness, since it may be turned away and
  paired again), and the server answers what it has accepted (weak fairness of each
  request's `Answer`).
* The other modules state no liveness and assume no fairness: what ends there, ends because
  somebody asks for it. A sync that nobody repeats is a case in point: the code gives no promise
  that a roster is ever fresh, only that a reported change is not missed by the handling of its
  report.

## 5. What is proved

TLAPS checks the theorems below from the assumptions named in each module (`...Assumption`:
the constants' types, and that the "none" values are none of the others). They hold for any
number of students, requests, devices, slots, links and papers.

**`ClassSessionProofs`.** `TypeCorrect` is inductive. For `RecordedOnce` and
`RecordsAreEarned` the invariant `CheckInInv` adds what the *frames* carry: nothing is
recorded or under way before the class opens, and every frame past its session check
holds evidence that was right and, past the roster, a student who was listed. Window and
methods never change after opening and no roster row is deleted, which is why old evidence
stays good. For `FencesAreCentred` and `SurveyedRoomAlwaysWins` the invariant `FenceInv`
says the same of the fences that requests have computed and not yet written.
`ClosedStaysClosed` and `CentreStays` say what overlapping requests of the lecturer leave standing:
once the class is closed and no status request that read it before is still to write, it stays
closed; once a centre is captured and no fence request computed before is still to erase it, it
stays. A request that reads the row afterwards decides on what it then finds. Whether a class that
was closed is reopened by one that overlapped is `ClassSession_reopen`'s question, and the answer is
yes. `RegisterImplemented` is the refinement, for any number of requests: `LecturerImplements`,
`CheckInImplements` and `SurroundingsImplement` map each handler's step to a step of
`AttendanceRegister` or to a stutter. An insert is the register's mark because a student has one
row at most (`OncePerStudent`, before and after the step: the mapping reads "the" row of a
student), a refusal is an admission that came to nothing, and a restart ends all of them.

**`DeviceProofs`.** Of `Terminals`: `TerminalTypes`; `OneDeviceAtATime` by `OneKeyPerCode` (a key
comes from one code and a code on offer has given no key); `OwnClassesOnly` by `OwnLinks` (every
class on the row or in a request in flight is the department's own). Of `FingerprintEnrolment`:

* `FingerprintTypes`, with `Resolved`: every id a row or a frame mentions is that of a row.
* `NoFingerMisread` is `FingerCountsForItsOwner`, by `SlotsSettled`: for a careful box, every
  slot but the one in hand already holds its owner's finger, and the one in hand is either newly
  filled for the command in hand, or not confirmed and about to be freed.
* `SettledStaysSettled` is `SettledIsFinal`: `CommandsStep` and `EnrolmentsStep` say how any
  step may change the two tables.
* `NoTemplateOrphaned` is `NoOrphanTemplate`, by `Accounted`. A template is safe because its
  enrolment stands, its slot is noted, and no removal of it is done. That this survives each step
  needs: an enrolment's command names it and is not offered again (`Traced`), a removal names an
  enrolment (`RemovalsKnown`), a confirmed enrolment stands until the box has noted its slot
  (`ToNote`), and a removal about to be reported has emptied the slot noted for it (`Erased`).

**`SignInProofs`.** `SignInTypes`; `LockHolds` and `ActiveCanSignIn` by the row alone
(`RowInv`); `ReturnsInvited` and `PasswordsPaidFor` by `LinkInv`: a live invitation belongs
to the current term, because deactivation withdraws what was outstanding and a
re-invitation starts the next, and an acceptance in flight knows its link.

**`ExamPapersProofs`.** `ExamPapersTypes` is inductive and includes that sharing out never
makes a negative number. The action properties follow from lemmas about the pure functions:
`MergedRows` (what a merge keeps, adds and drops), `SharedOutSeats` and `MergedSeats` (the
shares of a typed number add up to some seats, by division), `LetterRows` (a heading's
number is the class's), `ApplyRowsType`. `CountsWritten`, `UploadWrites` and `StandingStep`
say which rows each kind of step writes. They give `LoadedCorrectionsAreKept`,
`TypedSeatsAreKept`, `ReadRowsAreSmarttts`, `OnlyTheImportCounts`, `PublishedAsSigned` and
`LetterNumberIsTheClass`.

**`OfficeProofs`**, for any number of people, departments and overlapping requests.

* *Quality audits.* `AuditTypes`; `StampAlwaysMatches` by `StampInv`, which adds `StampsCarried`:
  what a request decided to write carries a verifier exactly when its status asks for one, so
  that whichever of two overlapping requests writes last, the row satisfies the database's CHECK.
  `StampsAlwaysStay` and `FindingsAlwaysKeepTheirItem` (the foreign key decides what the check in
  a statement of its own cannot).
* *Evaluations.* `AnswersAlwaysFit` and `ShownAlwaysFromMinimum` by `RoundInv`. Responses only
  grow while a round stands, so what a reader holds is still there, and in its scope (`ReadsStand`);
  a row's answers are those of its unit and lecturer in the scope, a group that includes what the
  row counted (`EntryStands`), and `overall`'s are those of the whole scope. What `overall` gives
  away of a unit below the minimum is no part of this: `Evaluations_overall` shows it.
* *Invigilators.* `NamesAlwaysApart`, `NewDutiesWithinLimit`, `PublishedNamesStand` by
  `InvigilationInv`: two requests never hold the lock of one department, nor one a published
  department's (`LockKept`), and so what a request checked under it is still so when it writes
  (`ChecksHold`).
* *Rosters.* `ReportedChangeAlwaysArrives` and `OnlyOverlapLeavesUnattached` by `RostersInv`: a
  sync has done what is no longer on its list (`SyncsOnTheWay`), and a report that has stopped
  waiting is followed by syncs that asked SMARTTT after it (`ReportsWaitEnough`). A sync's commit
  attaches whoever it knew (`CommitAttaches`), and what else can leave a student unattached is one
  case per action (`UnattachedBy`).
* *Departments.* `PlacementStands` and `MergedSpellingsFollow` by `DepartmentsInv` (no two of the
  departments there have one name, and a request mentions what it found). Bringing a list in is a
  fold over it: `BroughtIn` takes a copy that lost no department and nobody's placement to
  another (`Copies`), hence so does the whole list.
* *Teaching lists.* `PublishedListComplete` and `ImportMatchesUnlessRepublished` by `TeachingInv`: a
  standing list is complete, and each table the Director has read agrees with what stands of a
  department, in what belongs to it, as long as its publication is the one that stood at the first
  read (`ReadAsPublished`); six tables that agree make the unit that is given (`AgreedUnit`). A
  department writes only what is its own or nobody's, which the lemmas on each write say row by row.

A fold's value is a `CHOOSE` over the functions that recurse as it does. `LoopExists` shows that
there is one, by a least number of elements for which there would be none; a bound on the result
is then a least counterexample away. This is how the loops of a paste, a list and `bestMatch` are
proved without the induction theorems, which these provers cannot instantiate.

**`PeopleProofs`**, for any number of people, photos, rooms and classes.

* *Accounts.* `AccountsTypes`; `LinkAlwaysKept` by `HeldOwn` (a sign-in holds the link it read,
  which is nobody's or its own person's); `DeletedAlwaysNamesNobody`; and `OneLiveAccountAlways`
  by `OneEachInv`: the unique indexes hold however requests race, and a write that does not fit
  leaves no half of itself.
* *Faces.* `BestMatchIsClear` is about the loop of `bestMatch`, in whatever order the candidates
  come. `FaceRecordedWhereMatched` by `TapsMatched` (a request past the match has a token of its
  class); `SecondNameNeedsOverlap` by `ComparedFaces` (an enrolment about to be written is unlike
  everybody it was compared with).
* *Exam rooms.* `RecordedWhereSeated` by `SeatsFromPlans`: who a room or a request takes for its
  candidate was seated there by some version that was pushed, whatever order pushes come in; and for
  the report by `PushesApart`: a push that none overlapped has every other room of the paper on its
  list or withdrawn, and a version seats a candidate once.
* *Figures.* `HistoryAlwaysAgrees` (a page of the newest classes and those it leaves out are the
  classes that count, for any page size), `LogAlwaysAgrees` (two roundings of the same minutes, by
  division), `RowsAlwaysAddUp` (a sum over units, years or staff counts each class once, since each
  class is in one of the disjoint parts; a lecturer's page lists as many as any limit lets it) and
  `OpenClassIsNeverAnAbsence`, with `ClassesHeld`.

**`CampusProofs`** proves the properties of the run `Campus` of its composition. `Campus`
instantiates the components over `r1`, `r2`, ...; `CampusProofs` instantiates `OfficeProofs` and
`PeopleProofs` the same way. `EvaluationsSame`, `InvigilationSame` and their like show that the
component running in the campus is the one the proofs are about: same initial states, same steps,
same property. A part that runs takes its own steps only, and while another runs its invariant is
not claimed; so each component's invariant holds under its `part`, and the campus's property
follows. Its assumptions are `CampusAssumption` and those of the extended modules, which TLC
evaluates in the run.

**`RulesProofs`.** For any rotation, secret and clock: a code is accepted from its issue until the
last window that accepts it ends (`FreshCodeAccepted`), a screen that asks again when told shows
a good code throughout (`ScreenAlwaysHolds`, with at least one earlier window accepted) and a new
one each time (`NextCodeIsNew`), an old one is refused (`PastCodeIsPast`), and what is accepted is
the class's own (`AcceptedIsOurs`). For any distance that satisfies the triangle inequality: who
is inside is never refused for a reading within its stated accuracy (`InsideIsNeverRefused`), who
is accepted is within the radius and twice the worst accuracy (`AcceptedIsNear`), and beside the
lecturer is inside if the radius covers the worst anchor (`BesideTheLecturer`). For any timetable:
`AlwaysShowsItsOneMeeting`, `AddedWithItsOneMeeting`, `OfferedCanBeOpened`. For any answers of the
records: `NotFoundIsAnswered`, `GateFailsClosed`, `OnlyRecordsKept`, `OnlyTheirsAtOnce`,
`UnreadableListIsOfNobody`. For any letter and any term's papers: at most one listing of a unit is
taken as its ODEL paper, none beside a line that says so (`OneOdelListing`), and the save refuses
nothing the review proposes (`ReviewedIsSaveable`: two lines of one paper are duplicates, and a paper
taken over has its line's codes, so none is taken over twice). For any term: a class that sits a
submitted paper is one course, at least as large as on each of its papers (`EveryClassIsACourse`, by
the least element of two well-founded orders: room to spare, then the order of reading).

Three properties say what the proofs need them to say, where a small instance could not tell:
`WithinDutyLimit` is about the step that names somebody, since a limit lowered afterwards takes no
name away; `OpenClassIsNoAbsence` allows the first class to reveal a rule whose rate and margin pass
100 % together; and `RowsAddUp` bounds the difference between a sheet and the report by roster
changes and by students recorded both before and after they came back.

Some results are proved and no longer run, since a proof says more: the modules' type invariants,
`FencesAreCentred` (the database's CHECK on the centre never fires), `SurveyedRoomAlwaysWins`,
`ClosedStaysClosed`, `ActiveCanSignIn`, `ReadRowsAreSmarttts`, `PublishedAsSigned`,
`FindingsAlwaysKeepTheirItem`, `OneLiveAccountAlways`.

**Only model-checked**: the liveness properties `RemovalsHappen` and `FinishedClassDropped`, since
fairness and `ENABLED` are outside what the prover handles; and in `MCRules` the comparisons of the
rules with plainer statements over every input of a small instance. Every invariant,
action property and refinement of a passing run is a theorem.

## 6. Where the code and its own statements disagree

Each of the first six is a run in which TLC finds the stated property violated.

1. *A closed class reopens* (`ClassSession_reopen`). `setSessionStatus` refuses to reopen a
   class it read as closed; `updateSessionStatus` writes whatever the row is by then. A
   pause from one device that overlaps a close from another ends with an open class.
2. *A removal erases another finger* (`Fingerprint_removal`). The device erases the noted
   slot, its report is lost, the slot is given to another student, and the repeated removal
   erases that one. The server keeps the enrolment active.
3. *A handover keeps its class* (`Terminals_handover`). A link in flight during re-pairing is
   written to the row after it was cleared, and the next device starts with it.
4. *A hidden unit is read off* (`Evaluations_overall`). `overall` is added up over every unit in
   scope, those below the minimum included, and is given once the scope as a whole has enough. With
   every other unit shown, subtraction leaves the hidden one's answers, be it a single response.
5. *Signed out everywhere, but for one* (`SignIn_reset`). A sign-in that was verifying the
   old password while a reset revoked the sessions opens its session afterwards.
6. *A correction is overwritten* (`ExamPapers_recount`). A recount writes back the merge of
   rows it loaded before SMARTTT answered.

Also in the models or the theorems' assumptions, worth knowing, and without a run of their own:

* A quality assurance officer cannot refresh: the statement that takes the account from the session
  for a refresh lists the roles, and `qa` is not among them, though the comment above it says that
  every role must be able to stay signed in (`auth.login.service.ts:193`). `HasAccount` in `SignIn`
  has it.
* *A lost centre.* A request that switches the fence off writes back the centre it read: a phone's
  reading sent meanwhile is lost, though the schema's notes say that the centre is kept
  (`docs/expected-schema.md:201`). `CentreLostOnlyByOverlap` names the overlap.
* *A failed removal* is not queued again by anything: revoking the enrolment has happened, and the
  template stays on the reader until somebody erases it by hand.
* *A linking that fails* is logged and forgotten (`auth.smarttt.ts:314`, `auth.service.ts:508`): the
  student is told they are not registered until a sync of the unit attaches them.
* *Overlapping pushes* of two exam plans withdraw only the rooms that were committed when the
  statement began (`exam.repository.ts:102`): with disjoint rooms both plans stay on the paper, and a
  candidate may be seated, and marked absent, in two. A push that comes alone afterwards puts it right.
* *A torn import.* The Director's import reads the term in six statements and marks as published what
  was published when it read the publications: a list reopened, changed and published again
  in between is given in a mixture. Lecturers' staff numbers and the sizes of other departments'
  courses may be newer than the publication at any time.
* *A page of a history.* The summary of a student's history is over the classes of the page, 50 unless
  they ask for more (`student.repository.ts:80`, `student.service.ts:189` says so), and so agrees with
  what their lecturers count only with the older ones added. A lecturer's page lists 20.
* *An evaluation without answers* passes after the questions were replaced, since only the answers
  refer to questions (`evaluation.repository.ts:255`): it counts for the student as having answered
  questions they were not shown, required ones included.
* Rows of evaluation results count per unit, lecturer and department, and show the answers found by
  unit and lecturer: a lecturer who gave a unit for two departments has the same answers in both rows.
* *A stream that comes later.* A class the moderation letter names as a whole has its streams set to 0
  (`exam-list.service.ts:133`); one that SMARTTT lists only afterwards is a new row beside it, and its
  students are counted twice. `LetterIsWhole` is about the save.
* A department may publish its invigilators with a gap: the board is judged before the lock is taken.
* Two tabs that refresh with one cookie lose both cookies; a device that links again while its own
  heartbeat finds the old class over may lose the new link; a lost pairing answer leaves a
  terminal active with a key nobody has, until it is re-paired.
* *The minute after a class.* `findCurrentUnitForLecturer` compares whole minutes, end included
  (`unit.repository.ts:165`), `resolveWindow` milliseconds (`session.service.ts:260`): in the
  minute that follows its end a class is offered and refused. `OfferedCanBeOpened` excludes it.
* *A meeting that ends before it starts.* `weeklySlots` leaves it out (`unit.service.ts:208`),
  `singleSlot` does not (`:181`), and the CHECK `unit_schedule_window` fails the whole sync.
  `Storable` in `Timetables`.
* *An enrolment list that cannot be read* is a list of nobody (`UnreadableListIsOfNobody`), and a
  sync then drops the whole roster; for a single record the client treats such a body as a fault
  (`erp.client.ts:169`).
* *A radius narrower than the anchor's doubt.* The default radius is 20 m and an anchor may be
  30 m off, so a student beside the lecturer may be refused; `BesideTheLecturer` needs the radius
  to cover the anchor, and `MCRules` shows an instance that does not.
* With `QR_ACCEPT_PREVIOUS_WINDOWS = 0` the code on the screen is refused for up to a second
  before it changes; `ScreenAlwaysHolds` needs at least one.
* A class that sits a regular and an ODEL paper is one course of the submission, with the mode of the
  paper on which it is larger (`exams.service.ts:462`), while each paper's row keeps its own mode. A
  department without a code is in neither `published` nor `not_published` (`:448`).
* A number of students on a second heading for the same class is not read: the first heading's
  stands (`exam-list.service.ts:191`).
* A sign-in that found an account before its deletion writes name and link back afterwards
  (`DeletedNamesNobody` names that exception); two departments may name one lecturer for the same
  hour (the board reports it); a push that arrives late replaces a newer exam plan.

## 7. What is not modelled, and why

* `ClassSession`: exam mode, unit verification at opening, read-only endpoints; consent and
  template of a face check-in are "either answer" (`Recognition` has them). One class, since
  requests on others touch other rows.
* `FingerprintEnrolment`: retiring a reader, deleting a student (which queues no removal).
* `Terminals`: renaming, capabilities, listing. One terminal.
* `SignIn`: the end of a session's lifetime, photos. One account; sign-in with SMARTTT is
  in `Accounts`, without the session it opens.
* `ExamPapers`: titles, examiners and notes, papers built from units, practicals, other
  departments' ODEL papers, two classes under one heading. One set of unit codes in one
  term. The row writes of overlapping transactions are one step each. Of the SMARTTT count
  on a letter's row only its presence is kept, and a signature is reduced to the sitting.
* `ModerationLetter`: the document's XML, the expressions that take a text for codes or for a class,
  the letter the service writes itself. `ExamSubmission`: practicals but for what one may be, titles
  and notes, and papers built from units, which `loadExams` no longer reads.
* `Evaluations`: the answers themselves, texts and averages; the ratings and the comments are two
  statements of one batch and read as one. A reader's scope is every department in the run and any in
  the proofs. One round.
* `QualityAudits`: descriptive fields; one audit, one template, one corrective action. KPIs and
  exports only read.
* `TeachingLists`: the publisher's own reading of the term, which is under the lock, is one step;
  rows are matched by code and label where the code matches ids, so of a row replaced between two
  reads the code finds less than the model. Names and contact details, kinds of rooms, the signature
  per unit that marks what changed since publishing, Excel and Word files.
* `Invigilation`: lecturers' rows changing meanwhile; the export to the Generator, a read.
* `Accounts`: passwords and e-mail verification, names and photographs.
* `Recognition`: two models of the face service at once, waking it, image checks.
* `ExamRooms`: exam mode's effect on teaching classes; lists of one's own rooms. That a version of the
  plan seats a candidate once is SMARTTT's. A deadlock of two pushes is one of the ways to roll back;
  closing a room reads and writes in one step. That a third push puts right what two overlapping ones
  left is the theorem's, the run makes two.
* `Rosters`: the ERP's rosters; the process's memory (throttle, map of syncs) lost at a restart;
  two processes, each with a map of its own, between which a report does not wait for the other's sync.
* `Departments`: codes, SMARTTT switched off, the throttle.
* `AttendanceFigures`: classes opened at the same moment are in either order on a page that ends
  between them; a unit keeps its lecturer. Left out are averages of rates, a student's SMARTTT
  timetable, who may open which page.
* Not modelled at all: *passkeys* (the challenge is single use and a library checks the
  signature; one insert and one counter remain);
  *notification and audit trail* (wording, one insert per event); *HTTP middleware, configuration
  and start-up* (validation and wording; rate limits bound how often a request may come and no
  property relies on them); the devices' *screens and offline queue*; the *face service* (numeric,
  stateless); *schema, seeds and stand-ins* (constraints are in the modules that rely on them).
* The components of `Campus` are not composed with one another where they meet: a deleted
  account and its roster rows are in `Accounts`, `Rosters` and `AttendanceFigures`, each with what
  it needs of the others as an action of its own.

## 8. What is left

1. `Recognition` composed with `ClassSession`, where a match token is spent by a check-in, and
   account deletion with `FingerprintEnrolment`, where the template stays on the reader: the
   invariants of each are proved, those of the pairs are not stated.
2. Abstract specifications for `FingerprintEnrolment` and `ExamPapers`, as `AttendanceRegister` is
   one for `ClassSession`.
3. The memory of `Rosters` at a restart, and the handheld's offline queue.
