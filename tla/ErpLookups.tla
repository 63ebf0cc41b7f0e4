----------------------------- MODULE ErpLookups -----------------------------
(* What the client of the institution's records makes of the answers its    *)
(* attempts get, however the records or the network fail.  Attempt n is     *)
(* answered answers[n]: a body that was read, or how it failed.             *)
EXTENDS Integers, FiniteSets

CONSTANTS
  Attempts,   \* ERP_MAX_RETRIES + 1
  Records,    \* what a readable body says: [active, staff, listed]
  NoRecord,   \* a body that cannot be mapped
  NoStaff,    \* no staff number
  NoAnswer    \* the status of an attempt that was not answered

LookupsAssumption == Attempts \in Nat \ {0} /\ NoRecord \notin Records

\* An answer is [status, body]; one that comes too late, or is not JSON, is none.
Retried(answer) ==
  \/ answer.status = NoAnswer
  \/ answer.status \in {408, 429}
  \/ answer.status >= 500

\* request: the first answer that is final, or none.
Finals(answers) == {n \in 1 .. Attempts : ~Retried(answers[n])}
Outcome(answer) ==
  CASE answer.status = 404 -> "NOT_FOUND"
    [] answer.status = 200 -> "ANSWERED"
    [] OTHER -> "UNAVAILABLE"
FinalAnswer(answers) == CHOOSE n \in Finals(answers) : \A m \in Finals(answers) : n <= m
Request(answers) == IF Finals(answers) = {} THEN "UNAVAILABLE" ELSE Outcome(answers[FinalAnswer(answers)])

Body(answers) == answers[FinalAnswer(answers)].body

Found(status, record) == [status |-> status, record |-> record]
Failed(status) == [status |-> status, record |-> NoRecord]

\* The record of a single lookup; a body that cannot be read proves no absence.
Lookup(answers) ==
  IF Request(answers) # "ANSWERED" THEN Failed(Request(answers))
  ELSE IF Body(answers) = NoRecord THEN Failed("UNAVAILABLE")
  ELSE Found("FOUND", Body(answers))

\* lookupStudent
LookupStudent(answers) ==
  LET found == Lookup(answers)
  IN IF found.status = "FOUND" /\ ~found.record.active THEN [found EXCEPT !.status = "INACTIVE"] ELSE found

\* lookupCourse
LookupCourse(answers) ==
  LET found == Lookup(answers)
  IN IF found.status = "FOUND" /\ ~found.record.active THEN Failed("NOT_FOUND") ELSE found

\* verifyStaffNumber: a kept record, while it lasts, is not asked for again.
Kept(entry, at) == entry.record # NoRecord /\ at < entry.expiresAt
VerifyStaffNumber(entry, at, answers) ==
  LET found == IF Kept(entry, at) THEN Found("FOUND", entry.record) ELSE Lookup(answers)
  IN IF found.status # "FOUND" THEN found
     ELSE [found EXCEPT !.status = IF found.record.active THEN "VERIFIED" ELSE "INACTIVE"]
KeptAfter(entry, at, ttl, answers) ==
  IF ttl > 0 /\ ~Kept(entry, at) /\ Lookup(answers).status = "FOUND"
  THEN [record |-> Lookup(answers).record, expiresAt |-> at + 1000 * ttl] ELSE entry

\* listCourseEnrollments: a body that cannot be read is a list of nobody.
ListCourseEnrollments(answers) ==
  IF Request(answers) # "ANSWERED" THEN [status |-> Request(answers), students |-> {}]
  ELSE [status |-> "FOUND", students |-> IF Body(answers) = NoRecord THEN {} ELSE Body(answers).listed]

\* createUnit: refused unless the course was read; the lecturer confirmed only if it is theirs.
UnitFor(answers, staffNumber) ==
  LET course == LookupCourse(answers)
  IN CASE course.status = "NOT_FOUND" -> "404"
       [] course.status = "UNAVAILABLE" -> "503"
       [] course.status = "FOUND" /\ staffNumber # NoStaff /\ course.record.staff = staffNumber -> "VERIFIED"
       [] OTHER -> "PENDING_VERIFICATION"

\* syncRosterFromErp: those listed come on, those a sync listed and this does not go off.
SyncedRoster(answers, roster, byHand) ==
  LET listed == ListCourseEnrollments(answers)
  IN IF listed.status # "FOUND" THEN roster ELSE listed.students \cup (roster \cap byHand)
=============================================================================
