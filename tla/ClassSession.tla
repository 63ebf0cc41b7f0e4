---------------------------- MODULE ClassSession ----------------------------
(***************************************************************************)
(* One class meeting: the attendance_sessions row a lecturer opens, the    *)
(* roster of its unit, and the attendance_records students leave in it.    *)
(* src/modules/session and src/modules/attendance.                         *)
(*                                                                         *)
(* Every HTTP request runs on the event loop and gives it up at each       *)
(* await, so a request is a frame that takes one step per database         *)
(* statement.  What a frame read in one step may be stale in its next.     *)
(* Requests on other sessions touch other rows, so one session is enough.  *)
(* A refused request changes nothing but the audit log and is a stutter.   *)
(***************************************************************************)
EXTENDS Naturals, Sequences, FiniteSets

CONSTANTS
  Students,    \* student accounts
  Scans,       \* slots for check-in requests running at the same time
  Edits,       \* slots for the lecturer's requests running at the same time
  Places,      \* where a phone can be
  NoPlace,     \* no usable location reading, or no centre stored
  RoomPoint,   \* the surveyed point of the meeting's room, or NoPlace
  Meetings,    \* the unit's meetings today, [start, end]; {} if it has no schedule
  Methods,     \* the check-in methods in use
  MaxTime      \* the clock stops here: the bound of the model

ASSUME PlaceAssumption == NoPlace \notin Places /\ RoomPoint \in Places \cup {NoPlace}

ASSUME MethodAssumption == Methods \subseteq {"QR", "CARD", "FINGERPRINT", "FACE"}

ASSUME TimeAssumption ==
  /\ MaxTime \in Nat
  /\ Meetings \subseteq [start : 0..MaxTime, end : 0..MaxTime]

VARIABLES
  now,         \* the server's clock
  session,     \* the attendance_sessions row
  allocation,  \* unit_allocations.status of each student, "NONE" without a row
  records,     \* attendance_records of the session, in insertion order
  scan,        \* check-in requests in flight
  edit         \* the lecturer's requests in flight

vars == <<now, session, allocation, records, scan, edit>>

Fences == [mode : {"OFF", "AWAITING_LOCATION", "ROOM", "LECTURER_DEVICE"},
           centre : Places \cup {NoPlace}]
NoFence == [mode |-> "OFF", centre |-> NoPlace]

\* A lecturer's device reading: a place, no reading, or one too imprecise to use.
Readings == Places \cup {NoPlace, "vague"}

Unopened == [status |-> "NONE", opensAt |-> 0, closesAt |-> 0,
             fence |-> NoFence, methods |-> {}]

\* A row of attendance_records.  Its last three fields are the evidence its check
\* went by: where the phone was, the centre in force, and the time.
Rows == [student : Students, method : Methods, result : {"INSIDE", "NOT_CHECKED"},
         at : Places \cup {NoPlace}, centre : Places \cup {NoPlace}, checked : 0..MaxTime]

IdleScan == [phase |-> "idle"]
IdleEdit == [op |-> "idle"]

Init ==
  /\ now = 0
  /\ session = Unopened
  /\ allocation \in [Students -> {"NONE", "PENDING", "ACTIVE"}]
  /\ records = << >>
  /\ scan = [c \in Scans |-> IdleScan]
  /\ edit = [e \in Edits |-> IdleEdit]

-----------------------------------------------------------------------------
(* Opening the class.                                                      *)

\* resolveWindow: the end of the meeting opensAt falls in, or the client's closesAt.
ClosingTimes(opensAt) ==
  IF Meetings = {}
  THEN 0..MaxTime
  ELSE {m.end : m \in {k \in Meetings : k.start <= opensAt /\ opensAt <= k.end}}

\* chooseCentre: the surveyed room always wins, then a precise device reading.
Usable(reading) == RoomPoint # NoPlace \/ reading \in Places

ChooseCentre(reading) ==
  IF RoomPoint # NoPlace
  THEN [mode |-> "ROOM", centre |-> RoomPoint]
  ELSE [mode |-> "LECTURER_DEVICE", centre |-> reading]

\* resolveInitialGeofence: OFF keeps a centre when there is one; ON without any
\* reading waits for the lecturer's phone; ON with a vague reading is refused.
InitialFence(mode, reading) ==
  IF Usable(reading)
  THEN IF mode = "ON" THEN ChooseCentre(reading)
                      ELSE [ChooseCentre(reading) EXCEPT !.mode = "OFF"]
  ELSE IF mode = "ON" THEN [NoFence EXCEPT !.mode = "AWAITING_LOCATION"] ELSE NoFence

CreateSession(mode, reading, methods, opensAt, closesAt) ==
  /\ session.status = "NONE"
  /\ methods # {}
  /\ closesAt \in ClosingTimes(opensAt)
  /\ closesAt > opensAt                        \* attendance_sessions_window
  /\ mode = "ON" => Usable(reading) \/ reading = NoPlace
  /\ session' = [status |-> "OPEN", opensAt |-> opensAt, closesAt |-> closesAt,
                 fence |-> InitialFence(mode, reading), methods |-> methods]
  /\ UNCHANGED <<now, allocation, records, scan, edit>>

-----------------------------------------------------------------------------
(* The lecturer's changes: the row is read, judged, and written later.     *)

\* Mutant: only the write looks at the status, and it does not look at CLOSED.
ReadForStatusUnchecked(e, status) ==
  /\ edit[e].op = "idle"
  /\ session.status # "NONE"
  /\ edit' = [edit EXCEPT ![e] = [op |-> "status", status |-> status]]
  /\ UNCHANGED <<now, session, allocation, records, scan>>

\* setSessionStatus up to its UPDATE.
ReadForStatus(e, status) ==
  /\ edit[e].op = "idle"
  /\ session.status # "NONE"
  /\ session.status = "CLOSED" => status = "CLOSED"
  /\ edit' = [edit EXCEPT ![e] = [op |-> "status", status |-> status]]
  /\ UNCHANGED <<now, session, allocation, records, scan>>

\* updateSessionStatus: guarded by "status <> $3" only.
WriteStatus(e) ==
  /\ edit[e].op = "status"
  /\ session' = [session EXCEPT !.status = edit[e].status]
  /\ edit' = [edit EXCEPT ![e] = IdleEdit]
  /\ UNCHANGED <<now, allocation, records, scan>>

\* The fence setSessionGeofence computes from the one it read; the choices for
\* which it refuses the request are not Possible.
Possible(previous, mode, reading) ==
  mode = "ON" => \/ Usable(reading)
                 \/ reading = NoPlace /\ previous.centre # NoPlace

\* Mutant: switching the fence off clears its columns.
NextFenceCleared(previous, mode, reading) ==
  IF mode = "OFF" THEN NoFence
  ELSE IF Usable(reading) THEN ChooseCentre(reading)
  ELSE [previous EXCEPT !.mode = "LECTURER_DEVICE"]

NextFence(previous, mode, reading) ==
  IF mode = "OFF" THEN [previous EXCEPT !.mode = "OFF"]
  ELSE IF Usable(reading) THEN ChooseCentre(reading)
  ELSE [previous EXCEPT !.mode = "LECTURER_DEVICE"]

\* setSessionGeofence up to its UPDATE; an unchanged fence is not written.
ReadForFence(e, mode, reading) ==
  /\ edit[e].op = "idle"
  /\ session.status \notin {"NONE", "CLOSED"}
  /\ Possible(session.fence, mode, reading)
  /\ NextFence(session.fence, mode, reading) # session.fence
  /\ edit' = [edit EXCEPT ![e] = [op |-> "fence",
                fence |-> NextFence(session.fence, mode, reading)]]
  /\ UNCHANGED <<now, session, allocation, records, scan>>

\* updateSessionGeofence: overwrites all the fence columns, whatever they hold by now.
WriteFence(e) ==
  /\ edit[e].op = "fence"
  /\ session' = [session EXCEPT !.fence = edit[e].fence]
  /\ edit' = [edit EXCEPT ![e] = IdleEdit]
  /\ UNCHANGED <<now, allocation, records, scan>>

-----------------------------------------------------------------------------
(* Check-in.                                                               *)

\* Mutant: the window is left to whoever closes the class.
AcceptingWhileOpen == session.status = "OPEN"

\* assertSessionAcceptingScans
AcceptingScans ==
  /\ session.status = "OPEN"
  /\ session.opensAt <= now /\ now <= session.closesAt

\* checkGeofence: an OFF fence accepts anything; otherwise the phone must be
\* at the centre, and a class still waiting for its centre accepts nobody.
FenceAccepts(fence, at) ==
  \/ fence.mode = "OFF"
  \/ fence.mode \in {"ROOM", "LECTURER_DEVICE"} /\ at \in Places /\ at = fence.centre

\* The geofence_result stored: terminal and face check-ins are never fenced.
ScanResult(fence, method) ==
  IF method = "QR" /\ fence.mode # "OFF" THEN "INSIDE" ELSE "NOT_CHECKED"

NewRow(s, method, at) ==
  LET inside == ScanResult(session.fence, method) = "INSIDE" IN
  [student |-> s, method |-> method, result |-> ScanResult(session.fence, method),
   at     |-> IF inside THEN at ELSE NoPlace,
   centre |-> IF session.fence.mode = "OFF" THEN NoPlace ELSE session.fence.centre,
   checked |-> now]

\* verifyScan, verifyTerminalCheckIn and getLiveOwnedSession up to the roster
\* lookup: everything decided from the one read of the session row.
VerifySession(c, s, method, at) ==
  /\ scan[c].phase = "idle"
  /\ AcceptingScans
  /\ method \in session.methods
  /\ method = "QR" => FenceAccepts(session.fence, at)
  /\ scan' = [scan EXCEPT ![c] =
       [phase |-> "roster", row |-> NewRow(s, method, at)]]
  /\ UNCHANGED <<now, session, allocation, records, edit>>

\* studentAllocatedToUnit
OnRoster(s) == allocation[s] = "ACTIVE"

\* hasAlreadyCheckedIn, and the UNIQUE (session_id, student_user_id) index.
Recorded(s) == \E i \in DOMAIN records : records[i].student = s

\* The roster lookup.  A face check-in also needs consent and a template
\* (isFaceCheckInEligible), which this module leaves out: here either answer.
\* It has no advisory check of its own.
CheckRoster(c, consents) ==
  /\ scan[c].phase = "roster"
  /\ scan' = [scan EXCEPT ![c] =
       IF ~OnRoster(scan[c].row.student) \/ (scan[c].row.method = "FACE" /\ ~consents)
       THEN IdleScan
       ELSE [scan[c] EXCEPT !.phase = IF scan[c].row.method = "FACE" THEN "insert"
                                                                     ELSE "advisory"]]
  /\ UNCHANGED <<now, session, allocation, records, edit>>

\* The advisory hasAlreadyCheckedIn check.
CheckAlreadyRecorded(c) ==
  /\ scan[c].phase = "advisory"
  /\ scan' = [scan EXCEPT ![c] =
       IF Recorded(scan[c].row.student) THEN IdleScan ELSE [scan[c] EXCEPT !.phase = "insert"]]
  /\ UNCHANGED <<now, session, allocation, records, edit>>

\* Mutant: no unique index, only the advisory check.
InsertRecordUnindexed(c) ==
  /\ scan[c].phase = "insert"
  /\ records' = Append(records, scan[c].row)
  /\ scan' = [scan EXCEPT ![c] = IdleScan]
  /\ UNCHANGED <<now, session, allocation, edit>>

\* insertRecord: neither the session nor the roster is looked at again; the
\* unique index turns a second row for the student into a 409.
InsertRecord(c) ==
  /\ scan[c].phase = "insert"
  /\ records' = IF Recorded(scan[c].row.student) THEN records
                ELSE Append(records, scan[c].row)
  /\ scan' = [scan EXCEPT ![c] = IdleScan]
  /\ UNCHANGED <<now, session, allocation, edit>>

-----------------------------------------------------------------------------
(* The surroundings.                                                       *)

\* syncRosterAllocations: the listed students ACTIVE, an ACTIVE one no longer
\* listed DROPPED; no row is ever deleted.
SyncRoster(listed) ==
  /\ allocation' = [s \in Students |->
       IF s \in listed THEN "ACTIVE"
       ELSE IF allocation[s] = "ACTIVE" THEN "DROPPED" ELSE allocation[s]]
  /\ UNCHANGED <<now, session, records, scan, edit>>

\* The server process dies: requests in flight are lost, the rows are not.
Restart ==
  /\ scan' = [c \in Scans |-> IdleScan]
  /\ edit' = [e \in Edits |-> IdleEdit]
  /\ UNCHANGED <<now, session, allocation, records>>

Tick ==
  /\ now < MaxTime
  /\ now' = now + 1
  /\ UNCHANGED <<session, allocation, records, scan, edit>>

LecturerStep ==
  \/ \E mode \in {"ON", "OFF"}, reading \in Readings, methods \in SUBSET Methods,
        opensAt, closesAt \in 0..MaxTime :
        CreateSession(mode, reading, methods, opensAt, closesAt)
  \/ \E e \in Edits :
       \/ \E status \in {"OPEN", "PAUSED", "CLOSED"} : ReadForStatus(e, status)
       \/ WriteStatus(e)
       \/ \E mode \in {"ON", "OFF"}, reading \in Readings : ReadForFence(e, mode, reading)
       \/ WriteFence(e)

CheckInStep ==
  \E c \in Scans :
    \/ \E s \in Students, method \in Methods, at \in Places \cup {NoPlace} :
         VerifySession(c, s, method, at)
    \/ \E consents \in BOOLEAN : CheckRoster(c, consents)
    \/ CheckAlreadyRecorded(c)
    \/ InsertRecord(c)

Next ==
  \/ LecturerStep
  \/ CheckInStep
  \/ \E listed \in SUBSET Students : SyncRoster(listed)
  \/ Restart
  \/ Tick

Spec == Init /\ [][Next]_vars

-----------------------------------------------------------------------------
(* Properties.                                                             *)

ScanFrames == [phase : {"idle"}] \cup [phase : {"roster", "advisory", "insert"}, row : Rows]
EditFrames == [op : {"idle"}]
              \cup [op : {"status"}, status : {"OPEN", "PAUSED", "CLOSED"}]
              \cup [op : {"fence"}, fence : Fences]

\* The rows, the clock and the frames keep the shapes the schema gives them.
TypeOK ==
  /\ now \in 0..MaxTime
  /\ session \in [status : {"NONE", "OPEN", "PAUSED", "CLOSED"},
                  opensAt : 0..MaxTime, closesAt : 0..MaxTime,
                  fence : Fences, methods : SUBSET Methods]
  /\ allocation \in [Students -> {"NONE", "PENDING", "ACTIVE", "DROPPED"}]
  /\ records \in Seq(Rows)
  /\ scan \in [Scans -> ScanFrames]
  /\ edit \in [Edits -> EditFrames]

\* However many requests by however many methods race for the same student
\* (a QR scan and a card swipe, a terminal's retry), one row comes of them.
OncePerStudent ==
  \A i, j \in DOMAIN records : records[i].student = records[j].student => i = j

\* The evidence of a check holds against the session it was made for: inside the
\* window, by a ticked method, and for a QR scan from the fence's centre unless
\* the fence was off.
Earned(r) ==
  /\ session.opensAt <= r.checked /\ r.checked <= session.closesAt
  /\ r.method \in session.methods
  /\ r.method = "QR" => \/ r.result = "INSIDE" /\ r.at \in Places /\ r.at = r.centre
                        \/ r.result = "NOT_CHECKED" /\ r.centre = NoPlace

EverOnRoster(s) == allocation[s] \in {"ACTIVE", "DROPPED"}

\* A row is only ever written for a check that was right when it was made, even if
\* nobody closed the class, and for a student the roster listed; although session,
\* fence and roster may all have changed before the insert, which looks at none.
RecordsEarned ==
  \A i \in DOMAIN records : Earned(records[i]) /\ EverOnRoster(records[i].student)

\* attendance_sessions_geofence_centre never fires, and checkGeofence never meets
\* a fence without a centre, whatever stale fence a late write puts back.
FencedHasCentre ==
  session.fence.mode \in {"ROOM", "LECTURER_DEVICE"} => session.fence.centre \in Places

\* A surveyed room always wins: no sequence of fence requests, from any number
\* of devices, drags the fence off it or leaves the class waiting for a phone.
SurveyedRoomWins ==
  RoomPoint # NoPlace /\ session.status # "NONE" =>
    session.fence.mode \in {"ROOM", "OFF"} /\ session.fence.centre = RoomPoint

\* A closed class stays closed: setSessionStatus refuses to reopen it, because
\* that would revive codes students already saw.
ClosedIsFinal == [][session.status = "CLOSED" => session'.status = "CLOSED"]_vars

\* The class is closed and no request that read it before is still to reopen it.
ClosedForGood ==
  /\ session.status = "CLOSED"
  /\ \A e \in Edits : edit[e].op = "status" => edit[e].status = "CLOSED"

\* Only a request that overlapped the close can reopen a class: once the last of
\* them has written and the class is closed, it stays closed.
ClosedOnceSettled == [][ClosedForGood => ClosedForGood']_vars

\* A captured centre that no fence request still in flight would erase.
CentreSettled ==
  /\ session.fence.centre # NoPlace
  /\ \A e \in Edits : edit[e].op = "fence" => edit[e].fence.centre # NoPlace

\* A centre once captured is kept when the fence is switched off, so that it can be
\* switched back on without a fresh reading.  Only a request that read the row
\* before the centre was captured can lose it: a slow OFF against a phone's reading.
CentreLostOnlyByOverlap == [][CentreSettled => CentreSettled']_vars

=============================================================================
