------------------------- MODULE ClassSessionProofs -------------------------
(***************************************************************************)
(* Theorems of ClassSession, for any number of students, of requests in    *)
(* flight and of places, and any clock.                                    *)
(***************************************************************************)
EXTENDS ClassSessionRegister, TLAPS

USE PlaceAssumption, TimeAssumption

\* Every fence the handlers compute is a fence.
LEMMA FenceTypes ==
  ASSUME NEW mode \in {"ON", "OFF"}, NEW reading \in Readings, NEW previous \in Fences
  PROVE  /\ InitialFence(mode, reading) \in Fences
         /\ Possible(previous, mode, reading) => NextFence(previous, mode, reading) \in Fences
BY DEF InitialFence, NextFence, Possible, Usable, ChooseCentre, Fences, NoFence, Readings

\* The shapes of the rows and the frames are kept by every step.
THEOREM TypeCorrect == Spec => []TypeOK
<1>1. Init => TypeOK
  BY DEF Init, TypeOK, Unopened, NoFence, Fences, IdleScan, IdleEdit, ScanFrames, EditFrames
<1>2. TypeOK /\ [Next]_vars => TypeOK'
  <2> SUFFICES ASSUME TypeOK, [Next]_vars PROVE TypeOK'
    OBVIOUS
  <2> USE DEF TypeOK
  <2>1. ASSUME NEW mode \in {"ON", "OFF"}, NEW reading \in Readings,
               NEW methods \in SUBSET Methods, NEW o \in 0..MaxTime, NEW f \in 0..MaxTime,
               CreateSession(mode, reading, methods, o, f)
        PROVE  TypeOK'
    <3>1. InitialFence(mode, reading) \in Fences
      BY FenceTypes DEF NoFence, Fences
    <3>2. QED
      BY <2>1, <3>1 DEF CreateSession
  <2>2. ASSUME NEW e \in Edits, NEW status \in {"OPEN", "PAUSED", "CLOSED"},
               ReadForStatus(e, status)
        PROVE  TypeOK'
    BY <2>2 DEF ReadForStatus, EditFrames
  <2>3. ASSUME NEW e \in Edits, WriteStatus(e) PROVE TypeOK'
    BY <2>3 DEF WriteStatus, EditFrames, IdleEdit
  <2>4. ASSUME NEW e \in Edits, NEW mode \in {"ON", "OFF"}, NEW reading \in Readings,
               ReadForFence(e, mode, reading)
        PROVE  TypeOK'
    <3>1. NextFence(session.fence, mode, reading) \in Fences
      BY <2>4, FenceTypes DEF ReadForFence
    <3>2. QED
      BY <2>4, <3>1 DEF ReadForFence, EditFrames
  <2>5. ASSUME NEW e \in Edits, WriteFence(e) PROVE TypeOK'
    BY <2>5 DEF WriteFence, EditFrames, IdleEdit
  <2>6. ASSUME NEW c \in Scans, NEW s \in Students, NEW method \in Methods,
               NEW at \in Places \cup {NoPlace}, VerifySession(c, s, method, at)
        PROVE  TypeOK'
    <3>1. NewRow(s, method, at) \in Rows
      BY DEF NewRow, ScanResult, Rows, Fences
    <3>2. QED
      BY <2>6, <3>1 DEF VerifySession, ScanFrames
  <2>7. ASSUME NEW c \in Scans, NEW consents \in BOOLEAN, CheckRoster(c, consents)
        PROVE  TypeOK'
    BY <2>7 DEF CheckRoster, ScanFrames, IdleScan
  <2>8. ASSUME NEW c \in Scans, CheckAlreadyRecorded(c) PROVE TypeOK'
    BY <2>8 DEF CheckAlreadyRecorded, ScanFrames, IdleScan
  <2>9. ASSUME NEW c \in Scans, InsertRecord(c) PROVE TypeOK'
    BY <2>9 DEF InsertRecord, ScanFrames, IdleScan
  <2>10. ASSUME NEW listed \in SUBSET Students, SyncRoster(listed) PROVE TypeOK'
    BY <2>10 DEF SyncRoster
  <2>11. CASE Restart
    BY <2>11 DEF Restart, ScanFrames, EditFrames, IdleScan, IdleEdit
  <2>12. CASE Tick
    BY <2>12 DEF Tick
  <2>13. CASE UNCHANGED vars
    BY <2>13 DEF vars
  <2>14. QED
    BY <2>1, <2>2, <2>3, <2>4, <2>5, <2>6, <2>7, <2>8, <2>9, <2>10, <2>11, <2>12, <2>13
       DEF Next, LecturerStep, CheckInStep
<1>3. QED
  BY <1>1, <1>2, PTL DEF Spec

-----------------------------------------------------------------------------
(* What a frame in flight carries, for the step that will write it.        *)

\* Before the class is opened nothing runs on it.
NothingBeforeOpening ==
  session.status = "NONE" =>
    /\ records = << >>
    /\ \A c \in Scans : scan[c].phase = "idle"
    /\ \A e \in Edits : edit[e].op = "idle"

\* A check-in in flight carries the evidence its row will be judged by.
FramesEarned ==
  \A c \in Scans : scan[c].phase # "idle" =>
    /\ Earned(scan[c].row)
    /\ scan[c].phase \in {"advisory", "insert"} => EverOnRoster(scan[c].row.student)

CheckInInv == NothingBeforeOpening /\ FramesEarned /\ RecordsEarned /\ OncePerStudent

\* The invariant is inductive: a step that judges a check makes the evidence, the
\* steps between carry it, and nothing a lecturer or a roster sync does undoes it,
\* since the window and the methods are fixed at opening and no row is deleted.
LEMMA CheckInInductive ==
  ASSUME TypeOK, CheckInInv, [Next]_vars
  PROVE  CheckInInv'
<1> USE DEF CheckInInv
<1>1. ASSUME NEW mode \in {"ON", "OFF"}, NEW reading \in Readings,
             NEW methods \in SUBSET Methods, NEW o \in 0..MaxTime, NEW f \in 0..MaxTime,
             CreateSession(mode, reading, methods, o, f)
      PROVE  CheckInInv'
  BY <1>1 DEF CreateSession, NothingBeforeOpening, FramesEarned, RecordsEarned, OncePerStudent
<1>2. ASSUME NEW e \in Edits,
             \/ \E status \in {"OPEN", "PAUSED", "CLOSED"} : ReadForStatus(e, status)
             \/ \E mode \in {"ON", "OFF"}, reading \in Readings : ReadForFence(e, mode, reading)
      PROVE  CheckInInv'
  BY <1>2 DEF ReadForStatus, ReadForFence, NothingBeforeOpening, FramesEarned,
              RecordsEarned, OncePerStudent, Earned, EverOnRoster, TypeOK
<1>3. ASSUME NEW e \in Edits, WriteStatus(e) \/ WriteFence(e) PROVE CheckInInv'
  <2>1. session.status # "NONE" /\ session'.status # "NONE"
    BY <1>3 DEF WriteStatus, WriteFence, NothingBeforeOpening, TypeOK, EditFrames
  <2>2. /\ session'.opensAt = session.opensAt /\ session'.closesAt = session.closesAt
        /\ session'.methods = session.methods
        /\ UNCHANGED <<allocation, records, scan>>
    BY <1>3 DEF WriteStatus, WriteFence, TypeOK
  <2>3. QED
    BY <2>1, <2>2 DEF NothingBeforeOpening, FramesEarned, RecordsEarned, OncePerStudent,
                      Earned, EverOnRoster
<1>4. ASSUME NEW c \in Scans, NEW s \in Students, NEW method \in Methods,
             NEW at \in Places \cup {NoPlace}, VerifySession(c, s, method, at)
      PROVE  CheckInInv'
  <2>1. Earned(NewRow(s, method, at))
    BY <1>4 DEF VerifySession, AcceptingScans, FenceAccepts, NewRow, ScanResult, Earned,
                TypeOK, Fences
  <2>2. QED
    BY <1>4, <2>1 DEF VerifySession, AcceptingScans, NothingBeforeOpening, FramesEarned,
                      RecordsEarned, OncePerStudent, Earned, EverOnRoster, TypeOK
<1>5. ASSUME NEW c \in Scans, NEW consents \in BOOLEAN, CheckRoster(c, consents)
      PROVE  CheckInInv'
  BY <1>5 DEF CheckRoster, OnRoster, IdleScan, ScanFrames, NothingBeforeOpening, FramesEarned,
              RecordsEarned, OncePerStudent, Earned, EverOnRoster, TypeOK
<1>6. ASSUME NEW c \in Scans, CheckAlreadyRecorded(c) PROVE CheckInInv'
  BY <1>6 DEF CheckAlreadyRecorded, IdleScan, ScanFrames, NothingBeforeOpening, FramesEarned,
              RecordsEarned, OncePerStudent, Earned, EverOnRoster, TypeOK
<1>7. ASSUME NEW c \in Scans, InsertRecord(c) PROVE CheckInInv'
  <2>1. session.status # "NONE" /\ Earned(scan[c].row) /\ EverOnRoster(scan[c].row.student)
        /\ scan[c].row \in Rows
    BY <1>7 DEF InsertRecord, NothingBeforeOpening, FramesEarned, TypeOK, ScanFrames
  <2>2. NothingBeforeOpening' /\ FramesEarned'
    BY <1>7, <2>1 DEF InsertRecord, IdleScan, NothingBeforeOpening, FramesEarned, Earned,
                      EverOnRoster, TypeOK
  <2>3. RecordsEarned' /\ OncePerStudent'
    BY <1>7, <2>1 DEF InsertRecord, Recorded, RecordsEarned, OncePerStudent, Earned,
                      EverOnRoster, TypeOK
  <2>4. QED
    BY <2>2, <2>3
<1>8. ASSUME NEW listed \in SUBSET Students, SyncRoster(listed) PROVE CheckInInv'
  <2>1. \A s \in Students : EverOnRoster(s) => EverOnRoster(s)'
    BY <1>8 DEF SyncRoster, EverOnRoster, TypeOK
  <2>2. \A r \in Rows : r.student \in Students
    BY DEF Rows
  <2>3. \A c \in Scans : scan[c].phase # "idle" => scan[c].row \in Rows
    BY DEF TypeOK, ScanFrames
  <2>4. \A i \in DOMAIN records : records[i] \in Rows
    BY DEF TypeOK
  <2>5. QED
    BY <1>8, <2>1, <2>2, <2>3, <2>4 DEF SyncRoster, NothingBeforeOpening, FramesEarned, RecordsEarned,
                            OncePerStudent, Earned
<1>9. CASE Restart
  BY <1>9 DEF Restart, IdleScan, IdleEdit, NothingBeforeOpening, FramesEarned, RecordsEarned,
              OncePerStudent, Earned, EverOnRoster
<1>10. CASE Tick \/ UNCHANGED vars
  BY <1>10 DEF Tick, vars, NothingBeforeOpening, FramesEarned, RecordsEarned, OncePerStudent,
               Earned, EverOnRoster
<1>11. QED
  BY <1>1, <1>2, <1>3, <1>4, <1>5, <1>6, <1>7, <1>8, <1>9, <1>10 DEF Next, LecturerStep, CheckInStep

LEMMA CheckInInvariant == Spec => []CheckInInv
<1>1. Init => CheckInInv
  BY DEF Init, CheckInInv, Unopened, IdleScan, IdleEdit, NothingBeforeOpening, FramesEarned,
         RecordsEarned, OncePerStudent
<1>2. TypeOK /\ CheckInInv /\ [Next]_vars => CheckInInv'
  BY CheckInInductive
<1>3. QED
  BY <1>1, <1>2, TypeCorrect, PTL DEF Spec

\* One row per student, whatever number of requests race for it.
THEOREM RecordedOnce == Spec => []OncePerStudent
<1>1. CheckInInv => OncePerStudent
  BY DEF CheckInInv
<1>2. QED
  BY <1>1, CheckInInvariant, PTL

\* Every row was earned by a check of the session, the fence and the roster,
\* however late the row is inserted and whatever has changed by then.
THEOREM RecordsAreEarned == Spec => []RecordsEarned
<1>1. CheckInInv => RecordsEarned
  BY DEF CheckInInv
<1>2. QED
  BY <1>1, CheckInInvariant, PTL

-----------------------------------------------------------------------------
(* The fence, with any number of the lecturer's requests in flight.        *)

\* A fence that may be stored: with a centre when it is enforced, and on the room
\* when the room is surveyed.
SoundFence(fence) ==
  /\ fence.mode \in {"ROOM", "LECTURER_DEVICE"} => fence.centre \in Places
  /\ RoomPoint # NoPlace => fence.mode \in {"ROOM", "OFF"} /\ fence.centre = RoomPoint

\* The row's fence is sound once the class is open, and so is every fence a request
\* computed from a row it read earlier and has yet to write.
FenceInv ==
  /\ session.status = "NONE" => session.fence = NoFence
  /\ session.status # "NONE" => SoundFence(session.fence)
  /\ \A e \in Edits : edit[e].op # "idle" => session.status # "NONE"
  /\ \A e \in Edits : edit[e].op = "fence" => SoundFence(edit[e].fence)

\* The choices of resolveInitialGeofence and setSessionGeofence are sound.
LEMMA SoundChoices ==
  ASSUME NEW mode \in {"ON", "OFF"}, NEW reading \in Readings, NEW previous \in Fences,
         SoundFence(previous)
  PROVE  /\ SoundFence(InitialFence(mode, reading))
         /\ Possible(previous, mode, reading) => SoundFence(NextFence(previous, mode, reading))
<1>1. SoundFence(InitialFence(mode, reading))
  <2>1. CASE RoomPoint # NoPlace
    BY <2>1 DEF SoundFence, InitialFence, Usable, ChooseCentre
  <2>2. CASE RoomPoint = NoPlace
    BY <2>2 DEF SoundFence, InitialFence, Usable, ChooseCentre, NoFence, Readings
  <2>3. QED
    BY <2>1, <2>2
<1>2. ASSUME Possible(previous, mode, reading)
      PROVE  SoundFence(NextFence(previous, mode, reading))
  BY <1>2 DEF SoundFence, NextFence, Possible, Usable, ChooseCentre, Readings, Fences
<1>3. QED
  BY <1>1, <1>2

LEMMA FenceInductive ==
  ASSUME TypeOK, FenceInv, [Next]_vars
  PROVE  FenceInv'
<1> USE DEF FenceInv
<1>1. ASSUME NEW mode \in {"ON", "OFF"}, NEW reading \in Readings,
             NEW methods \in SUBSET Methods, NEW o \in 0..MaxTime, NEW f \in 0..MaxTime,
             CreateSession(mode, reading, methods, o, f)
      PROVE  FenceInv'
  <2>1. SoundFence([mode |-> "OFF", centre |-> RoomPoint])
    BY DEF SoundFence
  <2>2. [mode |-> "OFF", centre |-> RoomPoint] \in Fences
    BY DEF Fences
  <2>3. SoundFence(InitialFence(mode, reading))
    BY <2>1, <2>2, SoundChoices
  <2>4. QED
    BY <1>1, <2>3 DEF CreateSession
<1>2. ASSUME NEW e \in Edits, NEW mode \in {"ON", "OFF"}, NEW reading \in Readings,
             ReadForFence(e, mode, reading)
      PROVE  FenceInv'
  <2>1. SoundFence(NextFence(session.fence, mode, reading))
    BY <1>2, SoundChoices DEF ReadForFence, TypeOK
  <2>2. QED
    BY <1>2, <2>1 DEF ReadForFence, TypeOK
<1>3. ASSUME NEW e \in Edits, NEW status \in {"OPEN", "PAUSED", "CLOSED"},
             ReadForStatus(e, status)
      PROVE  FenceInv'
  BY <1>3 DEF ReadForStatus, TypeOK
<1>4. ASSUME NEW e \in Edits, WriteStatus(e) PROVE FenceInv'
  <2>1. session'.status # "NONE" /\ session'.fence = session.fence
    BY <1>4 DEF WriteStatus, TypeOK, EditFrames
  <2>2. QED
    BY <1>4, <2>1 DEF WriteStatus, TypeOK, IdleEdit
<1>5. ASSUME NEW e \in Edits, WriteFence(e) PROVE FenceInv'
  BY <1>5 DEF WriteFence, TypeOK, IdleEdit
<1>6. CASE CheckInStep \/ (\E listed \in SUBSET Students : SyncRoster(listed)) \/ Tick
           \/ UNCHANGED vars
  BY <1>6 DEF CheckInStep, VerifySession, CheckRoster, CheckAlreadyRecorded, InsertRecord,
              SyncRoster, Tick, vars
<1>7. CASE Restart
  BY <1>7 DEF Restart, IdleEdit
<1>8. QED
  BY <1>1, <1>2, <1>3, <1>4, <1>5, <1>6, <1>7 DEF Next, LecturerStep

LEMMA FenceInvariant == Spec => []FenceInv
<1>1. Init => FenceInv
  BY DEF Init, FenceInv, Unopened, IdleEdit
<1>2. TypeOK /\ FenceInv /\ [Next]_vars => FenceInv'
  BY FenceInductive
<1>3. QED
  BY <1>1, <1>2, TypeCorrect, PTL DEF Spec

\* The database's centre constraint never fires, however stale the written fence.
THEOREM FencesAreCentred == Spec => []FencedHasCentre
<1>1. FenceInv => FencedHasCentre
  BY DEF FenceInv, FencedHasCentre, SoundFence, NoFence
<1>2. QED
  BY <1>1, FenceInvariant, PTL

\* No interleaving of fence requests moves the fence off a surveyed room.
THEOREM SurveyedRoomAlwaysWins == Spec => []SurveyedRoomWins
<1>1. FenceInv => SurveyedRoomWins
  BY DEF FenceInv, SurveyedRoomWins, SoundFence
<1>2. QED
  BY <1>1, FenceInvariant, PTL

-----------------------------------------------------------------------------
(* What survives the lecturer's requests, however many overlap.            *)

\* A step of the check-ins or of the surroundings is no step of the lecturer's: at
\* most it gives the requests in flight up.
LEMMA OthersEdit ==
  ASSUME CheckInStep \/ (\E listed \in SUBSET Students : SyncRoster(listed)) \/ Restart \/ Tick
  PROVE  session' = session /\ (edit' = edit \/ \A e \in Edits : edit'[e].op = "idle")
BY DEF CheckInStep, VerifySession, CheckRoster, CheckAlreadyRecorded, InsertRecord,
       SyncRoster, Restart, Tick, IdleEdit

\* Only a request that overlapped the close can reopen a class: once the last of
\* them has written and it is closed, it stays closed.
THEOREM ClosedStaysClosed == Spec => ClosedOnceSettled
<1>1. ASSUME TypeOK, Next, ClosedForGood PROVE ClosedForGood'
  <2>1. CASE \E mode \in {"ON", "OFF"}, reading \in Readings, methods \in SUBSET Methods,
               o, f \in 0..MaxTime : CreateSession(mode, reading, methods, o, f)
    BY <1>1, <2>1 DEF CreateSession, ClosedForGood
  <2>2. ASSUME NEW e \in Edits, NEW status \in {"OPEN", "PAUSED", "CLOSED"}, ReadForStatus(e, status)
        PROVE  ClosedForGood'
    <3>1. session' = session /\ status = "CLOSED"
      BY <1>1, <2>2 DEF ReadForStatus, ClosedForGood
    <3>2. \A g \in Edits : edit'[g] = IF g = e THEN [op |-> "status", status |-> status] ELSE edit[g]
      BY <1>1, <2>2 DEF ReadForStatus, TypeOK
    <3>3. QED
      BY <1>1, <3>1, <3>2 DEF ClosedForGood
  <2>3. ASSUME NEW e \in Edits, WriteStatus(e) PROVE ClosedForGood'
    <3>1. session'.status = "CLOSED"
      BY <1>1, <2>3 DEF WriteStatus, ClosedForGood, TypeOK
    <3>2. \A g \in Edits : edit'[g] = IF g = e THEN IdleEdit ELSE edit[g]
      BY <1>1, <2>3 DEF WriteStatus, TypeOK
    <3>3. QED
      BY <1>1, <3>1, <3>2 DEF ClosedForGood, IdleEdit
  <2>4. ASSUME NEW e \in Edits, NEW mode \in {"ON", "OFF"}, NEW reading \in Readings,
               ReadForFence(e, mode, reading)
        PROVE  ClosedForGood'
    BY <1>1, <2>4 DEF ReadForFence, ClosedForGood
  <2>5. ASSUME NEW e \in Edits, WriteFence(e) PROVE ClosedForGood'
    <3>1. session'.status = "CLOSED"
      BY <1>1, <2>5 DEF WriteFence, ClosedForGood, TypeOK
    <3>2. \A g \in Edits : edit'[g] = IF g = e THEN IdleEdit ELSE edit[g]
      BY <1>1, <2>5 DEF WriteFence, TypeOK
    <3>3. QED
      BY <1>1, <3>1, <3>2 DEF ClosedForGood, IdleEdit
  <2>6. CASE CheckInStep \/ (\E listed \in SUBSET Students : SyncRoster(listed)) \/ Restart \/ Tick
    BY <1>1, <2>6, OthersEdit DEF ClosedForGood
  <2>7. QED
    BY <1>1, <2>1, <2>2, <2>3, <2>4, <2>5, <2>6 DEF Next, LecturerStep
<1>2. TypeOK /\ [Next]_vars => [ClosedForGood => ClosedForGood']_vars
  BY <1>1
<1>3. QED
  BY <1>2, TypeCorrect, PTL DEF Spec, ClosedOnceSettled

\* Likewise a captured centre is lost only to a request that read the row before it
\* was captured: the fence computed from a row with a centre has one.
THEOREM CentreStays == Spec => CentreLostOnlyByOverlap
<1>1. ASSUME TypeOK, FenceInv, Next, CentreSettled PROVE CentreSettled'
  <2>1. CASE \E mode \in {"ON", "OFF"}, reading \in Readings, methods \in SUBSET Methods,
               o, f \in 0..MaxTime : CreateSession(mode, reading, methods, o, f)
    BY <1>1, <2>1 DEF CreateSession, CentreSettled, FenceInv, NoFence
  <2>2. ASSUME NEW e \in Edits, NEW status \in {"OPEN", "PAUSED", "CLOSED"}, ReadForStatus(e, status)
        PROVE  CentreSettled'
    <3>1. \A g \in Edits : edit'[g] = IF g = e THEN [op |-> "status", status |-> status] ELSE edit[g]
      BY <1>1, <2>2 DEF ReadForStatus, TypeOK
    <3>2. QED
      BY <1>1, <2>2, <3>1 DEF ReadForStatus, CentreSettled
  <2>3. ASSUME NEW e \in Edits, WriteStatus(e) PROVE CentreSettled'
    <3>1. session'.fence = session.fence
      BY <1>1, <2>3 DEF WriteStatus, TypeOK
    <3>2. \A g \in Edits : edit'[g] = IF g = e THEN IdleEdit ELSE edit[g]
      BY <1>1, <2>3 DEF WriteStatus, TypeOK
    <3>3. QED
      BY <1>1, <3>1, <3>2 DEF CentreSettled, IdleEdit
  <2>4. ASSUME NEW e \in Edits, NEW mode \in {"ON", "OFF"}, NEW reading \in Readings,
               ReadForFence(e, mode, reading)
        PROVE  CentreSettled'
    <3> DEFINE next == NextFence(session.fence, mode, reading)
    <3>1. next.centre # NoPlace
      BY <1>1, <2>4 DEF ReadForFence, CentreSettled, Possible, NextFence, Usable, ChooseCentre, TypeOK, Fences
    <3> HIDE DEF next
    <3>2. edit' = [edit EXCEPT ![e] = [op |-> "fence", fence |-> next]]
      BY <2>4 DEF ReadForFence, next
    <3>3. \A g \in Edits : edit'[g] = IF g = e THEN [op |-> "fence", fence |-> next] ELSE edit[g]
      BY <1>1, <3>2 DEF TypeOK
    <3>4. QED
      BY <1>1, <2>4, <3>1, <3>3 DEF ReadForFence, CentreSettled
  <2>5. ASSUME NEW e \in Edits, WriteFence(e) PROVE CentreSettled'
    <3>1. session'.fence.centre # NoPlace
      BY <1>1, <2>5 DEF WriteFence, CentreSettled, TypeOK
    <3>2. \A g \in Edits : edit'[g] = IF g = e THEN IdleEdit ELSE edit[g]
      BY <1>1, <2>5 DEF WriteFence, TypeOK
    <3>3. QED
      BY <1>1, <3>1, <3>2 DEF CentreSettled, IdleEdit
  <2>6. CASE CheckInStep \/ (\E listed \in SUBSET Students : SyncRoster(listed)) \/ Restart \/ Tick
    BY <1>1, <2>6, OthersEdit DEF CentreSettled
  <2>7. QED
    BY <1>1, <2>1, <2>2, <2>3, <2>4, <2>5, <2>6 DEF Next, LecturerStep
<1>2. TypeOK /\ FenceInv /\ [Next]_vars => [CentreSettled => CentreSettled']_vars
  BY <1>1
<1>3. QED
  BY <1>2, TypeCorrect, FenceInvariant, PTL DEF Spec, CentreLostOnlyByOverlap

-----------------------------------------------------------------------------
(* The handlers implement the attendance register.                         *)

\* What the register sees of the handlers' state.
ClassNow == ClassOf(session.status)
TicketsNow == [c \in Scans |-> TicketOf(scan[c])]
MarksNow == [s \in Students |-> MarkOf(s)]
OrdersNow == [e \in Edits |-> OrderOf(edit[e])]
RegisterKept == UNCHANGED <<ClassNow, session.methods, TicketsNow, MarksNow, OrdersNow>>

\* The steps of the register, said of what it sees.
LEMMA RegisterSteps ==
  /\ RegisterKept => [Register!RegisterNext]_(Register!registerVars)
  /\ (\E methods \in SUBSET Methods :
        /\ ClassNow = "unopened" /\ ClassNow' = "running" /\ session'.methods = methods
        /\ UNCHANGED <<TicketsNow, MarksNow, OrdersNow>>) => [Register!RegisterNext]_(Register!registerVars)
  /\ \A e \in Edits, what \in {"running", "paused", "over"} :
       /\ ClassNow # "unopened" /\ OrdersNow[e] = "none" /\ (ClassNow = "over" => what = "over")
       /\ OrdersNow' = [OrdersNow EXCEPT ![e] = what]
       /\ UNCHANGED <<ClassNow, session.methods, TicketsNow, MarksNow>>
       => [Register!RegisterNext]_(Register!registerVars)
  /\ \A e \in Edits :
       /\ OrdersNow[e] # "none" /\ ClassNow' = OrdersNow[e]
       /\ OrdersNow' = [OrdersNow EXCEPT ![e] = "none"]
       /\ UNCHANGED <<session.methods, TicketsNow, MarksNow>>
       => [Register!RegisterNext]_(Register!registerVars)
  /\ (/\ TicketsNow' = [t \in Scans |-> [holder |-> "none"]]
      /\ OrdersNow' = [e \in Edits |-> "none"]
      /\ UNCHANGED <<ClassNow, session.methods, MarksNow>>)
       => [Register!RegisterNext]_(Register!registerVars)
  /\ \A c \in Scans :
       /\ TicketsNow[c] # [holder |-> "none"]
       /\ TicketsNow' = [TicketsNow EXCEPT ![c] = [holder |-> "none"]]
       /\ UNCHANGED <<ClassNow, session.methods, MarksNow, OrdersNow>>
       => [Register!RegisterNext]_(Register!registerVars)
  /\ \A c \in Scans, s \in Students, method \in Methods :
       /\ ClassNow = "running" /\ method \in session.methods /\ TicketsNow[c] = [holder |-> "none"]
       /\ TicketsNow' = [TicketsNow EXCEPT ![c] = [holder |-> s, by |-> method]]
       /\ UNCHANGED <<ClassNow, session.methods, MarksNow, OrdersNow>>
       => [Register!RegisterNext]_(Register!registerVars)
  /\ \A c \in Scans :
       /\ TicketsNow[c] # [holder |-> "none"] /\ MarksNow[TicketsNow[c].holder] = "absent"
       /\ MarksNow' = [MarksNow EXCEPT ![TicketsNow[c].holder] = TicketsNow[c].by]
       /\ TicketsNow' = [TicketsNow EXCEPT ![c] = [holder |-> "none"]]
       /\ UNCHANGED <<ClassNow, session.methods, OrdersNow>>
       => [Register!RegisterNext]_(Register!registerVars)
BY DEF RegisterKept, ClassNow, TicketsNow, MarksNow, OrdersNow, Register!RegisterNext, Register!registerVars,
       Register!Open, Register!Decide, Register!TakeEffect, Register!Outage, Register!TurnAway,
       Register!Admit, Register!Mark, Register!NoTicket

\* With one row a student at most, the row is the mark.
LEMMA MarkIs ==
  ASSUME OncePerStudent, NEW i \in DOMAIN records
  PROVE  MarkOf(records[i].student) = records[i].method
<1> DEFINE s == records[i].student
           first == CHOOSE j \in DOMAIN records : records[j].student = s
<1>1. first \in DOMAIN records /\ records[first].student = s
  OBVIOUS
<1>2. first = i
  BY <1>1 DEF OncePerStudent
<1>3. QED
  BY <1>2 DEF MarkOf, Recorded

\* The same of the rows after a step.
LEMMA MarkIsNext ==
  ASSUME OncePerStudent', NEW s \in Students, NEW i \in DOMAIN records', records'[i].student = s
  PROVE  MarkOf(s)' = records'[i].method
<1> DEFINE first == CHOOSE j \in DOMAIN records' : records'[j].student = s
<1>1. first \in DOMAIN records' /\ records'[first].student = s
  OBVIOUS
<1>2. first = i
  BY <1>1 DEF OncePerStudent
<1>3. QED
  BY <1>2 DEF MarkOf, Recorded

\* A frame in flight is an admission, an idle one is none.
LEMMA TicketIs ==
  ASSUME NEW c \in Scans, TypeOK
  PROVE  /\ scan[c].phase = "idle" => TicketsNow[c] = [holder |-> "none"]
         /\ scan[c].phase # "idle" =>
              /\ TicketsNow[c] = [holder |-> scan[c].row.student, by |-> scan[c].row.method]
              /\ TicketsNow[c] # [holder |-> "none"]
<1>1. scan[c].phase = "idle" => TicketsNow[c] = [holder |-> "none"]
  BY DEF TicketsNow, TicketOf
<1>2. scan[c].phase # "idle" => TicketsNow[c] = [holder |-> scan[c].row.student, by |-> scan[c].row.method]
  BY DEF TicketsNow, TicketOf
<1>3. ASSUME NEW s, NEW m PROVE [holder |-> s, by |-> m] # [holder |-> "none"]
  <2>1. DOMAIN [holder |-> s, by |-> m] = {"holder", "by"} /\ DOMAIN [holder |-> "none"] = {"holder"}
    OBVIOUS
  <2>2. QED
    BY <2>1
<1>4. QED
  BY <1>1, <1>2, <1>3

\* A frame that changes is one admission that changes; the others stay.
LEMMA FrameSteps ==
  ASSUME TypeOK, NEW c \in Scans, NEW frame, scan' = [scan EXCEPT ![c] = frame]
  PROVE  TicketsNow' = [TicketsNow EXCEPT ![c] = TicketOf(frame)]
<1>1. \A t \in Scans : scan'[t] = IF t = c THEN frame ELSE scan[t]
  BY DEF TypeOK
<1>2. \A t \in Scans : TicketOf(scan'[t]) = IF t = c THEN TicketOf(frame) ELSE TicketOf(scan[t])
  BY <1>1
<1>3. TicketsNow' = [t \in Scans |-> TicketOf(scan'[t])]
  BY DEF TicketsNow, TicketOf
<1>4. QED
  BY <1>2, <1>3 DEF TicketsNow

\* Likewise a request of the lecturer's.
LEMMA RequestSteps ==
  ASSUME TypeOK, NEW e \in Edits, NEW request, edit' = [edit EXCEPT ![e] = request]
  PROVE  OrdersNow' = [OrdersNow EXCEPT ![e] = OrderOf(request)]
<1>1. \A g \in Edits : edit'[g] = IF g = e THEN request ELSE edit[g]
  BY DEF TypeOK
<1>2. \A g \in Edits : OrderOf(edit'[g]) = IF g = e THEN OrderOf(request) ELSE OrderOf(edit[g])
  BY <1>1
<1>3. OrdersNow' = [g \in Edits |-> OrderOf(edit'[g])]
  BY DEF OrdersNow, OrderOf, ClassOf
<1>4. QED
  BY <1>2, <1>3 DEF OrdersNow

\* One admission that comes to nothing.
LEMMA TurnsAway ==
  ASSUME TypeOK, NEW c \in Scans, scan[c].phase # "idle", scan' = [scan EXCEPT ![c] = IdleScan],
         ClassNow' = ClassNow, session'.methods = session.methods, MarksNow' = MarksNow,
         OrdersNow' = OrdersNow
  PROVE  [Register!RegisterNext]_(Register!registerVars)
<1>1. TicketOf(IdleScan) = [holder |-> "none"]
  BY DEF TicketOf, IdleScan
<1>2. TicketsNow' = [TicketsNow EXCEPT ![c] = [holder |-> "none"]]
  BY <1>1, FrameSteps
<1>3. TicketsNow[c] # [holder |-> "none"]
  BY TicketIs
<1>4. QED
  BY <1>2, <1>3, RegisterSteps

\* The lecturer's requests open the class, decide on its status and write what they
\* decided; what becomes of the fence is no business of the register.
LEMMA LecturerImplements ==
  ASSUME TypeOK, FenceInv, LecturerStep
  PROVE  [Register!RegisterNext]_(Register!registerVars)
<1>1. TicketsNow' = TicketsNow /\ MarksNow' = MarksNow
  <2>1. scan' = scan /\ records' = records
    BY DEF LecturerStep, CreateSession, ReadForStatus, WriteStatus, ReadForFence, WriteFence
  <2>2. QED
    BY <2>1 DEF TicketsNow, TicketOf, MarksNow, MarkOf, Recorded
<1>2. ASSUME NEW mode \in {"ON", "OFF"}, NEW reading \in Readings,
             NEW methods \in SUBSET Methods, NEW o \in 0..MaxTime, NEW f \in 0..MaxTime,
             CreateSession(mode, reading, methods, o, f)
      PROVE  [Register!RegisterNext]_(Register!registerVars)
  <2>1. ClassNow = "unopened" /\ ClassNow' = "running" /\ session'.methods = methods
    BY <1>2 DEF CreateSession, ClassNow, ClassOf
  <2>2. OrdersNow' = OrdersNow
    BY <1>2 DEF CreateSession, OrdersNow, OrderOf, ClassOf
  <2>3. QED
    BY <1>1, <2>1, <2>2, RegisterSteps
<1>3. ASSUME NEW e \in Edits, NEW status \in {"OPEN", "PAUSED", "CLOSED"}, ReadForStatus(e, status)
      PROVE  [Register!RegisterNext]_(Register!registerVars)
  <2> DEFINE what == ClassOf(status)
  <2>1. what \in {"running", "paused", "over"} /\ OrderOf([op |-> "status", status |-> status]) = what
    BY DEF ClassOf, OrderOf
  <2>2. /\ ClassNow # "unopened" /\ (ClassNow = "over" => what = "over")
        /\ ClassNow' = ClassNow /\ session'.methods = session.methods
    BY <1>3 DEF ReadForStatus, ClassNow, ClassOf, TypeOK
  <2>3. OrdersNow[e] = "none"
    BY <1>3 DEF ReadForStatus, OrdersNow, OrderOf
  <2> HIDE DEF what
  <2>4. OrdersNow' = [OrdersNow EXCEPT ![e] = what]
    BY <1>3, <2>1, RequestSteps DEF ReadForStatus
  <2>5. QED
    BY <1>1, <2>1, <2>2, <2>3, <2>4, RegisterSteps
<1>4. ASSUME NEW e \in Edits, WriteStatus(e) PROVE [Register!RegisterNext]_(Register!registerVars)
  <2>1. edit[e].op = "status" /\ edit[e].status \in {"OPEN", "PAUSED", "CLOSED"}
    BY <1>4 DEF WriteStatus, TypeOK, EditFrames
  <2>2. OrdersNow[e] = ClassOf(edit[e].status) /\ OrdersNow[e] # "none"
    BY <2>1 DEF OrdersNow, OrderOf, ClassOf
  <2>3. session'.status = edit[e].status /\ session'.methods = session.methods
    BY <1>4 DEF WriteStatus, TypeOK
  <2>4. ClassNow' = OrdersNow[e]
    BY <2>2, <2>3 DEF ClassNow, ClassOf
  <2>5. OrderOf(IdleEdit) = "none"
    BY DEF OrderOf, IdleEdit
  <2>6. OrdersNow' = [OrdersNow EXCEPT ![e] = "none"]
    BY <1>4, <2>5, RequestSteps DEF WriteStatus
  <2>7. QED
    BY <1>1, <2>2, <2>3, <2>4, <2>6, RegisterSteps
<1>5. ASSUME NEW e \in Edits, NEW request, edit' = [edit EXCEPT ![e] = request],
             OrderOf(request) = OrderOf(edit[e]),
             session'.status = session.status, session'.methods = session.methods
      PROVE  [Register!RegisterNext]_(Register!registerVars)
  <2>1. OrdersNow' = [OrdersNow EXCEPT ![e] = OrderOf(edit[e])]
    BY <1>5, RequestSteps
  <2>2. OrdersNow' = OrdersNow
    BY <2>1 DEF OrdersNow
  <2>3. QED
    BY <1>1, <1>5, <2>2, RegisterSteps DEF RegisterKept, ClassNow
<1>6. ASSUME NEW e \in Edits, NEW mode \in {"ON", "OFF"}, NEW reading \in Readings,
             ReadForFence(e, mode, reading)
      PROVE  [Register!RegisterNext]_(Register!registerVars)
  <2> DEFINE request == [op |-> "fence", fence |-> NextFence(session.fence, mode, reading)]
  <2>1. OrderOf(request) = "none" /\ OrderOf(edit[e]) = "none"
    BY <1>6 DEF ReadForFence, OrderOf
  <2>2. edit' = [edit EXCEPT ![e] = request] /\ session' = session
    BY <1>6 DEF ReadForFence
  <2> HIDE DEF request
  <2>3. QED
    BY <1>5, <2>1, <2>2
<1>7. ASSUME NEW e \in Edits, WriteFence(e) PROVE [Register!RegisterNext]_(Register!registerVars)
  <2>1. OrderOf(IdleEdit) = "none" /\ OrderOf(edit[e]) = "none"
    BY <1>7 DEF WriteFence, OrderOf, IdleEdit
  <2>2. session'.status = session.status /\ session'.methods = session.methods
    BY <1>7 DEF WriteFence, TypeOK
  <2>3. edit' = [edit EXCEPT ![e] = IdleEdit]
    BY <1>7 DEF WriteFence
  <2>4. QED
    BY <1>5, <2>1, <2>2, <2>3
<1>8. QED
  BY <1>2, <1>3, <1>4, <1>6, <1>7 DEF LecturerStep

\* A check-in request admits, marks, or comes to nothing.
LEMMA CheckInImplements ==
  ASSUME TypeOK, OncePerStudent, OncePerStudent', CheckInStep
  PROVE  [Register!RegisterNext]_(Register!registerVars)
<1>1. ClassNow' = ClassNow /\ session'.methods = session.methods
  BY DEF CheckInStep, VerifySession, CheckRoster, CheckAlreadyRecorded, InsertRecord, ClassNow
<1>2. records' = records => MarksNow' = MarksNow
  BY DEF MarksNow, MarkOf, Recorded
<1>7. OrdersNow' = OrdersNow
  <2>1. edit' = edit
    BY DEF CheckInStep, VerifySession, CheckRoster, CheckAlreadyRecorded, InsertRecord
  <2>2. QED
    BY <2>1 DEF OrdersNow, OrderOf, ClassOf
<1>3. ASSUME NEW c \in Scans, NEW s \in Students, NEW method \in Methods,
             NEW at \in Places \cup {NoPlace}, VerifySession(c, s, method, at)
      PROVE  [Register!RegisterNext]_(Register!registerVars)
  <2> DEFINE frame == [phase |-> "roster", row |-> NewRow(s, method, at)]
  <2>1. scan' = [scan EXCEPT ![c] = frame] /\ scan[c].phase = "idle" /\ records' = records
    BY <1>3 DEF VerifySession
  <2>2. TicketOf(frame) = [holder |-> s, by |-> method]
    BY DEF TicketOf, NewRow
  <2> HIDE DEF frame
  <2>3. TicketsNow' = [TicketsNow EXCEPT ![c] = [holder |-> s, by |-> method]]
    BY <2>1, <2>2, FrameSteps
  <2>4. ClassNow = "running" /\ method \in session.methods
    BY <1>3 DEF VerifySession, AcceptingScans, ClassNow, ClassOf
  <2>5. QED
    BY <1>1, <1>2, <1>7, <2>1, <2>3, <2>4, TicketIs, RegisterSteps
<1>4. ASSUME NEW c \in Scans, NEW consents \in BOOLEAN,
             CheckRoster(c, consents) \/ CheckAlreadyRecorded(c)
      PROVE  [Register!RegisterNext]_(Register!registerVars)
  <2>1. PICK frame : scan' = [scan EXCEPT ![c] = frame] /\ (frame = IdleScan \/ TicketOf(frame) = TicketOf(scan[c]))
    <3>1. ASSUME NEW phase \in {"insert", "advisory"}, scan[c].phase # "idle"
          PROVE  TicketOf([scan[c] EXCEPT !.phase = phase]) = TicketOf(scan[c])
      BY <3>1 DEF TypeOK, ScanFrames, TicketOf
    <3>2. QED
      BY <1>4, <3>1 DEF CheckRoster, CheckAlreadyRecorded
  <2>2. records' = records /\ scan[c].phase # "idle"
    BY <1>4 DEF CheckRoster, CheckAlreadyRecorded
  <2>3. CASE frame = IdleScan
    BY <1>1, <1>2, <1>7, <2>1, <2>2, <2>3, TurnsAway
  <2>4. CASE TicketOf(frame) = TicketOf(scan[c])
    <3>1. TicketsNow' = [TicketsNow EXCEPT ![c] = TicketOf(scan[c])]
      BY <2>1, <2>4, FrameSteps
    <3>2. TicketsNow' = TicketsNow
      BY <3>1 DEF TicketsNow
    <3>3. QED
      BY <1>1, <1>2, <1>7, <2>2, <3>2, RegisterSteps DEF RegisterKept
  <2>5. QED
    BY <2>1, <2>3, <2>4
<1>5. ASSUME NEW c \in Scans, InsertRecord(c)
      PROVE  [Register!RegisterNext]_(Register!registerVars)
  <2> DEFINE row == scan[c].row
             s == row.student
  <2>1. /\ scan' = [scan EXCEPT ![c] = IdleScan] /\ row \in Rows /\ s \in Students
        /\ TicketsNow[c] = [holder |-> s, by |-> row.method] /\ TicketsNow[c] # [holder |-> "none"]
    <3>1. scan[c].phase = "insert" /\ row \in Rows
      BY <1>5 DEF InsertRecord, TypeOK, ScanFrames
    <3>2. QED
      BY <1>5, <3>1, TicketIs DEF InsertRecord, Rows
  <2>2. TicketOf(IdleScan) = [holder |-> "none"]
    BY DEF TicketOf, IdleScan
  <2>3. CASE Recorded(s)
    <3>1. records' = records /\ scan[c].phase # "idle"
      BY <1>5, <2>3 DEF InsertRecord
    <3>2. QED
      BY <1>1, <1>2, <1>7, <2>1, <3>1, TurnsAway
  <2>4. CASE ~Recorded(s)
    <3>1. records' = Append(records, row) /\ records \in Seq(Rows)
      BY <1>5, <2>4 DEF InsertRecord, TypeOK
    <3>2. /\ DOMAIN records' = DOMAIN records \cup {Len(records) + 1}
          /\ \A i \in DOMAIN records : records'[i] = records[i]
          /\ records'[Len(records) + 1] = row
      BY <2>1, <3>1
    <3>3. MarksNow[s] = "absent"
      BY <2>1, <2>4 DEF MarksNow, MarkOf
    <3>4. ASSUME NEW q \in Students PROVE MarksNow'[q] = IF q = s THEN row.method ELSE MarksNow[q]
      <4>1. CASE q = s
        <5>1. Len(records) + 1 \in DOMAIN records' /\ records'[Len(records) + 1] = row
          BY <3>2
        <5>2. MarkOf(q)' = row.method
          BY <4>1, <5>1, MarkIsNext
        <5>3. QED
          BY <4>1, <5>2 DEF MarksNow
      <4>2. CASE q # s /\ Recorded(q)
        <5>1. PICK i \in DOMAIN records : records[i].student = q
          BY <4>2 DEF Recorded
        <5>2. i \in DOMAIN records' /\ records'[i] = records[i]
          BY <5>1, <3>2
        <5>3. MarkOf(q)' = records[i].method
          BY <5>1, <5>2, MarkIsNext
        <5>4. MarkOf(q) = records[i].method
          BY <5>1, MarkIs
        <5>5. QED
          BY <4>2, <5>3, <5>4 DEF MarksNow
      <4>3. CASE q # s /\ ~Recorded(q)
        <5>1. ~Recorded(q)'
          BY <4>3, <3>2 DEF Recorded
        <5>2. MarkOf(q) = "absent" /\ MarkOf(q)' = "absent"
          BY <4>3, <5>1 DEF MarkOf
        <5>3. QED
          BY <4>3, <5>2 DEF MarksNow
      <4>4. QED
        BY <4>1, <4>2, <4>3
    <3>5. MarksNow' = [MarksNow EXCEPT ![s] = row.method]
      <4>1. MarksNow' = [q \in Students |-> MarksNow'[q]] /\ MarksNow = [q \in Students |-> MarksNow[q]]
        BY DEF MarksNow
      <4>2. QED
        BY <3>4, <4>1
    <3>6. TicketsNow' = [TicketsNow EXCEPT ![c] = [holder |-> "none"]]
      BY <2>1, <2>2, FrameSteps
    <3>7. TicketsNow[c].holder = s /\ TicketsNow[c].by = row.method
      BY <2>1
    <3>8. QED
      BY <1>1, <1>7, <2>1, <3>3, <3>5, <3>6, <3>7, RegisterSteps
  <2>5. QED
    BY <2>3, <2>4
<1>6. QED
  BY <1>3, <1>4, <1>5 DEF CheckInStep

\* Roster changes and the clock are no business of the register, and a restart is
\* an end to every admission in flight.
LEMMA SurroundingsImplement ==
  ASSUME TypeOK, NEW listed \in SUBSET Students, SyncRoster(listed) \/ Restart \/ Tick \/ UNCHANGED vars
  PROVE  [Register!RegisterNext]_(Register!registerVars)
<1>1. session' = session /\ records' = records
  BY DEF SyncRoster, Restart, Tick, vars
<1>2. ClassNow' = ClassNow /\ session'.methods = session.methods /\ MarksNow' = MarksNow
  BY <1>1 DEF ClassNow, MarksNow, MarkOf, Recorded
<1>3. CASE scan' = scan /\ edit' = edit
  <2>1. TicketsNow' = TicketsNow /\ OrdersNow' = OrdersNow
    BY <1>3 DEF TicketsNow, TicketOf, OrdersNow, OrderOf, ClassOf
  <2>2. QED
    BY <1>2, <2>1, RegisterSteps DEF RegisterKept
<1>4. CASE Restart
  <2>1. TicketsNow' = [t \in Scans |-> [holder |-> "none"]]
    BY <1>4 DEF Restart, TicketsNow, TicketOf, IdleScan
  <2>2. OrdersNow' = [e \in Edits |-> "none"]
    BY <1>4 DEF Restart, OrdersNow, OrderOf, IdleEdit
  <2>3. QED
    BY <1>2, <2>1, <2>2, RegisterSteps
<1>5. QED
  BY <1>3, <1>4 DEF SyncRoster, Tick, vars

\* At first nothing is open and nobody is marked.
LEMMA RegisterOpens == Init => Register!RegisterInit
BY DEF Init, Register!RegisterInit, Register!NoTicket, Unopened, ClassOf, TicketOf, OrderOf, MarkOf, Recorded, IdleScan, IdleEdit

\* Every behaviour of the handlers, with any number of requests of any kind at once,
\* is one of the attendance register: the class opens once, comes back after it was
\* over only by a decision taken before, admits only while it runs and by a method
\* it takes, and an admission marks its own student at most once.
THEOREM RegisterImplemented == Spec => ImplementsRegister
<1>1. TypeOK /\ FenceInv /\ CheckInInv /\ CheckInInv' /\ [Next]_vars
      => [Register!RegisterNext]_(Register!registerVars)
  <2> SUFFICES ASSUME TypeOK, FenceInv, CheckInInv, CheckInInv', [Next]_vars
               PROVE  [Register!RegisterNext]_(Register!registerVars)
    OBVIOUS
  <2>1. OncePerStudent /\ OncePerStudent'
    BY DEF CheckInInv
  <2>2. CASE LecturerStep
    BY <2>2, LecturerImplements
  <2>3. CASE CheckInStep
    BY <2>1, <2>3, CheckInImplements
  <2>4. ASSUME NEW listed \in SUBSET Students, SyncRoster(listed)
        PROVE  [Register!RegisterNext]_(Register!registerVars)
    BY <2>4, SurroundingsImplement
  <2>5. CASE Restart \/ Tick \/ UNCHANGED vars
    <3>1. PICK listed \in SUBSET Students : TRUE
      OBVIOUS
    <3>2. QED
      BY <2>5, <3>1, SurroundingsImplement
  <2>6. QED
    BY <2>2, <2>3, <2>4, <2>5 DEF Next
<1>2. QED
  BY <1>1, RegisterOpens, TypeCorrect, FenceInvariant, CheckInInvariant, PTL
     DEF Spec, ImplementsRegister, Register!RegisterSpec

=============================================================================
