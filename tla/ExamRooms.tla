------------------------------ MODULE ExamRooms ------------------------------
(* The rooms of one exam paper.  SMARTTT pushes versions of the plan: who   *)
(* sits in which room, who invigilates it and when the paper ends.  A push  *)
(* is a transaction that writes its rooms one by one and then withdraws the *)
(* others.  Pushes may arrive late, again or out of order and may overlap:  *)
(* the version is stored, not compared.  A row one push has written waits   *)
(* for its end; what it wrote is seen by nobody else before.                *)
(* The invigilator opens the room in its slot and shows its code; students  *)
(* check in with it, only in the room they are seated in.  A request reads  *)
(* the room, then writes; a push or another request may come in between.    *)
EXTENDS Naturals, FiniteSets

CONSTANTS
  Halls,        \* the rooms of the paper
  Sitters,      \* the candidates
  Invigilating, \* staff numbers
  Unseated,     \* no room, no staff number
  Handhelds,      \* requests under way
  PushedVersions,     \* versions SMARTTT pushes
  Pushes,       \* pushes under way
  Starts, OpenEarly, EndTimes, \* when the paper starts and may end; OPEN_EARLY_MINUTES
  CodeLife,     \* how long a shown code is accepted
  MaxRequests,  \* bound: requests to open or to sit
  MaxPushes,    \* bound: pushes that arrive
  LastMinute    \* bound: the clock

\* What the constants must satisfy.
ExamRoomsAssumption ==
  /\ {Starts, OpenEarly, CodeLife, MaxRequests, MaxPushes, LastMinute} \cup EndTimes \subseteq Nat
  /\ OpenEarly <= Starts
  /\ Unseated \notin Halls \cup Invigilating

VARIABLES
  plan,      \* version -> SMARTTT's plan: [seat, invigilator, ends]
  hall,      \* room -> its exam_sessions row
  sat,       \* exam_attendance_records: [hall, sitter]
  shown,     \* room -> the code last put on the screen, and when
  device,    \* request -> the room it read
  minute, requests,  \* the clock; requests so far, which also numbers the codes
  pushing,   \* push -> its transaction
  arrived,   \* pushes so far
  mixed      \* history: whether the last push to be committed had overlapped another

examRoomsVars == <<plan, hall, sat, shown, device, minute, requests, pushing, arrived, mixed>>
roomVars == <<sat, shown, device, minute, requests>>
pushVars == <<pushing, arrived, mixed>>

NoCode == 0
Unpushed ==
  [pushed |-> FALSE, withdrawn |-> FALSE, seats |-> {}, staff |-> Unseated, ends |-> 0,
   status |-> "NONE", code |-> NoCode, closes |-> 0, fenced |-> FALSE]
NoPush == [at |-> "idle", version |-> 0, todo |-> {}, written |-> {}, left |-> {}, alone |-> FALSE]
NoRequest == [does |-> "nothing", hall |-> Unseated, sitter |-> Unseated, row |-> Unpushed, fenced |-> FALSE, code |-> NoCode]

-----------------------------------------------------------------------------
ExamRoomsInit ==
  /\ plan \in [PushedVersions -> [seat : [Sitters -> Halls \cup {Unseated}], invigilator : [Halls -> Invigilating], ends : EndTimes]]
  /\ hall = [h \in Halls |-> Unpushed]
  /\ sat = {}
  /\ shown = [h \in Halls |-> [code |-> NoCode, at |-> 0]]
  /\ device = [d \in Handhelds |-> NoRequest]
  /\ minute = 0
  /\ requests = 0
  /\ pushing = [p \in Pushes |-> NoPush]
  /\ arrived = 0
  /\ mixed = FALSE

SeatedIn(v, h) == {s \in Sitters : plan[v].seat[s] = h}

RoomsOf(v) == {h \in Halls : SeatedIn(v, h) # {}}

\* The rooms on the paper: pushed, and not withdrawn since.
PaperRooms == {h \in Halls : hall[h].pushed /\ ~hall[h].withdrawn}

\* A row that a push has written and not committed keeps every other writer waiting.
Holds(p, h) == h \in pushing[p].written \cup pushing[p].left
Free(h) == \A p \in Pushes : ~Holds(p, h)

PushStep(p, new) ==
  /\ pushing' = [pushing EXCEPT ![p] = new]
  /\ UNCHANGED <<plan, hall, roomVars, arrived, mixed>>

\* A push arrives: any version, whatever came before and whichever are under way.
Arrive(p, v) ==
  /\ pushing[p] = NoPush
  /\ arrived < MaxPushes
  /\ arrived' = arrived + 1
  /\ LET others == {q \in Pushes : pushing[q] # NoPush}
         begun == [NoPush EXCEPT !.at = "writing", !.version = v, !.todo = RoomsOf(v), !.alone = others = {}]
     IN pushing' = [q \in Pushes |-> IF q = p THEN begun
                                     ELSE IF q \in others THEN [pushing[q] EXCEPT !.alone = FALSE] ELSE NoPush]
  /\ UNCHANGED <<plan, hall, roomVars, mixed>>

\* One of its rooms: the upsert by key.
WriteRow(p, h) ==
  /\ pushing[p].at = "writing" /\ h \in pushing[p].todo
  /\ Free(h)
  /\ PushStep(p, [pushing[p] EXCEPT !.todo = @ \ {h}, !.written = @ \cup {h}])

\* Mutant for SatWhereSeated: an open room is not withdrawn.
UnopenedSuperseded(v) == {h \in PaperRooms : hall[h].status # "OPEN"} \ RoomsOf(v)

\* The statement that withdraws the others takes those that are on the paper as it begins.
Superseded(v) == PaperRooms \ RoomsOf(v)
BeginWithdrawing(p) ==
  /\ pushing[p].at = "writing" /\ pushing[p].todo = {}
  /\ PushStep(p, [pushing[p] EXCEPT !.at = "withdrawing", !.todo = Superseded(pushing[p].version)])

\* One of them, if it is on the paper still once its row is free.
WithdrawRow(p, h) ==
  /\ pushing[p].at = "withdrawing" /\ h \in pushing[p].todo
  /\ Free(h)
  /\ PushStep(p, [pushing[p] EXCEPT !.todo = @ \ {h}, !.left = @ \cup ({h} \cap PaperRooms)])

\* An open room keeps its code and its records.
Placed(row, v, h) ==
  [row EXCEPT !.pushed = TRUE, !.withdrawn = FALSE, !.seats = SeatedIn(v, h),
              !.staff = plan[v].invigilator[h], !.ends = plan[v].ends]

Commit(p) ==
  /\ pushing[p].at = "withdrawing" /\ pushing[p].todo = {}
  /\ hall' = [h \in Halls |-> IF h \in pushing[p].written THEN Placed(hall[h], pushing[p].version, h)
                              ELSE IF h \in pushing[p].left THEN [hall[h] EXCEPT !.withdrawn = TRUE] ELSE hall[h]]
  /\ pushing' = [pushing EXCEPT ![p] = NoPush]
  /\ mixed' = ~pushing[p].alone
  /\ UNCHANGED <<plan, roomVars, arrived>>

\* Rolled back: an error, a lost connection, or two pushes waiting on each other's rows.
RollBack(p) == pushing[p] # NoPush /\ PushStep(p, NoPush)

\* ownSession: pushed, not withdrawn, and this staff number's.
Owns(h, staff) == hall[h].pushed /\ ~hall[h].withdrawn /\ hall[h].staff = staff

TakeRequest(d, new) ==
  /\ device[d] = NoRequest
  /\ device' = [device EXCEPT ![d] = new]
  /\ requests < MaxRequests
  /\ requests' = requests + 1
  /\ UNCHANGED <<plan, hall, sat, shown, minute, pushVars>>

\* openExamSession, its reads: not opened or closed before, and in the slot.
AskToOpen(d, h, staff) ==
  /\ Owns(h, staff)
  /\ hall[h].status = "NONE"
  /\ Starts - OpenEarly <= minute /\ minute <= hall[h].ends
  /\ \E fenced \in BOOLEAN :
       TakeRequest(d, [NoRequest EXCEPT !.does = "open", !.hall = h, !.row = hall[h], !.fenced = fenced, !.code = requests + 1])

\* The guard of repo.open's UPDATE.
StillUnopened(h) == hall[h].status = "NONE"

\* repo.open: a fresh code, and the closing time of the row that was read.
OpenHall(d) ==
  LET h == device[d].hall
  IN /\ device[d].does = "open"
     /\ Free(h)
     /\ hall' = IF StillUnopened(h)
                THEN [hall EXCEPT ![h].status = "OPEN", ![h].code = device[d].code, ![h].closes = device[d].row.ends,
                                  ![h].fenced = device[d].fenced]
                ELSE hall
     /\ device' = [device EXCEPT ![d] = NoRequest]
     /\ UNCHANGED <<plan, sat, shown, minute, requests, pushVars>>

\* currentExamCode: the code on the invigilator's screen.
ShowCode(h, staff) ==
  /\ Owns(h, staff)
  /\ hall[h].status = "OPEN" /\ minute <= hall[h].closes
  /\ shown' = [shown EXCEPT ![h] = [code |-> hall[h].code, at |-> minute]]
  /\ UNCHANGED <<plan, hall, sat, device, minute, requests, pushVars>>

\* closeExamSession: of any room of theirs, opened or not.
CloseHall(h, staff) ==
  /\ Owns(h, staff)
  /\ Free(h)
  /\ hall' = [hall EXCEPT ![h].status = "CLOSED"]
  /\ UNCHANGED <<plan, roomVars, pushVars>>

\* What checkIn asks of the room it read: the code, the time, the fence.
Taking(h, inside) ==
  /\ hall[h].code # NoCode
  /\ shown[h].code = hall[h].code /\ minute <= shown[h].at + CodeLife
  /\ hall[h].status = "OPEN" /\ ~hall[h].withdrawn /\ minute <= hall[h].closes
  /\ hall[h].fenced => inside

\* Mutant for SatWhereSeated: whoever has the code may sit.
ListedAnywhere(h, s) == TRUE

\* The student's number is one of the room's candidates.
Listed(h, s) == s \in hall[h].seats

\* checkIn, its reads.
AskToSit(d, h, s) ==
  /\ \E inside \in BOOLEAN : Taking(h, inside)
  /\ Listed(h, s)
  /\ TakeRequest(d, [NoRequest EXCEPT !.does = "sit", !.hall = h, !.sitter = s])

\* recordCheckIn: once per room and student.
Sit(d) ==
  /\ device[d].does = "sit"
  /\ sat' = sat \cup {[hall |-> device[d].hall, sitter |-> device[d].sitter]}
  /\ device' = [device EXCEPT ![d] = NoRequest]
  /\ UNCHANGED <<plan, hall, shown, minute, requests, pushVars>>

\* report, for the main invigilator: the paper's rooms, and who sat or is absent in each.
SatIn(h) == {s \in hall[h].seats : [hall |-> h, sitter |-> s] \in sat}
AbsentFrom(h) == hall[h].seats \ SatIn(h)

Minute ==
  /\ minute < LastMinute
  /\ minute' = minute + 1
  /\ UNCHANGED <<plan, hall, sat, shown, device, requests, pushVars>>

ExamRoomsNext ==
  \/ \E p \in Pushes :
       \/ \E v \in PushedVersions : Arrive(p, v)
       \/ \E h \in Halls : WriteRow(p, h) \/ WithdrawRow(p, h)
       \/ BeginWithdrawing(p) \/ Commit(p) \/ RollBack(p)
  \/ \E h \in Halls, staff \in Invigilating :
       ShowCode(h, staff) \/ CloseHall(h, staff) \/ \E d \in Handhelds : AskToOpen(d, h, staff)
  \/ \E d \in Handhelds, h \in Halls, s \in Sitters : AskToSit(d, h, s)
  \/ \E d \in Handhelds : OpenHall(d) \/ Sit(d)
  \/ Minute

ExamRoomsSpec == ExamRoomsInit /\ [][ExamRoomsNext]_examRoomsVars

-----------------------------------------------------------------------------
(* Everyone recorded in a room was seated there by some version of the      *)
(* plan, in whatever order the versions came and however their pushes       *)
(* overlapped; and the main invigilator's report names nobody in two rooms, *)
(* unless the push that was committed last had overlapped another: neither  *)
(* sees the rooms the other adds, so both plans' rooms stay                 *)
(* (exam.service.ts checkIn, receiveExamSessions and report).               *)
SatWhereSeated ==
  /\ \A row \in sat : \E v \in PushedVersions : plan[v].seat[row.sitter] = row.hall
  /\ ~mixed => \A g, h \in PaperRooms :
       g # h => (SatIn(g) \cup AbsentFrom(g)) \cap (SatIn(h) \cup AbsentFrom(h)) = {}

=============================================================================
