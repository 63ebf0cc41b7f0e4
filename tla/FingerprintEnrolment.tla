------------------------ MODULE FingerprintEnrolment ------------------------
(***************************************************************************)
(* Enrolling and removing fingers: the department queues commands on the   *)
(* server, a terminal's reader holds the templates, and a network that     *)
(* loses messages lies between them.  src/modules/terminal/enrolment.* and *)
(* the two clients under terminals/: the ESP32 box and the Android handheld*)
(*                                                                         *)
(* The server never sees a template: an enrolment says that a slot of the  *)
(* reader is a student's.  The reader never hears of a revocation except   *)
(* by a command that names the enrolment, and must remember its slot.      *)
(* One terminal, paired throughout: slots mean nothing on another one.     *)
(***************************************************************************)
EXTENDS Naturals, Sequences

CONSTANTS
  Students,
  NoStudent,
  Capacity,     \* slots of the reader
  MaxCommands,  \* commands the department ever queues: the bound of the model
  Kinds,        \* the clients a terminal may run
  Faults        \* what may go wrong around the terminal

ASSUME FingerprintAssumption ==
  /\ NoStudent \notin Students
  /\ Capacity \in Nat /\ MaxCommands \in Nat
  /\ Kinds \subseteq {"ESP32", "ANDROID"}
  /\ Faults \subseteq {"REQUEST_LOST", "REPLY_LOST", "POWER_LOST", "READER_BROKEN"}

VARIABLES
  kind,        \* the client this terminal runs
  cutOff,      \* the battery has died once: the model lets it die no more often
  enrolments,  \* student_fingerprints, an enrolment's id its place in the sequence
  commands,    \* terminal_commands, oldest first
  request,     \* the student an officer's enrolment request in flight is for
  template,    \* the reader's flash: the ENROL command that filled each slot, or 0
  slotMap,     \* the device's flash: the slot it noted against an enrolment, or 0
  device       \* what the device is doing: phase, commands still to run, slot, reply

vars == <<kind, cutOff, enrolments, commands, request, template, slotMap, device>>

Slots == 1..Capacity
CommandIds == 1..MaxCommands
Idle == [phase |-> "idle", queue |-> {}, command |-> 0, slot |-> 0, reply |-> "none"]

Init ==
  /\ kind \in Kinds
  /\ cutOff = FALSE
  /\ enrolments = << >>
  /\ commands = << >>
  /\ request = NoStudent
  /\ template = [k \in Slots |-> 0]
  /\ slotMap = [e \in CommandIds |-> 0]
  /\ device = Idle

-----------------------------------------------------------------------------
(* The department's officer.                                               *)

IsActive(e) == e \in DOMAIN enrolments /\ enrolments[e].status = "ACTIVE"
HasActive(s) == \E e \in DOMAIN enrolments : IsActive(e) /\ enrolments[e].student = s
IsPending(c) == c \in DOMAIN commands /\ commands[c].status = "PENDING"

\* requestEnrolment up to hasActiveFingerprint.
RequestEnrolment(s) ==
  /\ request = NoStudent
  /\ ~HasActive(s)
  /\ request' = s
  /\ UNCHANGED <<kind, cutOff, enrolments, commands, template, slotMap, device>>

\* createCommand: terminal_commands_one_pending_enrol turns a second one into a 409.
QueueEnrolment ==
  /\ request # NoStudent
  /\ Len(commands) < MaxCommands
  /\ commands' =
       IF \E c \in DOMAIN commands : IsPending(c) /\ commands[c].kind = "ENROL"
                                     /\ commands[c].student = request
       THEN commands
       ELSE Append(commands, [kind |-> "ENROL", student |-> request,
                              enrolment |-> 0, status |-> "PENDING"])
  /\ request' = NoStudent
  /\ UNCHANGED <<kind, cutOff, enrolments, template, slotMap, device>>

\* cancelCommand: finish takes it only while it is PENDING.
Cancel(c) ==
  /\ IsPending(c)
  /\ commands' = [commands EXCEPT ![c].status = "CANCELLED"]
  /\ UNCHANGED <<kind, cutOff, enrolments, request, template, slotMap, device>>

\* revokeFingerprint: the finger stops counting and its removal is queued, in one transaction.
Revoke(e) ==
  /\ IsActive(e)
  /\ Len(commands) < MaxCommands
  /\ enrolments' = [enrolments EXCEPT ![e].status = "REVOKED"]
  /\ commands' = Append(commands, [kind |-> "DELETE", student |-> enrolments[e].student,
                                   enrolment |-> e, status |-> "PENDING"])
  /\ UNCHANGED <<kind, cutOff, request, template, slotMap, device>>

-----------------------------------------------------------------------------
(* The device: it fetches the pending commands and runs them one by one.   *)
(* Nobody checks in by finger meanwhile: the box has one loop, the handheld*)
(* holds readerLock.                                                       *)

\* heartbeat, then GET /terminals/commands: a list that may be stale when it is run.
Fetch ==
  /\ device.phase = "idle"
  /\ \E c \in DOMAIN commands : IsPending(c)
  /\ device' = [device EXCEPT !.phase = "working",
                              !.queue = {c \in DOMAIN commands : IsPending(c)}]
  /\ UNCHANGED <<kind, cutOff, enrolments, commands, request, template, slotMap>>

\* The oldest command the device has fetched and not dealt with.
NextUp(c) ==
  /\ device.phase = "working"
  /\ c \in device.queue /\ \A other \in device.queue : c <= other

\* The command the device is waiting for an answer to.
InHand(c) == device.phase = "completing" /\ device.command = c

\* On to the rest of the list.
Rest(c) ==
  IF device.queue = {c} THEN Idle
  ELSE [Idle EXCEPT !.phase = "working", !.queue = device.queue \ {c}]

Working(c, k) ==
  device' = [device EXCEPT !.phase = "completing", !.command = c, !.slot = k]

FreeSlots == {k \in Slots : template[k] = 0}

\* enrol: two presses merged into one template in the lowest free slot.
TakeFinger(c, k) ==
  /\ NextUp(c)
  /\ commands[c].kind = "ENROL"
  /\ \A other \in FreeSlots : k <= other
  /\ template' = [template EXCEPT ![k] = c]
  /\ Working(c, k)
  /\ UNCHANGED <<kind, cutOff, enrolments, commands, request, slotMap>>

\* failCommand: no finger placed, two presses that differ, a full reader, or a
\* reader that does not work; the device does not look at the answer.
Decline(c, lost) ==
  /\ NextUp(c)
  /\ commands[c].kind = "DELETE" => "READER_BROKEN" \in Faults
  /\ lost => "REQUEST_LOST" \in Faults
  /\ commands' = IF lost \/ ~IsPending(c) THEN commands
                 ELSE [commands EXCEPT ![c].status = "FAILED"]
  /\ device' = Rest(c)
  /\ UNCHANGED <<kind, cutOff, enrolments, request, template, slotMap>>

\* DELETE: whatever is in the noted slot by now goes; nothing if none was noted.
EraseFinger(c) ==
  /\ NextUp(c)
  /\ commands[c].kind = "DELETE"
  /\ LET k == slotMap[commands[c].enrolment] IN
       /\ template' = [i \in Slots |-> IF i = k THEN 0 ELSE template[i]]
       /\ Working(c, k)
  /\ UNCHANGED <<kind, cutOff, enrolments, commands, request, slotMap>>

-----------------------------------------------------------------------------
(* POST /terminals/commands/:id/complete.                                  *)

SlotTaken(k) == \E e \in DOMAIN enrolments : IsActive(e) /\ enrolments[e].slot = k

\* Mutant: only the student is checked: the index on the slot is missing.
AcceptsAnySlot(c, k) == IsPending(c) /\ ~HasActive(commands[c].student)

\* Mutant: finish does not look whether the command is still PENDING.
AcceptsWithdrawn(c, k) == ~HasActive(commands[c].student) /\ ~SlotTaken(k)

\* The INSERT's two partial unique indexes and finish's PENDING, in one transaction.
Accepts(c, k) == IsPending(c) /\ ~HasActive(commands[c].student) /\ ~SlotTaken(k)

\* A DELETE cancelled between pendingCommand and finish is still answered with a 200.
RemovalReplies(c) ==
  CASE IsPending(c) -> {"ok"}
    [] commands[c].status = "CANCELLED" -> {"ok", "refused"}
    [] OTHER -> {"refused"}

Answered(reply, lost) ==
  device' = [device EXCEPT !.phase = "answered", !.reply = IF lost THEN "none" ELSE reply]

\* completeCommand of an ENROL.
CompleteEnrolment(c, lost) ==
  /\ InHand(c)
  /\ commands[c].kind = "ENROL"
  /\ lost => "REPLY_LOST" \in Faults
  /\ IF Accepts(c, device.slot)
     THEN /\ enrolments' = Append(enrolments, [student |-> commands[c].student,
                                    slot |-> device.slot, status |-> "ACTIVE", command |-> c])
          /\ commands' = [commands EXCEPT ![c].status = "DONE",
                                          ![c].enrolment = Len(enrolments) + 1]
     ELSE UNCHANGED <<enrolments, commands>>
  /\ Answered(IF Accepts(c, device.slot) THEN "ok" ELSE "refused", lost)
  /\ UNCHANGED <<kind, cutOff, request, template, slotMap>>

\* completeCommand of a DELETE.
CompleteRemoval(c, lost) ==
  /\ InHand(c)
  /\ commands[c].kind = "DELETE"
  /\ lost => "REPLY_LOST" \in Faults
  /\ commands' = IF IsPending(c) THEN [commands EXCEPT ![c].status = "DONE"] ELSE commands
  /\ \E reply \in RemovalReplies(c) : Answered(reply, lost)
  /\ UNCHANGED <<kind, cutOff, enrolments, request, template, slotMap>>

\* The request never reached the server.
LoseRequest ==
  /\ device.phase = "completing"
  /\ "REQUEST_LOST" \in Faults
  /\ Answered("none", TRUE)
  /\ UNCHANGED <<kind, cutOff, enrolments, commands, request, template, slotMap>>

-----------------------------------------------------------------------------
(* The device again.                                                       *)

\* Mutant: a timeout leaves the template in place on the box as well.
FreesRefusedOnly(reply) == reply = "refused"

\* On an error the box frees the slot whatever it was; the handheld only when
\* the server said no, so that a timeout leaves the template in place.
FreesSlotOn(reply) ==
  \/ reply = "refused"
  \/ reply = "none" /\ kind = "ESP32"

\* Mutant: the slot is noted against the command, not against the enrolment made of it.
FinishEnrolmentMisnoted ==
  LET c == device.command IN
  /\ device.phase = "answered"
  /\ commands[c].kind = "ENROL"
  /\ slotMap' = IF device.reply = "ok" THEN [slotMap EXCEPT ![c] = device.slot] ELSE slotMap
  /\ template' = IF FreesSlotOn(device.reply)
                 THEN [template EXCEPT ![device.slot] = 0] ELSE template
  /\ device' = Rest(c)
  /\ UNCHANGED <<kind, cutOff, enrolments, commands, request>>

FinishEnrolment ==
  LET c == device.command IN
  /\ device.phase = "answered"
  /\ commands[c].kind = "ENROL"
  /\ slotMap' = IF device.reply = "ok"
                THEN [slotMap EXCEPT ![commands[c].enrolment] = device.slot] ELSE slotMap
  /\ template' = IF FreesSlotOn(device.reply)
                 THEN [template EXCEPT ![device.slot] = 0] ELSE template
  /\ device' = Rest(c)
  /\ UNCHANGED <<kind, cutOff, enrolments, commands, request>>

\* The noted slot is forgotten once the server has taken the report.
FinishRemoval ==
  LET c == device.command IN
  /\ device.phase = "answered"
  /\ commands[c].kind = "DELETE"
  /\ slotMap' = IF device.reply = "ok"
                THEN [slotMap EXCEPT ![commands[c].enrolment] = 0] ELSE slotMap
  /\ device' = Rest(c)
  /\ UNCHANGED <<kind, cutOff, enrolments, commands, request, template>>

\* The battery dies: both flashes survive, what the device was doing does not.
LosePower ==
  /\ "POWER_LOST" \in Faults
  /\ device # Idle /\ ~cutOff
  /\ device' = Idle
  /\ cutOff' = TRUE
  /\ UNCHANGED <<kind, enrolments, commands, request, template, slotMap>>

OfficerStep ==
  \/ \E s \in Students : RequestEnrolment(s)
  \/ QueueEnrolment
  \/ \E c \in CommandIds : Cancel(c)
  \/ \E e \in CommandIds : Revoke(e)

DeviceStep ==
  \/ \E c \in CommandIds :
       \/ \E k \in FreeSlots : TakeFinger(c, k)
       \/ \E lost \in BOOLEAN : Decline(c, lost)
       \/ EraseFinger(c)
  \/ FinishEnrolment
  \/ FinishRemoval

Complete(c, lost) == CompleteEnrolment(c, lost) \/ CompleteRemoval(c, lost)

Next ==
  \/ OfficerStep
  \/ Fetch
  \/ DeviceStep
  \/ \E c \in CommandIds, lost \in BOOLEAN : Complete(c, lost)
  \/ LoseRequest
  \/ LosePower

\* The device beats every minute and runs what it fetched to the end; a report
\* that is repeated for ever gets through some time, and a reader is not broken
\* every time a removal comes up.
Fairness ==
  /\ WF_vars(Fetch)
  /\ WF_vars(DeviceStep)
  /\ WF_vars(LoseRequest \/ \E c \in CommandIds, lost \in BOOLEAN : Complete(c, lost))
  /\ \A c \in CommandIds : SF_vars(EraseFinger(c)) /\ SF_vars(Complete(c, FALSE))

Spec == Init /\ [][Next]_vars /\ Fairness

-----------------------------------------------------------------------------
(* Properties.                                                             *)

\* The rows and the device's two stores keep their shapes.
TypeOK ==
  /\ kind \in Kinds /\ cutOff \in BOOLEAN
  /\ enrolments \in Seq([student : Students, slot : Slots,
                         status : {"ACTIVE", "REVOKED"}, command : CommandIds])
  /\ commands \in Seq([kind : {"ENROL", "DELETE"}, student : Students, enrolment : Nat,
                       status : {"PENDING", "DONE", "FAILED", "CANCELLED"}])
  /\ Len(commands) <= MaxCommands
  /\ request \in Students \cup {NoStudent}
  /\ template \in [Slots -> 0..MaxCommands]
  /\ slotMap \in [CommandIds -> 0..Capacity]
  /\ device \in [phase : {"idle", "working", "completing", "answered"},
                 queue : SUBSET CommandIds, command : 0..MaxCommands, slot : 0..Capacity,
                 reply : {"none", "ok", "refused"}]

\* The box frees a slot whenever it is not told that the enrolment stands, so it
\* can answer for its reader as long as it is not cut off in between.
Careful == kind = "ESP32" /\ ~cutOff

\* A slot the reader would match resolves, in findFingerprintHolder, to the student
\* whose finger is in it or to nobody: no order of lost messages, cancellations
\* and reused slots makes a box record one student for another.
FingerCountsForItsOwner ==
  Careful /\ device.phase = "idle" =>
    \A k \in Slots, e \in DOMAIN enrolments :
      template[k] # 0 /\ IsActive(e) /\ enrolments[e].slot = k =>
        enrolments[e].student = commands[template[k]].student

\* "No orphan template": what an idle box holds is either enrolled or named by a
\* removal nobody has carried out, and the box knows the slot it must free.
NoOrphanTemplate ==
  Careful /\ device.phase = "idle" =>
    \A k \in Slots : template[k] # 0 =>
      \E e \in DOMAIN enrolments :
        /\ enrolments[e].command = template[k]
        /\ slotMap[e] = k
        /\ \A c \in DOMAIN commands :
             commands[c].kind = "DELETE" /\ commands[c].enrolment = e =>
               commands[c].status # "DONE"

\* A command that was withdrawn, failed or done stays that: a device still working
\* through a list fetched earlier, or repeating a report, enrols nobody for it.
SettledIsFinal ==
  [][\A c \in DOMAIN commands :
       commands[c].status # "PENDING" =>
         /\ commands'[c] = commands[c]
         /\ \A e \in DOMAIN enrolments' :
              enrolments'[e].command = c => e \in DOMAIN enrolments]_vars

\* The command names the enrolment and the device frees that enrolment's slot:
\* carrying out a removal takes no other finger off the reader.
RemovalErasesOnlyItsOwn ==
  [][\A c \in CommandIds, k \in Slots :
       EraseFinger(c) /\ template[k] # 0 /\ template'[k] = 0 =>
         template[k] = enrolments[commands[c].enrolment].command]_vars

\* The removal was reported done, and the finger of its enrolment is in no slot.
CarriedOut(c) ==
  /\ c \in DOMAIN commands /\ commands[c].status = "DONE"
  /\ \A k \in Slots : template[k] # enrolments[commands[c].enrolment].command

Withdrawn(c) == c \in DOMAIN commands /\ commands[c].status = "CANCELLED"

\* A queued removal is offered at every heartbeat until its report is taken, whatever
\* messages are lost, and then the finger it was for is off the reader: it may not
\* come to nothing on a box whose reader works and that is not cut off, unless the
\* officer withdraws it.
RemovalsHappen ==
  \A c \in CommandIds :
    IsPending(c) /\ commands[c].kind = "DELETE" ~> CarriedOut(c) \/ Withdrawn(c) \/ ~Careful

=============================================================================
