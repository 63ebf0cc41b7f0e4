---------------------------- MODULE DeviceProofs ----------------------------
(* What holds of a terminal and of the fingers enrolled on it, for any      *)
(* number of devices, students, slots and commands, whatever is lost.       *)
EXTENDS Terminals, FingerprintEnrolment, FiniteSetTheorems, SequenceTheorems, TLAPS

-----------------------------------------------------------------------------
(* Terminals.                                                               *)

USE TerminalAssumption

-----------------------------------------------------------------------------
(* Shapes.                                                                 *)

LEMMA InitTypeOK == TerminalInit => TerminalTypeOK
<1> SUFFICES ASSUME TerminalInit PROVE TerminalTypeOK
  OBVIOUS
<1>1. 0 \in 0..MaxCodes
  OBVIOUS
<1>2. row \in [status : {"NONE", "PENDING", "ACTIVE", "LOST", "RETIRED"},
              code : 0..MaxCodes, key : 0..MaxCodes, linked : Classes \cup {NoClass}]
  BY <1>1 DEF TerminalInit, Unregistered
<1>3. call \in [Calls -> Frames]
  BY DEF TerminalInit, Frames
<1>4. QED
  BY <1>1, <1>2, <1>3 DEF TerminalInit, TerminalTypeOK

LEMMA NextTypeOK == TerminalTypeOK /\ [TerminalNext]_terminalVars => TerminalTypeOK'
<1> SUFFICES ASSUME TerminalTypeOK, [TerminalNext]_terminalVars PROVE TerminalTypeOK'
  OBVIOUS
<1> USE DEF TerminalTypeOK
<1>1. CASE TerminalOfficerStep
  <2>1. CASE CreateTerminal
    BY <2>1 DEF CreateTerminal, NewCode
  <2>2. ASSUME NEW o \in Officers, NEW op \in {"pair", "LOST", "RETIRED"}, ReadRow(o, op)
        PROVE  TerminalTypeOK'
    BY <2>2 DEF ReadRow
  <2>3. ASSUME NEW o \in Officers, IssuePairing(o) PROVE TerminalTypeOK'
    <3>1. issued + 1 \in 0..MaxCodes /\ 0 \in 0..MaxCodes
      BY <2>3 DEF IssuePairing
    <3>2. row' \in [status : {"NONE", "PENDING", "ACTIVE", "LOST", "RETIRED"},
                   code : 0..MaxCodes, key : 0..MaxCodes, linked : Classes \cup {NoClass}]
      BY <2>3, <3>1 DEF IssuePairing, NewCode
    <3>3. QED
      BY <2>3, <3>1, <3>2 DEF IssuePairing
  <2>4. ASSUME NEW o \in Officers, Decommission(o) PROVE TerminalTypeOK'
    BY <2>4 DEF Decommission
  <2>5. CASE CodeExpires
    BY <2>5 DEF CodeExpires
  <2>6. QED
    BY <1>1, <2>1, <2>2, <2>3, <2>4, <2>5 DEF TerminalOfficerStep
<1>2. CASE LecturerStep
  BY <1>2 DEF LecturerStep, ShowLinkCode, LinkCodeExpires, ClassEnds
<1>3. CASE TerminalDeviceStep
  <2>1. ASSUME NEW d \in Devices, NEW n \in 1..MaxCodes, NEW lost \in BOOLEAN, Pair(d, n, lost)
        PROVE  TerminalTypeOK'
    <3>1. n \in 0..MaxCodes /\ 0 \in 0..MaxCodes
      OBVIOUS
    <3>2. keyOf' \in [Devices -> 0..MaxCodes]
      BY <2>1, <3>1 DEF Pair
    <3>3. row' \in [status : {"NONE", "PENDING", "ACTIVE", "LOST", "RETIRED"},
                   code : 0..MaxCodes, key : 0..MaxCodes, linked : Classes \cup {NoClass}]
      BY <2>1, <3>1 DEF Pair
    <3>4. QED
      BY <2>1, <3>2, <3>3 DEF Pair
  <2>2. ASSUME NEW d \in Devices, Unpair(d) PROVE TerminalTypeOK'
    BY <2>2 DEF Unpair
  <2>3. ASSUME NEW x \in Calls, NEW d \in Devices,
               NEW op \in {"heartbeat", "checkIn", "link", "unlink"}, Authenticate(x, d, op)
        PROVE  TerminalTypeOK'
    BY <2>3 DEF Authenticate, Frames
  <2>4. ASSUME NEW x \in Calls, Answer(x) PROVE TerminalTypeOK'
    <3>1. CASE UseClass(x)
      BY <3>1 DEF UseClass, Done, Frames
    <3>2. CASE NoClassLinked(x)
      BY <3>2 DEF NoClassLinked, Done, Frames
    <3>3. CASE FindOver(x)
      BY <3>3 DEF FindOver, Frames
    <3>4. ASSUME NEW c \in Classes, CheckLinkCode(x, c) PROVE TerminalTypeOK'
      BY <3>4 DEF CheckLinkCode, Frames
    <3>5. CASE SetLinkedSession(x)
      BY <3>5 DEF SetLinkedSession, Done, Frames
    <3>6. QED
      BY <2>4, <3>1, <3>2, <3>3, <3>4, <3>5 DEF Answer
  <2>5. QED
    BY <1>3, <2>1, <2>2, <2>3, <2>4 DEF TerminalDeviceStep
<1>4. CASE UNCHANGED terminalVars
  BY <1>4 DEF terminalVars
<1>5. QED
  BY <1>1, <1>2, <1>3, <1>4 DEF TerminalNext

\* The terminals row, the frames and what the devices keep have their shapes, for
\* any number of each.
THEOREM TerminalTypes == TerminalSpec => []TerminalTypeOK
<1>1. QED
  BY InitTypeOK, NextTypeOK, PTL DEF TerminalSpec

-----------------------------------------------------------------------------
(* One device at a time: no device keeps a key from a code still unused, and *)
(* no two devices keep a key from the same code.                            *)

OneKeyPerCode ==
  /\ row.status = "NONE" => issued = 0
  /\ row.code # 0 => row.code = issued /\ row.status = "PENDING"
  /\ row.key # 0 => row.key = issued /\ row.status = "ACTIVE"
  /\ \A d \in Devices : keyOf[d] <= issued
  /\ \A d \in Devices : row.code # 0 => keyOf[d] # row.code
  /\ \A d, e \in Devices : keyOf[d] # 0 /\ keyOf[d] = keyOf[e] => d = e

LEMMA NextOneKey == TerminalTypeOK /\ OneKeyPerCode /\ [TerminalNext]_terminalVars => OneKeyPerCode'
<1> SUFFICES ASSUME TerminalTypeOK, OneKeyPerCode, [TerminalNext]_terminalVars PROVE OneKeyPerCode'
  OBVIOUS
<1> USE DEF OneKeyPerCode, TerminalTypeOK
<1>1. CASE TerminalOfficerStep
  <2>1. CASE CreateTerminal
    BY <2>1 DEF CreateTerminal, NewCode
  <2>2. ASSUME NEW o \in Officers, NEW op \in {"pair", "LOST", "RETIRED"}, ReadRow(o, op)
        PROVE  OneKeyPerCode'
    BY <2>2 DEF ReadRow
  <2>3. ASSUME NEW o \in Officers, IssuePairing(o) PROVE OneKeyPerCode'
    BY <2>3 DEF IssuePairing, NewCode
  <2>4. ASSUME NEW o \in Officers, Decommission(o) PROVE OneKeyPerCode'
    BY <2>4 DEF Decommission
  <2>5. CASE CodeExpires
    BY <2>5 DEF CodeExpires
  <2>6. QED
    BY <1>1, <2>1, <2>2, <2>3, <2>4, <2>5 DEF TerminalOfficerStep
<1>2. CASE LecturerStep
  BY <1>2 DEF LecturerStep, ShowLinkCode, LinkCodeExpires, ClassEnds
<1>3. CASE TerminalDeviceStep
  <2>1. ASSUME NEW d \in Devices, NEW n \in 1..MaxCodes, NEW lost \in BOOLEAN, Pair(d, n, lost)
        PROVE  OneKeyPerCode'
    BY <2>1 DEF Pair, Pairs
  <2>2. ASSUME NEW d \in Devices, Unpair(d) PROVE OneKeyPerCode'
    BY <2>2 DEF Unpair
  <2>3. ASSUME NEW x \in Calls, NEW d \in Devices,
               NEW op \in {"heartbeat", "checkIn", "link", "unlink"}, Authenticate(x, d, op)
        PROVE  OneKeyPerCode'
    BY <2>3 DEF Authenticate
  <2>4. ASSUME NEW x \in Calls, Answer(x) PROVE OneKeyPerCode'
    BY <2>4 DEF Answer, UseClass, NoClassLinked, FindOver, CheckLinkCode, SetLinkedSession
  <2>5. QED
    BY <1>3, <2>1, <2>2, <2>3, <2>4 DEF TerminalDeviceStep
<1>4. CASE UNCHANGED terminalVars
  BY <1>4 DEF terminalVars
<1>5. QED
  BY <1>1, <1>2, <1>3, <1>4 DEF TerminalNext

\* The server takes at most one device for this terminal, the one that traded the
\* newest code, whatever codes were issued, copied, expired or taken back before.
THEOREM OneDeviceAtATime == TerminalSpec => []OneDevicePaired
<1>1. TerminalInit => OneKeyPerCode
  BY DEF TerminalInit, Unregistered, OneKeyPerCode
<1>2. TerminalTypeOK /\ OneKeyPerCode => OneDevicePaired
  BY DEF TerminalTypeOK, OneKeyPerCode, OneDevicePaired, Accepted
<1>3. QED
  BY <1>1, <1>2, NextOneKey, TerminalTypes, PTL DEF TerminalSpec

-----------------------------------------------------------------------------
(* The department's own classes.                                           *)

OwnLinks ==
  /\ row.linked \in OwnClasses \cup {NoClass}
  /\ \A x \in Calls : call[x].op # "idle" => call[x].linked \in OwnClasses \cup {NoClass}
  /\ \A r \in recorded : r[2] \in OwnClasses

LEMMA NextOwnLinks == TerminalTypeOK /\ OwnLinks /\ [TerminalNext]_terminalVars => OwnLinks'
<1> SUFFICES ASSUME TerminalTypeOK, OwnLinks, [TerminalNext]_terminalVars PROVE OwnLinks'
  OBVIOUS
<1> USE DEF OwnLinks, TerminalTypeOK
<1>1. CASE TerminalOfficerStep
  BY <1>1 DEF TerminalOfficerStep, CreateTerminal, NewCode, ReadRow, IssuePairing, Decommission, CodeExpires
<1>2. CASE LecturerStep
  BY <1>2 DEF LecturerStep, ShowLinkCode, LinkCodeExpires, ClassEnds
<1>3. CASE TerminalDeviceStep
  <2>1. ASSUME NEW d \in Devices, NEW n \in 1..MaxCodes, NEW lost \in BOOLEAN,
               Pair(d, n, lost) \/ Unpair(d)
        PROVE  OwnLinks'
    BY <2>1 DEF Pair, Unpair
  <2>2. ASSUME NEW x \in Calls, NEW d \in Devices,
               NEW op \in {"heartbeat", "checkIn", "link", "unlink"}, Authenticate(x, d, op)
        PROVE  OwnLinks'
    BY <2>2 DEF Authenticate
  <2>3. ASSUME NEW x \in Calls, Answer(x) PROVE OwnLinks'
    <3>1. CASE UseClass(x)
      <4>1. \A r \in recorded' : r[2] \in OwnClasses
        BY <3>1 DEF UseClass
      <4>2. QED
        BY <3>1, <4>1 DEF UseClass, Done
    <3>2. CASE NoClassLinked(x)
      BY <3>2 DEF NoClassLinked, Done
    <3>3. CASE FindOver(x)
      BY <3>3 DEF FindOver, Frames
    <3>4. ASSUME NEW c \in Classes, CheckLinkCode(x, c) PROVE OwnLinks'
      BY <3>4 DEF CheckLinkCode, MayLink
    <3>5. CASE SetLinkedSession(x)
      BY <3>5 DEF SetLinkedSession, Done
    <3>6. QED
      BY <2>3, <3>1, <3>2, <3>3, <3>4, <3>5 DEF Answer
  <2>4. QED
    BY <1>3, <2>1, <2>2, <2>3 DEF TerminalDeviceStep
<1>4. CASE UNCHANGED terminalVars
  BY <1>4 DEF terminalVars
<1>5. QED
  BY <1>1, <1>2, <1>3, <1>4 DEF TerminalNext

\* A terminal records for its own department's classes only, however its links,
\* check-ins and re-pairings overlap.
THEOREM OwnClassesOnly == TerminalSpec => []RecordsForOwnClasses
<1>1. TerminalInit => OwnLinks
  BY DEF TerminalInit, Unregistered, OwnLinks
<1>2. OwnLinks => RecordsForOwnClasses
  BY DEF OwnLinks, RecordsForOwnClasses
<1>3. QED
  BY <1>1, <1>2, NextOwnLinks, TerminalTypes, PTL DEF TerminalSpec

-----------------------------------------------------------------------------
(* Fingers.                                                                 *)

USE FingerprintAssumption

EnrolmentRows == [student : Students, slot : Slots,
                  status : {"ACTIVE", "REVOKED"}, command : CommandIds]
CommandRows == [kind : {"ENROL", "DELETE"}, student : Students, enrolment : Nat,
                status : {"PENDING", "DONE", "FAILED", "CANCELLED"}]
DeviceFrames == [phase : {"idle", "working", "completing", "answered"},
                 queue : SUBSET CommandIds, command : 0..MaxCommands, slot : 0..Capacity,
                 reply : {"none", "ok", "refused"}]

-----------------------------------------------------------------------------
(* Every reference in the rows and in the device resolves.                 *)

InAnswer == device.phase \in {"completing", "answered"}

\* A removal names an enrolment.
RemovalsNamed ==
  \A c \in DOMAIN commands :
    commands[c].kind = "DELETE" => commands[c].enrolment \in CommandIds

Resolved ==
  /\ device.queue \subseteq DOMAIN commands
  /\ InAnswer => /\ device.command \in DOMAIN commands
                 /\ commands[device.command].kind = "ENROL" => device.slot \in Slots
  /\ RemovalsNamed
  /\ \A e \in DOMAIN enrolments :
       /\ enrolments[e].command \in DOMAIN commands
       /\ enrolments[e].student = commands[enrolments[e].command].student

\* Commands are only added, and what one asks for does not change.
CommandsKept ==
  /\ DOMAIN commands \subseteq DOMAIN commands'
  /\ \A c \in DOMAIN commands :
       commands'[c].kind = commands[c].kind /\ commands'[c].student = commands[c].student

\* Enrolments likewise.
EnrolmentsKept ==
  /\ DOMAIN enrolments' = DOMAIN enrolments
  /\ \A e \in DOMAIN enrolments :
       /\ enrolments'[e].command = enrolments[e].command
       /\ enrolments'[e].student = enrolments[e].student

\* The device goes on with less of its list, and with no other command in hand.
LessToDo ==
  /\ device'.queue \subseteq device.queue
  /\ InAnswer' => InAnswer /\ device'.command = device.command /\ device'.slot = device.slot

LEMMA StaysResolved ==
  ASSUME Resolved, CommandsKept, EnrolmentsKept, LessToDo, RemovalsNamed'
  PROVE  Resolved'
BY DEF Resolved, CommandsKept, EnrolmentsKept, LessToDo

LEMMA Domains ==
  ASSUME TypeOK
  PROVE  /\ DOMAIN commands = 1..Len(commands) /\ Len(commands) \in Nat
         /\ DOMAIN commands \subseteq CommandIds
         /\ DOMAIN enrolments = 1..Len(enrolments) /\ Len(enrolments) \in Nat
         /\ \A c \in DOMAIN commands : commands[c] \in CommandRows
         /\ \A e \in DOMAIN enrolments : enrolments[e] \in EnrolmentRows
<1>1. commands \in Seq(CommandRows) /\ enrolments \in Seq(EnrolmentRows)
      /\ Len(commands) <= MaxCommands
  BY DEF TypeOK, CommandRows, EnrolmentRows
<1>2. QED
  BY <1>1, LenProperties, ElementOfSeq DEF CommandIds

\* A command queued by the officer.
LEMMA Queued ==
  ASSUME TypeOK, NEW entry \in CommandRows, Len(commands) < MaxCommands,
         commands' = Append(commands, entry)
  PROVE  /\ commands' \in Seq(CommandRows) /\ Len(commands') <= MaxCommands
         /\ CommandsKept
         /\ RemovalsNamed /\ (entry.kind = "DELETE" => entry.enrolment \in CommandIds) => RemovalsNamed'
<1>1. commands \in Seq(CommandRows)
  BY DEF TypeOK, CommandRows
<1>2. /\ commands' \in Seq(CommandRows) /\ Len(commands') = Len(commands) + 1
      /\ DOMAIN commands' = 1..(Len(commands) + 1)
      /\ \A c \in DOMAIN commands : commands'[c] = commands[c]
      /\ commands'[Len(commands) + 1] = entry
  BY <1>1, Domains, AppendProperties, LenProperties
<1>3. DOMAIN commands' = DOMAIN commands \cup {Len(commands) + 1}
  BY <1>2, Domains
<1>4. QED
  BY <1>2, <1>3, Domains DEF CommandsKept, RemovalsNamed

\* A command settled by the officer or by the device's report.
LEMMA Settled ==
  ASSUME TypeOK, NEW c \in DOMAIN commands, NEW entry \in CommandRows,
         entry.kind = commands[c].kind, entry.student = commands[c].student,
         entry.kind = "DELETE" => entry.enrolment = commands[c].enrolment,
         commands' = [commands EXCEPT ![c] = entry]
  PROVE  /\ commands' \in Seq(CommandRows) /\ Len(commands') <= MaxCommands
         /\ CommandsKept
         /\ RemovalsNamed => RemovalsNamed'
<1>1. commands \in Seq(CommandRows) /\ Len(commands) <= MaxCommands /\ c \in 1..Len(commands)
  BY Domains DEF TypeOK, CommandRows
<1>2. /\ commands' \in Seq(CommandRows) /\ Len(commands') = Len(commands)
      /\ DOMAIN commands' = DOMAIN commands
      /\ \A d \in DOMAIN commands : commands'[d] = IF d = c THEN entry ELSE commands[d]
  BY <1>1, Domains, ExceptSeq, LenProperties
<1>3. QED
  BY <1>1, <1>2 DEF CommandsKept, RemovalsNamed

-----------------------------------------------------------------------------
(* Shapes and references, step by step.                                    *)

LEMMA RestSound ==
  ASSUME TypeOK, NEW c
  PROVE  /\ Rest(c) \in DeviceFrames
         /\ Rest(c).queue \subseteq device.queue
         /\ Rest(c).phase \in {"idle", "working"}
<1>1. device.queue \in SUBSET CommandIds /\ 0 \in 0..MaxCommands /\ 0 \in 0..Capacity
  BY DEF TypeOK
<1>2. Idle \in DeviceFrames
  BY <1>1 DEF Idle, DeviceFrames
<1>3. CASE device.queue = {c}
  BY <1>1, <1>2, <1>3 DEF Rest, Idle
<1>4. CASE device.queue # {c}
  BY <1>1, <1>2, <1>4 DEF Rest, Idle, DeviceFrames
<1>5. QED
  BY <1>3, <1>4

\* What a step must leave in place.
Kept == TypeOK' /\ Resolved' /\ CommandsKept

LEMMA OfficerSound ==
  ASSUME TypeOK, Resolved, OfficerStep
  PROVE  Kept
<1> USE DEF Kept
<1>1. ASSUME NEW s \in Students, RequestEnrolment(s) PROVE Kept
  BY <1>1 DEF RequestEnrolment, TypeOK, Resolved, RemovalsNamed, CommandsKept, InAnswer
<1>2. ASSUME QueueEnrolment PROVE Kept
  <2> DEFINE entry == [kind |-> "ENROL", student |-> request, enrolment |-> 0, status |-> "PENDING"]
  <2>1. entry \in CommandRows
    BY <1>2 DEF QueueEnrolment, CommandRows, TypeOK
  <2>2. CASE commands' = commands
    BY <1>2, <2>2 DEF QueueEnrolment, TypeOK, Resolved, RemovalsNamed, CommandsKept, InAnswer
  <2>3. CASE commands' = Append(commands, entry)
    <3>1. CommandsKept /\ RemovalsNamed'
      BY <1>2, <2>1, <2>3, Queued DEF QueueEnrolment, Resolved
    <3>2. TypeOK'
      BY <1>2, <2>1, <2>3, Queued DEF QueueEnrolment, CommandRows, TypeOK
    <3>3. EnrolmentsKept /\ LessToDo
      BY <1>2 DEF QueueEnrolment, EnrolmentsKept, LessToDo, InAnswer
    <3>4. QED
      BY <3>1, <3>2, <3>3, StaysResolved
  <2>4. QED
    BY <1>2, <2>2, <2>3 DEF QueueEnrolment
<1>3. ASSUME NEW c \in CommandIds, Cancel(c) PROVE Kept
  <2> DEFINE entry == [commands[c] EXCEPT !.status = "CANCELLED"]
  <2>1. /\ c \in DOMAIN commands /\ entry \in CommandRows /\ entry.kind = commands[c].kind
        /\ entry.student = commands[c].student /\ entry.enrolment = commands[c].enrolment
    BY <1>3, Domains DEF Cancel, IsPending, CommandRows
  <2>2. commands' = [commands EXCEPT ![c] = entry]
    BY <1>3 DEF Cancel
  <2>3. CommandsKept /\ RemovalsNamed'
    BY <2>1, <2>2, Settled DEF Resolved
  <2>4. TypeOK'
    BY <1>3, <2>1, <2>2, Settled DEF Cancel, CommandRows, TypeOK
  <2>5. EnrolmentsKept /\ LessToDo
    BY <1>3 DEF Cancel, EnrolmentsKept, LessToDo, InAnswer
  <2>6. QED
    BY <2>3, <2>4, <2>5, StaysResolved
<1>4. ASSUME NEW e \in CommandIds, Revoke(e) PROVE Kept
  <2> DEFINE entry == [kind |-> "DELETE", student |-> enrolments[e].student,
                     enrolment |-> e, status |-> "PENDING"]
             revoked == [enrolments[e] EXCEPT !.status = "REVOKED"]
  <2>1. e \in DOMAIN enrolments /\ enrolments[e] \in EnrolmentRows
    BY <1>4, Domains DEF Revoke, IsActive
  <2>2. revoked \in EnrolmentRows
    BY <2>1 DEF EnrolmentRows
  <2>3. entry \in CommandRows
    BY <2>1 DEF CommandRows, EnrolmentRows, CommandIds
  <2>4. commands' = Append(commands, entry) /\ enrolments' = [enrolments EXCEPT ![e] = revoked]
    BY <1>4 DEF Revoke
  <2>5. /\ enrolments' \in Seq(EnrolmentRows) /\ DOMAIN enrolments' = DOMAIN enrolments
        /\ \A d \in DOMAIN enrolments : enrolments'[d] = IF d = e THEN revoked ELSE enrolments[d]
    <3>1. enrolments \in Seq(EnrolmentRows) /\ e \in 1..Len(enrolments)
      BY <2>1, Domains DEF EnrolmentRows, TypeOK
    <3>2. QED
      BY <2>2, <2>4, <3>1, Domains, ExceptSeq, LenProperties
  <2>6. EnrolmentsKept /\ LessToDo
    BY <1>4, <2>1, <2>5 DEF Revoke, EnrolmentsKept, LessToDo, InAnswer, EnrolmentRows
  <2>7. CommandsKept /\ RemovalsNamed'
    BY <1>4, <2>3, <2>4, Queued DEF Revoke, Resolved
  <2>8. TypeOK'
    BY <1>4, <2>3, <2>4, <2>5, Queued DEF Revoke, CommandRows, EnrolmentRows, TypeOK
  <2>9. QED
    BY <2>6, <2>7, <2>8, StaysResolved
<1>5. QED
  BY <1>1, <1>2, <1>3, <1>4 DEF OfficerStep

LEMMA DeviceSound ==
  ASSUME TypeOK, Resolved, Fetch \/ DeviceStep \/ LoseRequest \/ LosePower
  PROVE  Kept
<1> USE DEF Kept
<1>1. ASSUME Fetch PROVE Kept
  <2>1. {c \in DOMAIN commands : IsPending(c)} \subseteq DOMAIN commands
        /\ DOMAIN commands \subseteq CommandIds
    BY Domains
  <2>2. QED
    BY <1>1, <2>1 DEF Fetch, TypeOK, Resolved, RemovalsNamed, CommandsKept, InAnswer
<1>2. ASSUME NEW c \in CommandIds, NEW k \in FreeSlots, TakeFinger(c, k)
      PROVE  Kept
  <2>1. k \in Slots /\ k \in 0..Capacity /\ c \in 0..MaxCommands /\ c \in DOMAIN commands
    BY <1>2 DEF FreeSlots, Slots, CommandIds, TakeFinger, NextUp, Resolved
  <2>2. template' \in [Slots -> 0..MaxCommands] /\ device' \in DeviceFrames
    BY <1>2, <2>1 DEF TakeFinger, Working, TypeOK, DeviceFrames
  <2>3. TypeOK' /\ CommandsKept
    BY <1>2, <2>2 DEF TakeFinger, TypeOK, CommandsKept, DeviceFrames
  <2>4. Resolved'
    BY <1>2, <2>1 DEF TakeFinger, Working, Resolved, RemovalsNamed, InAnswer, TypeOK
  <2>5. QED
    BY <2>3, <2>4
<1>3. ASSUME NEW c \in CommandIds, NEW lost \in BOOLEAN, Decline(c, lost)
      PROVE  Kept
  <2> DEFINE entry == [commands[c] EXCEPT !.status = "FAILED"]
  <2>1. c \in DOMAIN commands
    BY <1>3 DEF Decline, NextUp, Resolved
  <2>2. /\ entry \in CommandRows /\ entry.kind = commands[c].kind
        /\ entry.student = commands[c].student /\ entry.enrolment = commands[c].enrolment
    BY <2>1, Domains DEF CommandRows
  <2>3. device' \in DeviceFrames /\ LessToDo /\ EnrolmentsKept
    BY <1>3, RestSound DEF Decline, LessToDo, EnrolmentsKept, InAnswer
  <2>4. CommandsKept /\ RemovalsNamed' /\ commands' \in Seq(CommandRows) /\ Len(commands') <= MaxCommands
    <3>1. CASE commands' = commands
      BY <3>1 DEF Resolved, RemovalsNamed, CommandsKept, TypeOK, CommandRows
    <3>2. CASE commands' = [commands EXCEPT ![c] = entry]
      BY <2>1, <2>2, <3>2, Settled DEF Resolved
    <3>3. QED
      BY <1>3, <3>1, <3>2 DEF Decline
  <2>5. TypeOK'
    BY <1>3, <2>3, <2>4 DEF Decline, CommandRows, DeviceFrames, TypeOK
  <2>6. QED
    BY <2>3, <2>4, <2>5, StaysResolved
<1>4. ASSUME NEW c \in CommandIds, EraseFinger(c) PROVE Kept
  <2> DEFINE k == slotMap[commands[c].enrolment]
  <2>1. c \in DOMAIN commands /\ commands[c].kind = "DELETE"
    BY <1>4 DEF EraseFinger, NextUp, Resolved
  <2>2. k \in 0..Capacity /\ c \in 0..MaxCommands
    BY <2>1 DEF Resolved, RemovalsNamed, TypeOK, CommandIds
  <2>3. template' = [i \in Slots |-> IF i = k THEN 0 ELSE template[i]]
        /\ device' = [device EXCEPT !.phase = "completing", !.command = c, !.slot = k]
    BY <1>4 DEF EraseFinger, Working
  <2>4. template' \in [Slots -> 0..MaxCommands]
    <3>1. \A i \in Slots : template[i] \in 0..MaxCommands /\ 0 \in 0..MaxCommands
      BY DEF TypeOK
    <3>2. QED
      BY <2>3, <3>1
  <2>5. device' \in DeviceFrames
    BY <2>2, <2>3 DEF TypeOK, DeviceFrames
  <2>6. TypeOK' /\ CommandsKept
    BY <1>4, <2>4, <2>5 DEF EraseFinger, TypeOK, CommandsKept, DeviceFrames
  <2>7. Resolved'
    BY <1>4, <2>1, <2>3 DEF EraseFinger, Resolved, RemovalsNamed, InAnswer, TypeOK
  <2>8. QED
    BY <2>6, <2>7
<1>5. ASSUME FinishEnrolment \/ FinishRemoval PROVE Kept
  <2>1. device' \in DeviceFrames /\ LessToDo /\ EnrolmentsKept
    BY <1>5, RestSound DEF FinishEnrolment, FinishRemoval, LessToDo, EnrolmentsKept, InAnswer
  <2>2. device.slot \in 0..Capacity /\ 0 \in 0..MaxCommands /\ 0 \in 0..Capacity
    BY DEF TypeOK
  <2>3. slotMap' \in [CommandIds -> 0..Capacity] /\ template' \in [Slots -> 0..MaxCommands]
    <3>1. slotMap \in [CommandIds -> 0..Capacity] /\ template \in [Slots -> 0..MaxCommands]
      BY DEF TypeOK
    <3>2. CASE FinishEnrolment
      BY <2>2, <3>1, <3>2 DEF FinishEnrolment
    <3>3. CASE FinishRemoval
      BY <2>2, <3>1, <3>3 DEF FinishRemoval
    <3>4. QED
      BY <1>5, <3>2, <3>3
  <2>4. TypeOK'
    BY <1>5, <2>1, <2>3 DEF FinishEnrolment, FinishRemoval, TypeOK, DeviceFrames
  <2>5. CommandsKept /\ RemovalsNamed'
    BY <1>5 DEF FinishEnrolment, FinishRemoval, CommandsKept, Resolved, RemovalsNamed
  <2>6. QED
    BY <2>1, <2>4, <2>5, StaysResolved
<1>6. ASSUME LoseRequest PROVE Kept
  BY <1>6 DEF LoseRequest, Answered, TypeOK, Resolved, RemovalsNamed, CommandsKept, InAnswer
<1>7. ASSUME LosePower PROVE Kept
  BY <1>7 DEF LosePower, Idle, TypeOK, Resolved, RemovalsNamed, CommandsKept, InAnswer
<1>8. QED
  BY <1>1, <1>2, <1>3, <1>4, <1>5, <1>6, <1>7 DEF DeviceStep

LEMMA CompleteSound ==
  ASSUME TypeOK, Resolved, NEW c \in CommandIds, NEW lost \in BOOLEAN, Complete(c, lost)
  PROVE  Kept
<1> USE DEF Kept
<1>1. c \in DOMAIN commands /\ commands[c] \in CommandRows /\ InAnswer /\ device.command = c
  BY Domains DEF Complete, CompleteEnrolment, CompleteRemoval, InHand, Resolved, InAnswer
<1>2. \E reply \in {"ok", "refused"} : Answered(reply, lost)
  BY DEF Complete, CompleteEnrolment, CompleteRemoval, RemovalReplies
<1>3. device' \in DeviceFrames /\ LessToDo
  BY <1>1, <1>2 DEF Answered, DeviceFrames, LessToDo, InAnswer, TypeOK
<1>4. CASE commands' = commands /\ enrolments' = enrolments
  <2>1. TypeOK'
    BY <1>3, <1>4 DEF Complete, CompleteEnrolment, CompleteRemoval, DeviceFrames, TypeOK
  <2>2. EnrolmentsKept /\ CommandsKept /\ RemovalsNamed'
    BY <1>4 DEF EnrolmentsKept, CommandsKept, RemovalsNamed, Resolved
  <2>3. QED
    BY <1>3, <2>1, <2>2, StaysResolved
<1>5. CASE CompleteEnrolment(c, lost) /\ Accepts(c, device.slot)
  <2> DEFINE entry == [commands[c] EXCEPT !.status = "DONE", !.enrolment = Len(enrolments) + 1]
             new == [student |-> commands[c].student, slot |-> device.slot,
                     status |-> "ACTIVE", command |-> c]
  <2>1. commands[c].kind = "ENROL" /\ device.slot \in Slots
    BY <1>1, <1>5 DEF CompleteEnrolment, Resolved
  <2>2. /\ entry \in CommandRows /\ entry.kind = commands[c].kind
        /\ entry.student = commands[c].student
    <3>1. Len(enrolments) + 1 \in Nat
      BY Domains
    <3>2. \A n \in Nat : [commands[c] EXCEPT !.status = "DONE", !.enrolment = n] \in CommandRows
      BY <1>1 DEF CommandRows
    <3>3. QED
      BY <1>1, <3>1, <3>2 DEF CommandRows
  <2>3. new \in EnrolmentRows
    BY <1>1, <2>1 DEF CommandRows, EnrolmentRows
  <2>4. enrolments' = Append(enrolments, new) /\ commands' = [commands EXCEPT ![c] = entry]
    BY <1>5 DEF CompleteEnrolment
  <2>5. /\ enrolments' \in Seq(EnrolmentRows)
        /\ DOMAIN enrolments' = DOMAIN enrolments \cup {Len(enrolments) + 1}
        /\ \A e \in DOMAIN enrolments : enrolments'[e] = enrolments[e]
        /\ enrolments'[Len(enrolments) + 1] = new
    <3>1. enrolments \in Seq(EnrolmentRows)
      BY DEF EnrolmentRows, TypeOK
    <3>2. /\ enrolments' \in Seq(EnrolmentRows) /\ Len(enrolments') = Len(enrolments) + 1
          /\ \A e \in 1..Len(enrolments) : enrolments'[e] = enrolments[e]
          /\ enrolments'[Len(enrolments) + 1] = new
      BY <2>3, <2>4, <3>1, AppendProperties
    <3>3. DOMAIN enrolments' = 1..(Len(enrolments) + 1)
      BY <3>2, LenProperties
    <3>4. QED
      BY <3>2, <3>3, Domains
  <2>6. CommandsKept /\ RemovalsNamed' /\ commands' \in Seq(CommandRows) /\ Len(commands') <= MaxCommands
    BY <1>1, <2>1, <2>2, <2>4, Settled DEF Resolved
  <2>7. TypeOK'
    BY <1>3, <1>5, <2>5, <2>6 DEF CompleteEnrolment, CommandRows, EnrolmentRows, DeviceFrames, TypeOK
  <2>8. /\ device'.queue \subseteq DOMAIN commands'
        /\ InAnswer' => /\ device'.command \in DOMAIN commands'
                        /\ commands'[device'.command].kind = "ENROL" => device'.slot \in Slots
    BY <1>1, <1>3, <2>1, <2>6 DEF LessToDo, Resolved, CommandsKept, InAnswer
  <2>9. \A e \in DOMAIN enrolments' :
          /\ enrolments'[e].command \in DOMAIN commands'
          /\ enrolments'[e].student = commands'[enrolments'[e].command].student
    BY <1>1, <2>5, <2>6 DEF Resolved, CommandsKept
  <2>10. Resolved'
    BY <2>6, <2>8, <2>9 DEF Resolved
  <2>11. QED
    BY <2>6, <2>7, <2>10
<1>6. CASE CompleteRemoval(c, lost) /\ IsPending(c)
  <2> DEFINE entry == [commands[c] EXCEPT !.status = "DONE"]
  <2>1. /\ entry \in CommandRows /\ entry.kind = commands[c].kind
        /\ entry.student = commands[c].student /\ entry.enrolment = commands[c].enrolment
    BY <1>1 DEF CommandRows
  <2>2. commands' = [commands EXCEPT ![c] = entry]
    BY <1>6 DEF CompleteRemoval
  <2>3. CommandsKept /\ RemovalsNamed' /\ commands' \in Seq(CommandRows) /\ Len(commands') <= MaxCommands
    BY <1>1, <2>1, <2>2, Settled DEF Resolved
  <2>4. TypeOK'
    BY <1>3, <1>6, <2>3 DEF CompleteRemoval, CommandRows, DeviceFrames, TypeOK
  <2>5. EnrolmentsKept
    BY <1>6 DEF CompleteRemoval, EnrolmentsKept
  <2>6. QED
    BY <1>3, <2>3, <2>4, <2>5, StaysResolved
<1>7. QED
  BY <1>4, <1>5, <1>6 DEF Complete, CompleteEnrolment, CompleteRemoval

LEMMA InitSound == Init => TypeOK /\ Resolved
<1> SUFFICES ASSUME Init PROVE TypeOK /\ Resolved
  OBVIOUS
<1>1. << >> \in Seq(EnrolmentRows) /\ << >> \in Seq(CommandRows) /\ Len(<< >>) = 0
  BY EmptySeq
<1>2. DOMAIN commands = {} /\ DOMAIN enrolments = {}
  BY DEF Init
<1>3. 0 \in 0..MaxCommands /\ 0 \in 0..Capacity
  OBVIOUS
<1>4. device \in DeviceFrames
  BY <1>3 DEF Init, Idle, DeviceFrames
<1>5. TypeOK
  <2>1. enrolments \in Seq(EnrolmentRows) /\ commands \in Seq(CommandRows) /\ Len(commands) <= MaxCommands
    BY <1>1 DEF Init
  <2>2. template \in [Slots -> 0..MaxCommands] /\ slotMap \in [CommandIds -> 0..Capacity]
    BY <1>3 DEF Init
  <2>3. QED
    BY <1>4, <2>1, <2>2 DEF Init, TypeOK, EnrolmentRows, CommandRows, DeviceFrames
<1>6. Resolved
  BY <1>2 DEF Init, Idle, Resolved, RemovalsNamed, InAnswer
<1>7. QED
  BY <1>5, <1>6

LEMMA NextSound == TypeOK /\ Resolved /\ [Next]_vars => Kept
<1> SUFFICES ASSUME TypeOK, Resolved, [Next]_vars PROVE Kept
  OBVIOUS
<1>1. CASE UNCHANGED vars
  BY <1>1 DEF Kept, vars, TypeOK, Resolved, RemovalsNamed, CommandsKept, InAnswer
<1>2. QED
  BY <1>1, OfficerSound, DeviceSound, CompleteSound DEF Next

\* Rows, flashes and the device's frame keep their shapes.
THEOREM FingerprintTypes == Spec => []TypeOK
<1>1. TypeOK /\ Resolved /\ [Next]_vars => TypeOK' /\ Resolved'
  BY NextSound DEF Kept
<1>2. QED
  BY <1>1, InitSound, PTL DEF Spec

-----------------------------------------------------------------------------
(* The slots.                                                              *)

\* The slot a finger has just been taken into, until the device acts on the answer.
BeingEnrolled(k) ==
  InAnswer /\ commands[device.command].kind = "ENROL" /\ device.slot = k

Confirmed == device.phase = "answered" /\ device.reply = "ok"

\* A slot that is not being filled, or was filled and confirmed, is no enrolment's
\* but that of the finger in it.
SlotSettled(k) ==
  template[k] # 0 /\ (BeingEnrolled(k) => Confirmed) =>
    \A e \in DOMAIN enrolments :
      IsActive(e) /\ enrolments[e].slot = k => enrolments[e].command = template[k]

SlotsSettled ==
  Careful => \A k \in Slots : /\ BeingEnrolled(k) => template[k] = device.command
                              /\ SlotSettled(k)

\* No finger starts to count.
NobodyNew ==
  \A e \in DOMAIN enrolments' :
    IsActive(e)' => /\ IsActive(e)
                    /\ enrolments'[e].slot = enrolments[e].slot
                    /\ enrolments'[e].command = enrolments[e].command

LEMMA NobodyNewWhenSame == enrolments' = enrolments => NobodyNew
BY DEF NobodyNew, IsActive

LEMMA OfficerMovesNothing ==
  ASSUME TypeOK, Resolved, SlotsSettled, CommandsKept, NobodyNew,
         UNCHANGED <<kind, cutOff, template, device>>
  PROVE  SlotsSettled'
<1>1. \A k : BeingEnrolled(k)' <=> BeingEnrolled(k)
  BY DEF BeingEnrolled, InAnswer, Resolved, CommandsKept
<1>2. Confirmed' <=> Confirmed
  BY DEF Confirmed
<1>3. \A k : SlotSettled(k) => SlotSettled(k)'
  BY <1>1, <1>2 DEF SlotSettled, NobodyNew, IsActive
<1>4. QED
  BY <1>1, <1>3 DEF SlotsSettled, Careful

LEMMA OfficerSettled ==
  ASSUME TypeOK, Resolved, SlotsSettled, OfficerStep
  PROVE  SlotsSettled'
<1>1. CommandsKept
  BY OfficerSound DEF Kept
<1>2. UNCHANGED <<kind, cutOff, template, device>>
  BY DEF OfficerStep, RequestEnrolment, QueueEnrolment, Cancel, Revoke
<1>3. NobodyNew
  <2>1. CASE enrolments' = enrolments
    BY <2>1, NobodyNewWhenSame
  <2>2. ASSUME NEW e \in CommandIds, Revoke(e) PROVE NobodyNew
    <3>1. enrolments' = [enrolments EXCEPT ![e].status = "REVOKED"] /\ e \in DOMAIN enrolments
      BY <2>2 DEF Revoke, IsActive
    <3>2. \A d \in DOMAIN enrolments : enrolments[d] \in EnrolmentRows
      BY Domains
    <3>3. QED
      BY <3>1, <3>2 DEF NobodyNew, IsActive, EnrolmentRows
  <2>3. QED
    BY <2>1, <2>2 DEF OfficerStep, RequestEnrolment, QueueEnrolment, Cancel
<1>4. QED
  BY <1>1, <1>2, <1>3, OfficerMovesNothing

LEMMA DeviceSettled ==
  ASSUME TypeOK, Resolved, SlotsSettled, Fetch \/ DeviceStep \/ LoseRequest \/ LosePower
  PROVE  SlotsSettled'
<1>1. CommandsKept
  BY DeviceSound DEF Kept
<1>2. enrolments' = enrolments /\ kind' = kind /\ NobodyNew
  BY NobodyNewWhenSame
     DEF Fetch, DeviceStep, TakeFinger, Decline, EraseFinger, FinishEnrolment, FinishRemoval,
         LoseRequest, LosePower
<1>3. SUFFICES ASSUME Careful', NEW k \in Slots
               PROVE  (BeingEnrolled(k) => template[k] = device.command)' /\ SlotSettled(k)'
  BY DEF SlotsSettled
<1>4. Careful \/ LosePower
  BY <1>2, <1>3 DEF Careful, Fetch, DeviceStep, TakeFinger, Decline, EraseFinger, FinishEnrolment,
                    FinishRemoval, LoseRequest
<1>5. ~LosePower
  BY <1>3 DEF LosePower, Careful
<1>6. Careful /\ (BeingEnrolled(k) => template[k] = device.command) /\ SlotSettled(k)
  BY <1>4, <1>5 DEF SlotsSettled
<1>7. CASE Fetch \/ \E c \in CommandIds, lost \in BOOLEAN : Decline(c, lost)
  <2>1. template' = template /\ ~BeingEnrolled(k) /\ ~BeingEnrolled(k)'
    BY <1>7, RestSound DEF Fetch, Decline, NextUp, BeingEnrolled, InAnswer, TypeOK
  <2>2. QED
    BY <1>2, <1>6, <2>1 DEF SlotSettled, IsActive
<1>8. ASSUME NEW c \in CommandIds, NEW n \in FreeSlots, TakeFinger(c, n)
      PROVE  (BeingEnrolled(k) => template[k] = device.command)' /\ SlotSettled(k)'
  <2>1. /\ ~BeingEnrolled(k) /\ n \in Slots /\ c \in DOMAIN commands
        /\ device'.phase = "completing" /\ device'.command = c /\ device'.slot = n
    BY <1>8 DEF TakeFinger, Working, NextUp, BeingEnrolled, InAnswer, FreeSlots, Resolved, TypeOK
  <2>2. template' = [template EXCEPT ![n] = c] /\ template \in [Slots -> 0..MaxCommands]
        /\ commands' = commands /\ commands[c].kind = "ENROL"
    BY <1>8 DEF TakeFinger, TypeOK
  <2>3. CASE k = n
    BY <2>1, <2>2, <2>3 DEF BeingEnrolled, SlotSettled, Confirmed, InAnswer
  <2>4. CASE k # n
    BY <1>2, <1>6, <2>1, <2>2, <2>4 DEF BeingEnrolled, SlotSettled, IsActive
  <2>5. QED
    BY <2>3, <2>4
<1>9. ASSUME NEW c \in CommandIds, EraseFinger(c)
      PROVE  (BeingEnrolled(k) => template[k] = device.command)' /\ SlotSettled(k)'
  <2>1. ~BeingEnrolled(k) /\ ~BeingEnrolled(k)'
    BY <1>9 DEF EraseFinger, Working, NextUp, BeingEnrolled, InAnswer, TypeOK
  <2>2. template'[k] \in {0, template[k]}
    BY <1>9 DEF EraseFinger
  <2>3. QED
    BY <1>2, <1>6, <2>1, <2>2 DEF SlotSettled, IsActive
<1>10. CASE FinishRemoval
  <2>1. template' = template /\ ~BeingEnrolled(k) /\ ~BeingEnrolled(k)'
    BY <1>10, RestSound DEF FinishRemoval, BeingEnrolled, InAnswer
  <2>2. QED
    BY <1>2, <1>6, <2>1 DEF SlotSettled, IsActive
<1>11. CASE FinishEnrolment
  <2>1. ~BeingEnrolled(k)' /\ (BeingEnrolled(k) <=> k = device.slot)
    BY <1>11, RestSound DEF FinishEnrolment, BeingEnrolled, InAnswer
  <2>2. k = device.slot => Confirmed \/ template'[k] = 0
    <3>1. device.reply \in {"none", "ok", "refused"} /\ template \in [Slots -> 0..MaxCommands]
          /\ kind = "ESP32"
      BY <1>6 DEF TypeOK, Careful
    <3>2. QED
      BY <1>11, <3>1 DEF FinishEnrolment, FreesSlotOn, Confirmed
  <2>3. template'[k] \in {0, template[k]}
    BY <1>11 DEF FinishEnrolment, TypeOK
  <2>4. QED
    BY <1>2, <1>6, <2>1, <2>2, <2>3 DEF SlotSettled, IsActive
<1>12. CASE LoseRequest
  <2>1. /\ template' = template /\ commands' = commands
        /\ BeingEnrolled(k)' <=> BeingEnrolled(k)
        /\ device'.command = device.command /\ ~Confirmed /\ ~Confirmed'
    BY <1>12 DEF LoseRequest, Answered, BeingEnrolled, InAnswer, Confirmed, TypeOK
  <2>2. QED
    BY <1>2, <1>6, <2>1 DEF SlotSettled, IsActive
<1>13. QED
  BY <1>5, <1>7, <1>8, <1>9, <1>10, <1>11, <1>12 DEF DeviceStep

LEMMA CompleteSettled ==
  ASSUME TypeOK, Resolved, SlotsSettled,
         NEW c \in CommandIds, NEW lost \in BOOLEAN, Complete(c, lost)
  PROVE  SlotsSettled'
<1>1. CommandsKept
  BY CompleteSound DEF Kept
<1>2. /\ kind' = kind /\ cutOff' = cutOff /\ template' = template
      /\ InAnswer /\ device.phase = "completing" /\ device.command = c /\ c \in DOMAIN commands
  BY DEF Complete, CompleteEnrolment, CompleteRemoval, InHand, InAnswer, Resolved
<1>3. \E reply \in {"ok", "refused"} : Answered(reply, lost)
  BY DEF Complete, CompleteEnrolment, CompleteRemoval, RemovalReplies
<1>4. /\ device'.phase = "answered" /\ device'.command = device.command
      /\ device'.slot = device.slot
  BY <1>3 DEF Answered, TypeOK
<1>5. commands'[c].kind = commands[c].kind
  BY <1>1, <1>2 DEF CommandsKept
<1>6. SUFFICES ASSUME Careful', NEW k \in Slots
               PROVE  (BeingEnrolled(k) => template[k] = device.command)' /\ SlotSettled(k)'
  BY DEF SlotsSettled
<1>7. /\ BeingEnrolled(k) => template[k] = device.command
      /\ SlotSettled(k) /\ ~Confirmed
      /\ BeingEnrolled(k)' <=> BeingEnrolled(k)
  BY <1>2, <1>4, <1>5, <1>6 DEF SlotsSettled, Careful, Confirmed, BeingEnrolled, InAnswer
<1>8. CASE enrolments' = enrolments /\ ~(BeingEnrolled(k) /\ Confirmed')
  BY <1>2, <1>4, <1>7, <1>8 DEF SlotSettled, IsActive
<1>9. CASE CompleteRemoval(c, lost)
  <2>1. ~BeingEnrolled(k) /\ enrolments' = enrolments
    BY <1>2, <1>9 DEF CompleteRemoval, BeingEnrolled
  <2>2. QED
    BY <1>8, <2>1
<1>10. CASE CompleteEnrolment(c, lost) /\ ~Accepts(c, device.slot)
  <2>1. enrolments' = enrolments /\ ~Confirmed'
    BY <1>10 DEF CompleteEnrolment, Answered, Confirmed, TypeOK
  <2>2. QED
    BY <1>8, <2>1
<1>11. CASE CompleteEnrolment(c, lost) /\ Accepts(c, device.slot)
  <2> DEFINE new == [student |-> commands[c].student, slot |-> device.slot,
                     status |-> "ACTIVE", command |-> c]
             n == Len(enrolments) + 1
  <2>1. /\ DOMAIN enrolments' = DOMAIN enrolments \cup {n}
        /\ \A e \in DOMAIN enrolments : enrolments'[e] = enrolments[e]
        /\ enrolments'[n] = new
    <3>1. enrolments \in Seq(EnrolmentRows) /\ new \in EnrolmentRows
          /\ enrolments' = Append(enrolments, new)
      <4>1. commands[c] \in CommandRows /\ device.slot \in Slots
        BY <1>2, <1>11, Domains DEF CompleteEnrolment, Resolved
      <4>2. new \in EnrolmentRows
        BY <4>1 DEF CommandRows, EnrolmentRows
      <4>3. QED
        BY <1>11, <4>2 DEF CompleteEnrolment, TypeOK, EnrolmentRows
    <3>2. /\ Append(enrolments, new) \in Seq(EnrolmentRows)
          /\ Len(Append(enrolments, new)) = n
          /\ \A e \in 1..Len(enrolments) : Append(enrolments, new)[e] = enrolments[e]
          /\ Append(enrolments, new)[n] = new
      BY <3>1, AppendProperties
    <3>3. DOMAIN enrolments' = 1..n
      BY <3>1, <3>2, LenProperties
    <3>4. QED
      BY <3>1, <3>2, <3>3, Domains
  <2>2. CASE k = device.slot
    <3>1. BeingEnrolled(k) /\ template[k] = c
      BY <1>2, <1>7, <1>11, <2>2 DEF CompleteEnrolment, BeingEnrolled
    <3>2. \A e \in DOMAIN enrolments : ~(IsActive(e) /\ enrolments[e].slot = k)
      BY <1>11, <2>2 DEF Accepts, SlotTaken
    <3>3. \A e \in DOMAIN enrolments' :
            IsActive(e)' /\ enrolments'[e].slot = k => enrolments'[e].command = c
      BY <2>1, <3>2 DEF IsActive
    <3>4. QED
      BY <1>2, <1>4, <3>1, <3>3 DEF SlotSettled
  <2>3. CASE k # device.slot
    <3>1. ~BeingEnrolled(k)
      BY <2>3 DEF BeingEnrolled
    <3>2. \A e \in DOMAIN enrolments' :
            IsActive(e)' /\ enrolments'[e].slot = k => /\ IsActive(e) /\ enrolments[e].slot = k
                                                       /\ enrolments'[e].command = enrolments[e].command
      BY <2>1, <2>3 DEF IsActive
    <3>3. QED
      BY <1>2, <1>7, <3>1, <3>2 DEF SlotSettled, IsActive
  <2>4. QED
    BY <2>2, <2>3
<1>12. QED
  BY <1>9, <1>10, <1>11 DEF Complete

LEMMA NextSettled == TypeOK /\ Resolved /\ SlotsSettled /\ [Next]_vars => SlotsSettled'
<1> SUFFICES ASSUME TypeOK, Resolved, SlotsSettled, [Next]_vars PROVE SlotsSettled'
  OBVIOUS
<1>1. CASE UNCHANGED vars
  BY <1>1 DEF vars, SlotsSettled, Careful, SlotSettled, BeingEnrolled, InAnswer, Confirmed, IsActive
<1>2. QED
  BY <1>1, OfficerSettled, DeviceSettled, CompleteSettled DEF Next

\* On a box that was not cut off, no finger ever counts for a student it is not:
\* what is in the reader's slot was taken for the command the enrolment came from.
THEOREM NoFingerMisread == Spec => []FingerCountsForItsOwner
<1>1. Init => TypeOK /\ Resolved /\ SlotsSettled
  <2>1. Init => SlotsSettled
    BY DEF Init, Idle, SlotsSettled, BeingEnrolled, InAnswer, SlotSettled
  <2>2. QED
    BY <2>1, InitSound
<1>2. TypeOK /\ Resolved /\ SlotsSettled /\ [Next]_vars => (TypeOK /\ Resolved /\ SlotsSettled)'
  BY NextSound, NextSettled DEF Kept
<1>3. TypeOK /\ Resolved /\ SlotsSettled => FingerCountsForItsOwner
  <2>1. SUFFICES ASSUME Resolved, SlotsSettled, Careful, device.phase = "idle",
                        NEW k \in Slots, NEW e \in DOMAIN enrolments,
                        template[k] # 0, IsActive(e), enrolments[e].slot = k
                 PROVE  enrolments[e].student = commands[template[k]].student
    BY DEF FingerCountsForItsOwner
  <2>2. enrolments[e].command = template[k]
    BY <2>1 DEF SlotsSettled, SlotSettled, BeingEnrolled, InAnswer
  <2>3. QED
    BY <2>1, <2>2 DEF Resolved
<1>4. QED
  BY <1>1, <1>2, <1>3, PTL DEF Spec

-----------------------------------------------------------------------------
(* What a step may do to the rows.                                         *)

\* The device's report of the command is being taken.
Reported(c) ==
  /\ device.phase = "completing" /\ device.command = c
  /\ device'.phase = "answered" /\ device'.command = c

\* A settled command stays as it is, and only a report makes one done.
CommandsStep ==
  /\ \A c \in DOMAIN commands :
       /\ commands[c].status # "PENDING" => commands'[c] = commands[c]
       /\ commands[c].kind = "DELETE" => commands'[c].enrolment = commands[c].enrolment
       /\ commands[c].status = "PENDING" /\ commands'[c].status = "DONE" => Reported(c)
  /\ \A c \in DOMAIN commands' \ DOMAIN commands :
       /\ commands'[c].status = "PENDING"
       /\ commands'[c].kind = "DELETE" => commands'[c].enrolment \in DOMAIN enrolments

\* The report of a pending command adds the enrolment that the command then names.
EnrolledBy(e, c) ==
  /\ Reported(c) /\ c \in DOMAIN commands
  /\ commands[c].status = "PENDING" /\ commands[c].kind = "ENROL"
  /\ commands'[c].status = "DONE" /\ commands'[c].enrolment = e
  /\ enrolments'[e].command = c

EnrolmentsStep ==
  /\ \A e \in DOMAIN enrolments : e \in DOMAIN enrolments' /\ enrolments'[e].command = enrolments[e].command
  /\ \A e \in DOMAIN enrolments' \ DOMAIN enrolments : EnrolledBy(e, device.command)

LEMMA QueuedStep ==
  ASSUME TypeOK, NEW entry \in CommandRows, entry.status = "PENDING",
         entry.kind = "DELETE" => entry.enrolment \in DOMAIN enrolments,
         commands' = Append(commands, entry)
  PROVE  CommandsStep
<1>1. commands \in Seq(CommandRows)
  BY DEF TypeOK, CommandRows
<1>2. /\ DOMAIN commands' = 1..(Len(commands) + 1)
      /\ \A c \in DOMAIN commands : commands'[c] = commands[c]
      /\ commands'[Len(commands) + 1] = entry
  BY <1>1, Domains, AppendProperties, LenProperties
<1>3. DOMAIN commands' = DOMAIN commands \cup {Len(commands) + 1}
  BY <1>2, Domains
<1>4. QED
  BY <1>2, <1>3 DEF CommandsStep

LEMMA SettledStep ==
  ASSUME TypeOK, NEW c \in DOMAIN commands, NEW entry, commands[c].status = "PENDING",
         commands[c].kind = "DELETE" => entry.enrolment = commands[c].enrolment,
         entry.status = "DONE" => Reported(c),
         commands' = [commands EXCEPT ![c] = entry]
  PROVE  CommandsStep
<1>1. /\ DOMAIN commands' = DOMAIN commands
      /\ \A d \in DOMAIN commands : commands'[d] = IF d = c THEN entry ELSE commands[d]
  OBVIOUS
<1>2. QED
  BY <1>1 DEF CommandsStep

LEMMA SameRows ==
  /\ commands' = commands => CommandsStep
  /\ enrolments' = enrolments => EnrolmentsStep
BY DEF CommandsStep, EnrolmentsStep

\* Another status for a command changes nothing else of it.
LEMMA StatusOnly ==
  ASSUME TypeOK, NEW c \in DOMAIN commands, NEW status \in {"PENDING", "DONE", "FAILED", "CANCELLED"}
  PROVE  LET entry == [commands[c] EXCEPT !.status = status]
         IN entry.enrolment = commands[c].enrolment /\ entry.status = status
<1>1. commands[c] \in CommandRows
  BY Domains
<1>2. QED
  BY <1>1 DEF CommandRows

LEMMA OfficerRows ==
  ASSUME TypeOK, Resolved, OfficerStep
  PROVE  CommandsStep /\ EnrolmentsStep
<1>1. ASSUME NEW s \in Students, RequestEnrolment(s) PROVE CommandsStep /\ EnrolmentsStep
  BY <1>1, SameRows DEF RequestEnrolment
<1>2. ASSUME QueueEnrolment PROVE CommandsStep /\ EnrolmentsStep
  <2> DEFINE entry == [kind |-> "ENROL", student |-> request, enrolment |-> 0, status |-> "PENDING"]
  <2>1. entry \in CommandRows
    BY <1>2 DEF QueueEnrolment, CommandRows, TypeOK
  <2>2. commands' = commands \/ commands' = Append(commands, entry)
    BY <1>2 DEF QueueEnrolment
  <2>3. CommandsStep
    BY <2>1, <2>2, SameRows, QueuedStep
  <2>4. QED
    BY <1>2, <2>3, SameRows DEF QueueEnrolment
<1>3. ASSUME NEW c \in CommandIds, Cancel(c) PROVE CommandsStep /\ EnrolmentsStep
  <2> DEFINE entry == [commands[c] EXCEPT !.status = "CANCELLED"]
  <2>1. c \in DOMAIN commands /\ commands[c].status = "PENDING" /\ commands' = [commands EXCEPT ![c] = entry]
    BY <1>3 DEF Cancel, IsPending
  <2>2. entry.enrolment = commands[c].enrolment /\ entry.status # "DONE"
    BY <2>1, StatusOnly
  <2>3. CommandsStep
    BY <2>1, <2>2, SettledStep
  <2>4. QED
    BY <1>3, <2>3, SameRows DEF Cancel
<1>4. ASSUME NEW e \in CommandIds, Revoke(e) PROVE CommandsStep /\ EnrolmentsStep
  <2> DEFINE entry == [kind |-> "DELETE", student |-> enrolments[e].student,
                     enrolment |-> e, status |-> "PENDING"]
  <2>1. e \in DOMAIN enrolments /\ enrolments[e] \in EnrolmentRows
    BY <1>4, Domains DEF Revoke, IsActive
  <2>2. entry \in CommandRows
    BY <2>1 DEF CommandRows, EnrolmentRows, CommandIds
  <2>3. CommandsStep
    BY <1>4, <2>1, <2>2, QueuedStep DEF Revoke
  <2>4. enrolments' = [enrolments EXCEPT ![e].status = "REVOKED"]
    BY <1>4 DEF Revoke
  <2>5. EnrolmentsStep
    BY <2>1, <2>4 DEF EnrolmentsStep, EnrolmentRows
  <2>6. QED
    BY <2>3, <2>5
<1>5. QED
  BY <1>1, <1>2, <1>3, <1>4 DEF OfficerStep

LEMMA DeviceRows ==
  ASSUME TypeOK, Resolved, Fetch \/ DeviceStep \/ LoseRequest \/ LosePower
  PROVE  CommandsStep /\ EnrolmentsStep
<1>1. EnrolmentsStep
  BY SameRows DEF Fetch, DeviceStep, TakeFinger, Decline, EraseFinger, FinishEnrolment, FinishRemoval,
                  LoseRequest, LosePower
<1>2. CASE commands' = commands
  BY <1>1, <1>2, SameRows
<1>3. ASSUME NEW c \in CommandIds, NEW lost \in BOOLEAN, Decline(c, lost), commands' # commands
      PROVE  CommandsStep
  <2> DEFINE entry == [commands[c] EXCEPT !.status = "FAILED"]
  <2>1. c \in DOMAIN commands /\ commands[c].status = "PENDING" /\ commands' = [commands EXCEPT ![c] = entry]
    BY <1>3 DEF Decline, IsPending
  <2>2. entry.enrolment = commands[c].enrolment /\ entry.status # "DONE"
    BY <2>1, StatusOnly
  <2>3. QED
    BY <2>1, <2>2, SettledStep
<1>4. QED
  BY <1>1, <1>2, <1>3 DEF Fetch, DeviceStep, TakeFinger, EraseFinger, FinishEnrolment, FinishRemoval,
                          LoseRequest, LosePower

\* A report that is answered with an enrolment has added it.
LEMMA CompleteRows ==
  ASSUME TypeOK, Resolved, NEW c \in CommandIds, NEW lost \in BOOLEAN, Complete(c, lost)
  PROVE  /\ CommandsStep /\ EnrolmentsStep /\ Reported(c) /\ device'.slot = device.slot
         /\ device'.queue = device.queue
         /\ UNCHANGED <<kind, cutOff, template, slotMap>>
         /\ commands[c].kind = "ENROL" /\ Confirmed' => Len(enrolments) + 1 \in DOMAIN enrolments' \ DOMAIN enrolments
<1>1. /\ c \in DOMAIN commands /\ device.phase = "completing" /\ device.command = c
      /\ UNCHANGED <<kind, cutOff, template, slotMap>>
  BY DEF Complete, CompleteEnrolment, CompleteRemoval, InHand, Resolved, InAnswer
<1>2. \E reply \in {"ok", "refused"} : Answered(reply, lost)
  BY DEF Complete, CompleteEnrolment, CompleteRemoval, RemovalReplies
<1>3. Reported(c) /\ device'.slot = device.slot /\ device'.queue = device.queue
  BY <1>1, <1>2 DEF Answered, TypeOK, Reported
<1>4. CASE CompleteRemoval(c, lost)
  <2> DEFINE entry == [commands[c] EXCEPT !.status = "DONE"]
  <2>1. /\ commands' = commands \/ (commands[c].status = "PENDING" /\ commands' = [commands EXCEPT ![c] = entry])
        /\ enrolments' = enrolments /\ commands[c].kind = "DELETE"
    BY <1>4 DEF CompleteRemoval, IsPending
  <2>2. entry.enrolment = commands[c].enrolment
    BY <1>1, StatusOnly
  <2>3. CommandsStep
    BY <1>1, <1>3, <2>1, <2>2, SettledStep, SameRows
  <2>4. QED
    BY <1>1, <1>3, <2>1, <2>3, SameRows
<1>5. CASE CompleteEnrolment(c, lost) /\ ~Accepts(c, device.slot)
  <2>1. commands' = commands /\ enrolments' = enrolments /\ ~Confirmed'
    BY <1>5 DEF CompleteEnrolment, Answered, Confirmed, TypeOK
  <2>2. QED
    BY <1>1, <1>3, <2>1, SameRows
<1>6. CASE CompleteEnrolment(c, lost) /\ Accepts(c, device.slot)
  <2> DEFINE new == [student |-> commands[c].student, slot |-> device.slot,
                     status |-> "ACTIVE", command |-> c]
             n == Len(enrolments) + 1
             entry == [commands[c] EXCEPT !.status = "DONE", !.enrolment = n]
  <2>1. commands[c] \in CommandRows /\ device.slot \in Slots /\ commands[c].kind = "ENROL"
        /\ commands[c].status = "PENDING"
    BY <1>1, <1>6, Domains DEF CompleteEnrolment, Resolved, InAnswer, Accepts, IsPending
  <2>2. /\ DOMAIN enrolments' = DOMAIN enrolments \cup {n} /\ n \notin DOMAIN enrolments
        /\ \A e \in DOMAIN enrolments : enrolments'[e] = enrolments[e]
        /\ enrolments'[n] = new
    <3>1. enrolments \in Seq(EnrolmentRows) /\ new \in EnrolmentRows
          /\ enrolments' = Append(enrolments, new)
      <4>1. new \in EnrolmentRows
        BY <2>1 DEF CommandRows, EnrolmentRows
      <4>2. QED
        BY <1>6, <4>1 DEF CompleteEnrolment, TypeOK, EnrolmentRows
    <3>2. /\ Append(enrolments, new) \in Seq(EnrolmentRows)
          /\ Len(Append(enrolments, new)) = n
          /\ \A e \in 1..Len(enrolments) : Append(enrolments, new)[e] = enrolments[e]
          /\ Append(enrolments, new)[n] = new
      BY <3>1, AppendProperties
    <3>3. DOMAIN enrolments' = 1..n
      BY <3>1, <3>2, LenProperties
    <3>4. QED
      BY <3>1, <3>2, <3>3, Domains
  <2>3. entry.status = "DONE" /\ entry.enrolment = n
    BY <2>1, Domains DEF CommandRows
  <2>4. commands' = [commands EXCEPT ![c] = entry]
    BY <1>6 DEF CompleteEnrolment
  <2>5. CommandsStep
    BY <1>1, <1>3, <2>1, <2>4, SettledStep
  <2>6. EnrolmentsStep
    <3>1. commands'[c] = entry
      BY <1>1, <2>4
    <3>2. new.command = c
      OBVIOUS
    <3> HIDE DEF entry, new, n
    <3>3. EnrolledBy(n, c)
      BY <1>1, <1>3, <2>1, <2>2, <2>3, <3>1, <3>2 DEF EnrolledBy
    <3>4. QED
      BY <1>1, <2>2, <3>3 DEF EnrolmentsStep
  <2>7. QED
    BY <1>1, <1>3, <2>2, <2>5, <2>6
<1>7. QED
  BY <1>4, <1>5, <1>6 DEF Complete

LEMMA NextRows ==
  ASSUME TypeOK, Resolved, [Next]_vars
  PROVE  CommandsStep /\ EnrolmentsStep /\ CommandsKept
<1>1. CASE UNCHANGED vars
  BY <1>1, SameRows DEF vars, CommandsKept
<1>2. QED
  BY <1>1, OfficerRows, DeviceRows, CompleteRows, NextSound DEF Next, Kept

\* A command that was withdrawn, failed or done stays that, and enrols nobody from
\* then on, for any number of commands and whatever messages are lost.
THEOREM SettledStaysSettled == Spec => SettledIsFinal
<1>1. TypeOK /\ Resolved /\ [Next]_vars => TypeOK' /\ Resolved'
  BY NextSound DEF Kept
<1>2. TypeOK /\ Resolved /\ [Next]_vars =>
        [\A c \in DOMAIN commands :
           commands[c].status # "PENDING" =>
             /\ commands'[c] = commands[c]
             /\ \A e \in DOMAIN enrolments' :
                  enrolments'[e].command = c => e \in DOMAIN enrolments]_vars
  BY NextRows DEF CommandsStep, EnrolmentsStep, EnrolledBy
<1>3. QED
  BY <1>1, <1>2, InitSound, PTL DEF Spec, SettledIsFinal

-----------------------------------------------------------------------------
(* The templates.                                                          *)

\* The command an enrolment came from names it, and is not offered again.
Traced ==
  \A e \in DOMAIN enrolments :
    LET c == enrolments[e].command
    IN /\ commands[c].kind = "ENROL" /\ commands[c].status = "DONE" /\ commands[c].enrolment = e
       /\ c \in device.queue => InAnswer /\ device.command = c

RemovalsKnown ==
  \A c \in DOMAIN commands : commands[c].kind = "DELETE" => commands[c].enrolment \in DOMAIN enrolments

Removed(e) ==
  \E c \in DOMAIN commands :
    commands[c].kind = "DELETE" /\ commands[c].enrolment = e /\ commands[c].status = "DONE"

\* A confirmed enrolment whose slot the device has yet to note stands.
ToNote ==
  Confirmed /\ commands[device.command].kind = "ENROL" =>
    LET e == commands[device.command].enrolment
    IN e \in DOMAIN enrolments /\ enrolments[e].command = device.command /\ ~Removed(e)

\* A removal in hand has freed the slot noted for it.
Erased ==
  InAnswer /\ commands[device.command].kind = "DELETE" =>
    \A k \in Slots : slotMap[commands[device.command].enrolment] = k => template[k] = 0

\* The finger in the slot is enrolled, its slot noted, and nobody has removed it.
Held(k) ==
  \E e \in DOMAIN enrolments : enrolments[e].command = template[k] /\ slotMap[e] = k /\ ~Removed(e)

SlotsAccounted ==
  Careful => \A k \in Slots :
    /\ template[k] # 0 => BeingEnrolled(k) \/ Held(k)
    /\ BeingEnrolled(k) => \A n \in Slots \ {k} : template[n] # device.command

Accounted == Traced /\ RemovalsKnown /\ ToNote /\ Erased /\ SlotsAccounted

LEMMA RowsAccounted ==
  ASSUME Resolved, Accounted, CommandsStep, EnrolmentsStep, CommandsKept
  PROVE  /\ RemovalsKnown'
         /\ \A e \in DOMAIN enrolments' :
              LET c == enrolments'[e].command
              IN commands'[c].kind = "ENROL" /\ commands'[c].status = "DONE" /\ commands'[c].enrolment = e
         /\ \A e : Removed(e)' => Removed(e) \/ (Reported(device.command) /\ device.command \in DOMAIN commands
                        /\ commands[device.command].kind = "DELETE" /\ commands[device.command].enrolment = e)
<1>1. RemovalsKnown'
  BY DEF Accounted, RemovalsKnown, CommandsStep, CommandsKept, EnrolmentsStep
<1>2. ASSUME NEW e \in DOMAIN enrolments'
      PROVE  LET c == enrolments'[e].command
             IN commands'[c].kind = "ENROL" /\ commands'[c].status = "DONE" /\ commands'[c].enrolment = e
  <2>1. CASE e \in DOMAIN enrolments
    BY <2>1 DEF Accounted, Traced, Resolved, CommandsStep, EnrolmentsStep
  <2>2. CASE e \notin DOMAIN enrolments
    BY <2>2 DEF CommandsKept, EnrolmentsStep, EnrolledBy
  <2>3. QED
    BY <2>1, <2>2
<1>3. ASSUME NEW e, NEW c \in DOMAIN commands', commands'[c].kind = "DELETE", commands'[c].enrolment = e,
             commands'[c].status = "DONE", ~Removed(e)
      PROVE  Reported(c) /\ c \in DOMAIN commands /\ commands[c].kind = "DELETE" /\ commands[c].enrolment = e
  <2>1. c \in DOMAIN commands
    BY <1>3 DEF CommandsStep
  <2>2. commands[c].kind = "DELETE" /\ commands[c].enrolment = e
    BY <1>3, <2>1 DEF CommandsStep, CommandsKept
  <2>3. commands[c].status = "PENDING"
    BY <1>3, <2>1, <2>2 DEF CommandsStep, Removed
  <2>4. QED
    BY <1>3, <2>1, <2>2, <2>3 DEF CommandsStep
<1>4. QED
  BY <1>1, <1>2, <1>3 DEF Removed, Reported

LEMMA RestWithout ==
  ASSUME TypeOK, NEW c
  PROVE  Rest(c).queue \subseteq device.queue \ {c}
<1>1. CASE device.queue = {c}
  BY <1>1 DEF Rest, Idle
<1>2. CASE device.queue # {c}
  BY <1>2 DEF Rest, Idle
<1>3. QED
  BY <1>1, <1>2

LEMMA NoMoreThan ==
  ASSUME NEW n \in Nat, NEW m \in Nat, NEW f \in [1..n -> 1..m],
         \A i, j \in 1..n : f[i] = f[j] => i = j
  PROVE  n <= m
<1>1. 1 \in Int /\ n \in Int /\ m \in Int
  OBVIOUS
<1>2. IsFiniteSet(1..n) /\ Cardinality(1..n) = (IF 1 > n THEN 0 ELSE n-1+1)
  BY ONLY <1>1, FS_Interval
<1>3. IsFiniteSet(1..m) /\ Cardinality(1..m) = (IF 1 > m THEN 0 ELSE m-1+1)
  BY ONLY <1>1, FS_Interval
<1>4. Cardinality(1..n) = n /\ Cardinality(1..m) = m
  BY <1>2, <1>3
<1>5. SUFFICES ASSUME Cardinality(1..m) < Cardinality(1..n) PROVE FALSE
  BY <1>4
<1>6. QED
  BY <1>2, <1>3, <1>5, FS_PigeonHole

\* Every enrolment has a command of its own, so there are no more than may be queued.
LEMMA EnrolmentsFew ==
  ASSUME TypeOK, Resolved, Traced
  PROVE  DOMAIN enrolments \subseteq CommandIds
<1> DEFINE n == Len(enrolments)
           m == Len(commands)
           from == [e \in 1..n |-> enrolments[e].command]
<1>1. /\ DOMAIN commands = 1..m /\ DOMAIN enrolments = 1..n /\ n \in Nat /\ m \in Nat /\ m <= MaxCommands
  BY Domains DEF TypeOK
<1>2. from \in [1..n -> 1..m]
  BY <1>1 DEF Resolved
<1>3. \A e, f \in 1..n : from[e] = from[f] => e = f
  BY <1>1 DEF Traced
<1>4. n <= m
  <2> HIDE DEF from, n, m
  <2>1. QED
    BY <1>1, <1>2, <1>3, NoMoreThan
<1> HIDE DEF from, n, m
<1>5. QED
  BY <1>1, <1>4, FingerprintAssumption DEF CommandIds, FingerprintAssumption

\* A slot held stays so while neither its template nor what is noted changes.
LEMMA StaysHeld ==
  ASSUME Resolved, Accounted, CommandsStep, EnrolmentsStep, CommandsKept,
         NEW k \in Slots, Held(k), template[k] # 0, template'[k] = template[k], slotMap' = slotMap
  PROVE  Held(k)'
<1>1. PICK e \in DOMAIN enrolments : enrolments[e].command = template[k] /\ slotMap[e] = k /\ ~Removed(e)
  BY DEF Held
<1>2. ~Removed(e)'
  <2>1. SUFFICES ASSUME Removed(e)' PROVE FALSE
    OBVIOUS
  <2>2. /\ Reported(device.command) /\ commands[device.command].kind = "DELETE"
        /\ commands[device.command].enrolment = e
    BY <1>1, <2>1, RowsAccounted
  <2>3. template[k] = 0
    BY <1>1, <2>2 DEF Accounted, Erased, Reported, InAnswer
  <2>4. QED
    BY <2>3
<1>3. QED
  BY <1>1, <1>2 DEF EnrolmentsStep, Held

LEMMA OfficerAccounted ==
  ASSUME TypeOK, Resolved, SlotsSettled, Accounted, OfficerStep
  PROVE  Accounted'
<1>1. CommandsStep /\ EnrolmentsStep /\ CommandsKept /\ UNCHANGED <<kind, cutOff, template, slotMap, device>>
  BY OfficerRows, OfficerSound DEF Kept, OfficerStep, RequestEnrolment, QueueEnrolment, Cancel, Revoke
<1>2. ~Reported(device.command)
  BY <1>1 DEF Reported
<1>3. \A k : BeingEnrolled(k)' <=> BeingEnrolled(k)
  BY <1>1 DEF BeingEnrolled, InAnswer, Resolved, CommandsKept
<1>4. Traced' /\ RemovalsKnown'
  BY <1>1, <1>2, RowsAccounted DEF Accounted, Traced, EnrolmentsStep, EnrolledBy, InAnswer
<1>5. ToNote'
  <2>1. SUFFICES ASSUME Confirmed', (commands[device.command].kind = "ENROL")' PROVE ToNote'
    BY DEF ToNote
  <2>2. Confirmed /\ device.command \in DOMAIN commands /\ commands[device.command].kind = "ENROL"
    BY <1>1, <2>1 DEF Confirmed, Resolved, InAnswer, CommandsKept
  <2>3. LET e == commands[device.command].enrolment
        IN e \in DOMAIN enrolments /\ enrolments[e].command = device.command /\ ~Removed(e)
    BY <2>2 DEF Accounted, ToNote
  <2>4. commands'[device.command] = commands[device.command]
    BY <1>1, <2>2, <2>3 DEF Accounted, Traced, CommandsStep
  <2>5. QED
    BY <1>1, <1>2, <2>3, <2>4, RowsAccounted DEF ToNote, EnrolmentsStep
<1>6. Erased'
  BY <1>1 DEF Accounted, Erased, InAnswer, Resolved, CommandsKept, CommandsStep
<1>7. SlotsAccounted'
  BY <1>1, <1>3, StaysHeld DEF Accounted, SlotsAccounted, Careful
<1>8. QED
  BY <1>4, <1>5, <1>6, <1>7 DEF Accounted

LEMMA CompleteAccounted ==
  ASSUME TypeOK, Resolved, SlotsSettled, Accounted,
         NEW c \in CommandIds, NEW lost \in BOOLEAN, Complete(c, lost)
  PROVE  Accounted'
<1>1. /\ CommandsStep /\ EnrolmentsStep /\ CommandsKept /\ Reported(c) /\ device'.slot = device.slot
      /\ device'.queue = device.queue /\ UNCHANGED <<kind, cutOff, template, slotMap>>
      /\ commands[c].kind = "ENROL" /\ Confirmed' => Len(enrolments) + 1 \in DOMAIN enrolments' \ DOMAIN enrolments
  BY CompleteRows, CompleteSound DEF Kept
<1>2. InAnswer /\ InAnswer' /\ device.command = c /\ device'.command = c /\ c \in DOMAIN commands
  BY <1>1 DEF InAnswer, Reported, Resolved
<1>3. commands'[c].kind = commands[c].kind
  BY <1>1, <1>2 DEF CommandsKept
<1>4. \A k : BeingEnrolled(k)' <=> BeingEnrolled(k)
  BY <1>1, <1>2, <1>3 DEF BeingEnrolled
<1>5. Traced' /\ RemovalsKnown'
  BY <1>1, <1>2, RowsAccounted DEF Accounted, Traced, EnrolmentsStep, EnrolledBy
<1>6. ToNote'
  <2>1. SUFFICES ASSUME Confirmed', commands[c].kind = "ENROL" PROVE ToNote'
    BY <1>2, <1>3 DEF ToNote
  <2>2. PICK e \in DOMAIN enrolments' \ DOMAIN enrolments : EnrolledBy(e, c)
    BY <1>1, <1>2, <2>1 DEF EnrolmentsStep
  <2>3. commands'[c].enrolment = e /\ enrolments'[e].command = c
    BY <2>2 DEF EnrolledBy
  <2>4. ~Removed(e)
    BY <2>2 DEF Removed, Accounted, RemovalsKnown
  <2>5. ~Removed(e)'
    BY <1>1, <1>2, <2>1, <2>4, RowsAccounted
  <2>6. QED
    BY <1>2, <2>2, <2>3, <2>5 DEF ToNote
<1>7. Erased'
  BY <1>1, <1>2, <1>3 DEF Accounted, Erased, CommandsStep
<1>8. SlotsAccounted'
  BY <1>1, <1>2, <1>4, StaysHeld DEF Accounted, SlotsAccounted, Careful
<1>9. QED
  BY <1>5, <1>6, <1>7, <1>8 DEF Accounted

LEMMA DeviceAccounted ==
  ASSUME TypeOK, Resolved, SlotsSettled, Accounted, Fetch \/ DeviceStep \/ LoseRequest \/ LosePower
  PROVE  Accounted'
<1>1. CommandsStep /\ EnrolmentsStep /\ CommandsKept
  BY DeviceRows, DeviceSound DEF Kept
<1>2. enrolments' = enrolments /\ kind' = kind
  BY DEF Fetch, DeviceStep, TakeFinger, Decline, EraseFinger, FinishEnrolment, FinishRemoval, LoseRequest, LosePower
<1>3. ASSUME NEW e, ~Removed(e), ~Reported(device.command) PROVE ~Removed(e)'
  BY <1>1, <1>3, RowsAccounted
<1>4. ASSUME \A e \in DOMAIN enrolments : enrolments[e].command \in device'.queue =>
                InAnswer' /\ device'.command = enrolments[e].command
      PROVE  Traced' /\ RemovalsKnown'
  BY <1>1, <1>2, <1>4, RowsAccounted DEF Traced
<1>5. CASE Fetch \/ \E c \in CommandIds, lost \in BOOLEAN : Decline(c, lost)
  <2>1. /\ UNCHANGED <<template, slotMap, cutOff>> /\ ~InAnswer /\ ~InAnswer'
    BY <1>5, RestSound DEF Fetch, Decline, NextUp, InAnswer, TypeOK
  <2>2. \A e \in DOMAIN enrolments : enrolments[e].command \notin device'.queue
    <3>1. CASE Fetch
      <4>1. device'.queue = {c \in DOMAIN commands : IsPending(c)}
        BY <3>1 DEF Fetch, TypeOK
      <4>2. QED
        BY <4>1 DEF Accounted, Traced, IsPending
    <3>2. ASSUME NEW c \in CommandIds, NEW lost \in BOOLEAN, Decline(c, lost)
          PROVE  device'.queue \subseteq device.queue
      BY <3>2, RestSound DEF Decline
    <3>3. QED
      BY <1>5, <2>1, <3>1, <3>2 DEF Accounted, Traced
  <2>3. ToNote' /\ Erased'
    BY <2>1 DEF ToNote, Erased, Confirmed, InAnswer
  <2>4. SlotsAccounted'
    BY <1>1, <1>2, <2>1, StaysHeld DEF Accounted, SlotsAccounted, Careful, BeingEnrolled
  <2>5. QED
    BY <1>4, <2>2, <2>3, <2>4 DEF Accounted
<1>6. ASSUME NEW c \in CommandIds, NEW n \in FreeSlots, TakeFinger(c, n) PROVE Accounted'
  <2>1. /\ ~InAnswer /\ n \in Slots /\ c \in DOMAIN commands /\ c \in device.queue /\ c # 0
        /\ device'.phase = "completing" /\ device'.command = c /\ device'.slot = n /\ device'.queue = device.queue
    BY <1>6 DEF TakeFinger, Working, NextUp, InAnswer, FreeSlots, Resolved, TypeOK, CommandIds
  <2>2. template' = [template EXCEPT ![n] = c] /\ template \in [Slots -> 0..MaxCommands] /\ template[n] = 0
        /\ UNCHANGED <<commands, slotMap, cutOff>> /\ commands[c].kind = "ENROL"
    BY <1>6 DEF TakeFinger, TypeOK, FreeSlots
  <2>3. ToNote' /\ Erased'
    BY <2>1, <2>2 DEF ToNote, Erased, Confirmed
  <2>4. \A e \in DOMAIN enrolments : enrolments[e].command \notin device'.queue
    BY <2>1 DEF Accounted, Traced
  <2>5. ASSUME Careful', NEW k \in Slots
        PROVE  /\ template'[k] # 0 => BeingEnrolled(k)' \/ Held(k)'
               /\ BeingEnrolled(k)' => \A m \in Slots \ {k} : template'[m] # device'.command
    <3>1. Careful
      BY <1>2, <2>2, <2>5 DEF Careful
    <3>2. \A m \in Slots : template[m] # 0 => Held(m) /\ template[m] # c
      BY <2>1, <3>1 DEF Accounted, SlotsAccounted, BeingEnrolled, Held, Traced
    <3>3. CASE k = n
      BY <2>1, <2>2, <3>2, <3>3 DEF BeingEnrolled, InAnswer
    <3>4. CASE k # n
      BY <1>1, <2>1, <2>2, <3>2, <3>4, StaysHeld DEF BeingEnrolled
    <3>5. QED
      BY <3>3, <3>4
  <2>6. QED
    BY <1>4, <2>3, <2>4, <2>5 DEF Accounted, SlotsAccounted
<1>7. ASSUME NEW c \in CommandIds, EraseFinger(c) PROVE Accounted'
  <2>1. /\ ~InAnswer /\ c \in DOMAIN commands
        /\ device'.phase = "completing" /\ device'.command = c /\ device'.queue = device.queue
        /\ UNCHANGED <<commands, slotMap, cutOff>> /\ commands[c].kind = "DELETE"
    BY <1>7 DEF EraseFinger, Working, NextUp, InAnswer, Resolved, TypeOK
  <2>2. /\ \A k \in Slots : template'[k] \in {0, template[k]}
        /\ \A k \in Slots : slotMap[commands[c].enrolment] = k => template'[k] = 0
    BY <1>7 DEF EraseFinger
  <2>3. ToNote' /\ Erased'
    BY <2>1, <2>2 DEF ToNote, Erased, Confirmed
  <2>4. \A e \in DOMAIN enrolments : enrolments[e].command \notin device'.queue
    BY <2>1 DEF Accounted, Traced
  <2>5. SlotsAccounted'
    BY <1>1, <1>2, <2>1, <2>2, StaysHeld DEF Accounted, SlotsAccounted, Careful, BeingEnrolled
  <2>6. QED
    BY <1>4, <2>3, <2>4, <2>5 DEF Accounted
<1>8. ASSUME FinishEnrolment \/ FinishRemoval PROVE ~InAnswer' /\ Traced' /\ RemovalsKnown' /\ ToNote' /\ Erased'
  <2>1. ~InAnswer'
    BY <1>8, RestSound DEF FinishEnrolment, FinishRemoval, InAnswer
  <2>2. device'.queue \subseteq device.queue \ {device.command}
    BY <1>8, RestWithout DEF FinishEnrolment, FinishRemoval
  <2>3. \A e \in DOMAIN enrolments : enrolments[e].command \notin device'.queue
    BY <2>2 DEF Accounted, Traced
  <2>4. QED
    BY <1>4, <2>1, <2>3 DEF ToNote, Erased, Confirmed, InAnswer
<1>9. CASE FinishRemoval
  <2> DEFINE e0 == commands[device.command].enrolment
  <2>1. /\ template' = template /\ commands' = commands /\ cutOff' = cutOff
        /\ InAnswer /\ commands[device.command].kind = "DELETE"
    BY <1>9 DEF FinishRemoval, InAnswer
  <2>2. \A e \in DOMAIN enrolments : e # e0 => slotMap'[e] = slotMap[e]
    BY <1>9 DEF FinishRemoval
  <2>3. ASSUME NEW k \in Slots, template[k] # 0, Held(k) PROVE Held(k)'
    <3>1. PICK e \in DOMAIN enrolments : enrolments[e].command = template[k] /\ slotMap[e] = k /\ ~Removed(e)
      BY <2>3 DEF Held
    <3>2. e # e0
      BY <2>1, <2>3, <3>1 DEF Accounted, Erased
    <3>3. ~Removed(e)'
      BY <2>1, <3>1 DEF Removed
    <3>4. QED
      BY <1>2, <2>1, <2>2, <3>1, <3>2, <3>3 DEF Held
  <2>4. SlotsAccounted'
    BY <1>2, <1>8, <1>9, <2>1, <2>3 DEF Accounted, SlotsAccounted, Careful, BeingEnrolled
  <2>5. QED
    BY <1>8, <1>9, <2>4 DEF Accounted
<1>10. CASE FinishEnrolment
  <2> DEFINE e0 == commands[device.command].enrolment
             n == device.slot
  <2>1. /\ commands' = commands /\ cutOff' = cutOff /\ n \in Slots /\ device.phase = "answered"
        /\ InAnswer /\ commands[device.command].kind = "ENROL" /\ BeingEnrolled(n)
    BY <1>10 DEF FinishEnrolment, InAnswer, Resolved, BeingEnrolled
  <2>2. ASSUME Careful', NEW k \in Slots, template'[k] # 0 PROVE Held(k)'
    <3>1. Careful
      BY <1>2, <2>1, <2>2 DEF Careful
    <3>2. template[k] # 0 /\ template'[k] = template[k] /\ (k = n => Confirmed)
      <4>1. device.reply \in {"none", "ok", "refused"} /\ template \in [Slots -> 0..MaxCommands] /\ kind = "ESP32"
        BY <3>1 DEF TypeOK, Careful
      <4>2. QED
        BY <1>10, <2>1, <2>2, <4>1 DEF FinishEnrolment, FreesSlotOn, Confirmed
    <3>3. CASE k = n
      <4>1. Confirmed /\ template[k] = device.command
        BY <2>1, <3>1, <3>2, <3>3 DEF SlotsSettled
      <4>2. PICK e \in DOMAIN enrolments :
               e = e0 /\ enrolments[e].command = device.command /\ ~Removed(e)
        BY <2>1, <4>1 DEF Accounted, ToNote
      <4>3. e \in CommandIds
        BY <4>2, EnrolmentsFew DEF Accounted
      <4>4. slotMap'[e] = k
        BY <1>10, <3>3, <4>1, <4>2, <4>3 DEF FinishEnrolment, Confirmed, TypeOK
      <4>5. ~Removed(e)'
        BY <2>1, <4>2 DEF Removed
      <4>6. QED
        BY <1>2, <3>2, <3>3, <4>1, <4>2, <4>4, <4>5 DEF Held
    <3>4. CASE k # n
      <4>1. template[k] # device.command /\ Held(k)
        BY <2>1, <3>1, <3>2, <3>4 DEF Accounted, SlotsAccounted, BeingEnrolled
      <4>2. PICK e \in DOMAIN enrolments : enrolments[e].command = template[k] /\ slotMap[e] = k /\ ~Removed(e)
        BY <4>1 DEF Held
      <4>3. slotMap'[e] = k
        <5>1. CASE device.reply = "ok"
          <6>1. Confirmed /\ enrolments[e0].command = device.command
            BY <2>1, <5>1 DEF Accounted, ToNote, Confirmed
          <6>2. e # e0
            BY <4>1, <4>2, <6>1
          <6>3. QED
            BY <1>10, <4>2, <5>1, <6>2 DEF FinishEnrolment
        <5>2. CASE device.reply # "ok"
          BY <1>10, <4>2, <5>2 DEF FinishEnrolment
        <5>3. QED
          BY <5>1, <5>2
      <4>4. ~Removed(e)'
        BY <2>1, <4>2 DEF Removed
      <4>5. QED
        BY <1>2, <3>2, <4>2, <4>3, <4>4 DEF Held
    <3>5. QED
      BY <3>3, <3>4
  <2>3. SlotsAccounted'
    BY <1>8, <1>10, <2>2 DEF SlotsAccounted, BeingEnrolled
  <2>4. QED
    BY <1>8, <1>10, <2>3 DEF Accounted
<1>11. CASE LoseRequest
  <2>1. /\ UNCHANGED <<commands, template, slotMap, cutOff>> /\ InAnswer /\ InAnswer' /\ ~Confirmed'
        /\ device'.command = device.command /\ device'.slot = device.slot /\ device'.queue = device.queue
    BY <1>11 DEF LoseRequest, Answered, InAnswer, Confirmed, TypeOK
  <2>2. \A k : BeingEnrolled(k)' <=> BeingEnrolled(k)
    BY <2>1 DEF BeingEnrolled
  <2>3. ToNote' /\ Erased'
    BY <2>1 DEF ToNote, Erased, Accounted
  <2>4. SlotsAccounted'
    BY <1>1, <1>2, <2>1, <2>2, StaysHeld DEF Accounted, SlotsAccounted, Careful
  <2>5. \A e \in DOMAIN enrolments : enrolments[e].command \in device'.queue =>
          InAnswer' /\ device'.command = enrolments[e].command
    BY <2>1 DEF Accounted, Traced
  <2>6. QED
    BY <1>4, <2>3, <2>4, <2>5 DEF Accounted
<1>12. CASE LosePower
  <2>1. device' = Idle /\ cutOff' = TRUE
    BY <1>12 DEF LosePower
  <2>2. ToNote' /\ Erased' /\ SlotsAccounted'
    BY <2>1 DEF ToNote, Erased, Confirmed, InAnswer, Idle, SlotsAccounted, Careful
  <2>3. QED
    BY <1>4, <2>1, <2>2 DEF Accounted, Idle
<1>13. QED
  BY <1>5, <1>6, <1>7, <1>9, <1>10, <1>11, <1>12 DEF DeviceStep

\* What an idle box that was never cut off holds is enrolled, its slot noted, and
\* no removal of it has been carried out: for any number of students and slots.
THEOREM NoTemplateOrphaned == Spec => []NoOrphanTemplate
<1> DEFINE Whole == TypeOK /\ Resolved /\ SlotsSettled /\ Accounted
<1>1. Init => Whole
  <2>1. SUFFICES ASSUME Init PROVE Whole
    OBVIOUS
  <2>2. DOMAIN enrolments = {} /\ DOMAIN commands = {} /\ device.phase = "idle"
        /\ \A k \in Slots : template[k] = 0
    BY <2>1 DEF Init, Idle
  <2>3. SlotsSettled
    BY <2>2 DEF SlotsSettled, BeingEnrolled, InAnswer, SlotSettled
  <2>4. Accounted
    BY <2>2 DEF Accounted, Traced, RemovalsKnown, ToNote, Erased, SlotsAccounted, Confirmed, InAnswer, BeingEnrolled
  <2>5. QED
    BY <2>1, <2>3, <2>4, InitSound
<1>2. Whole /\ [Next]_vars => Whole'
  <2>1. SUFFICES ASSUME Whole, [Next]_vars PROVE Whole'
    OBVIOUS
  <2>2. CASE UNCHANGED vars
    <3>1. Accounted'
      BY <2>1, <2>2 DEF vars, Accounted, Traced, RemovalsKnown, ToNote, Erased, SlotsAccounted, Confirmed,
                        InAnswer, BeingEnrolled, Held, Removed, Careful
    <3>2. QED
      BY <2>1, <3>1, NextSound, NextSettled DEF Kept
  <2>3. CASE Next
    <3>1. Accounted'
      BY <2>1, <2>3, OfficerAccounted, DeviceAccounted, CompleteAccounted DEF Next
    <3>2. QED
      BY <2>1, <3>1, NextSound, NextSettled DEF Kept
  <2>4. QED
    BY <2>1, <2>2, <2>3
<1>3. Whole => NoOrphanTemplate
  BY DEF Accounted, SlotsAccounted, BeingEnrolled, InAnswer, Held, Removed, NoOrphanTemplate
<1>4. QED
  BY <1>1, <1>2, <1>3, PTL DEF Spec

=============================================================================
