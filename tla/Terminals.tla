----------------------------- MODULE Terminals -----------------------------
(***************************************************************************)
(* One portable check-in terminal, as its department, the lecturers and    *)
(* the devices that hold its name see it: pairing codes traded for keys,   *)
(* keys taken away, and the class it is linked to.                         *)
(* src/modules/terminal/terminal.*                                         *)
(*                                                                         *)
(* A request reads the terminals row when it is authenticated and writes   *)
(* to it some awaits later, by id alone: a frame in officer or in call.    *)
(***************************************************************************)
EXTENDS Naturals, FiniteSets

CONSTANTS
  Devices,     \* the handhelds that are given this terminal's name, one after another
  Classes,     \* class sessions
  OwnClasses,  \* those taught by the terminal's own department
  NoClass,
  Officers,    \* slots for the officers' requests running at the same time
  Calls,       \* slots for the devices' requests running at the same time
  MaxCodes     \* pairing codes ever issued: the bound of the model

ASSUME TerminalAssumption ==
  /\ OwnClasses \subseteq Classes
  /\ NoClass \notin Classes
  /\ MaxCodes \in Nat \ {0}

VARIABLES
  row,      \* the terminals row; codes and keys are numbered by the code they come from
  issued,   \* how many pairing codes have been issued
  expired,  \* the pairing code has run out
  keyOf,    \* the key each device keeps, 0 for none
  over,     \* classes that were closed or ran out of time
  codes,    \* classes whose link code on the lecturer's screen is still good
  officer,  \* officers' requests in flight
  call,     \* devices' requests in flight
  recorded  \* the classes a device has recorded check-ins for

terminalVars == <<row, issued, expired, keyOf, over, codes, officer, call, recorded>>

Unregistered == [status |-> "NONE", code |-> 0, key |-> 0, linked |-> NoClass]

TerminalInit ==
  /\ row = Unregistered
  /\ issued = 0
  /\ expired = FALSE
  /\ keyOf = [d \in Devices |-> 0]
  /\ over = {}
  /\ codes = {}
  /\ officer = [o \in Officers |-> "idle"]
  /\ call = [x \in Calls |-> [op |-> "idle"]]
  /\ recorded = {}

-----------------------------------------------------------------------------
(* The department's officers.                                              *)

NewCode(n) == [status |-> "PENDING", code |-> n, key |-> 0, linked |-> NoClass]

CreateTerminal ==
  /\ row.status = "NONE"
  /\ row' = NewCode(1)
  /\ issued' = 1
  /\ UNCHANGED <<expired, keyOf, over, codes, officer, call, recorded>>

\* reissuePairing and decommission up to their UPDATE.
ReadRow(o, op) ==
  /\ officer[o] = "idle"
  /\ row.status \notin {"NONE", "RETIRED"}
  /\ op = "pair" => issued < MaxCodes
  /\ officer' = [officer EXCEPT ![o] = op]
  /\ UNCHANGED <<row, issued, expired, keyOf, over, codes, call, recorded>>

\* issuePairing
IssuePairing(o) ==
  /\ officer[o] = "pair"
  /\ issued < MaxCodes
  /\ row' = NewCode(issued + 1)
  /\ issued' = issued + 1
  /\ expired' = FALSE
  /\ officer' = [officer EXCEPT ![o] = "idle"]
  /\ UNCHANGED <<keyOf, over, codes, call, recorded>>

\* decommission: key, code and class go with the status.
Decommission(o) ==
  /\ officer[o] \in {"LOST", "RETIRED"}
  /\ row' = [status |-> officer[o], code |-> 0, key |-> 0, linked |-> NoClass]
  /\ officer' = [officer EXCEPT ![o] = "idle"]
  /\ UNCHANGED <<issued, expired, keyOf, over, codes, call, recorded>>

\* PAIRING_TTL has passed.
CodeExpires ==
  /\ row.code # 0 /\ ~expired
  /\ expired' = TRUE
  /\ UNCHANGED <<row, issued, keyOf, over, codes, officer, call, recorded>>

-----------------------------------------------------------------------------
(* The lecturers.                                                          *)

\* getLinkCode: only while the class can still record.
ShowLinkCode(c) ==
  /\ c \notin over \cup codes
  /\ codes' = codes \cup {c}
  /\ UNCHANGED <<row, issued, expired, keyOf, over, officer, call, recorded>>

\* LINK_CODE_TTL_SECONDS have passed.
LinkCodeExpires(c) ==
  /\ c \in codes
  /\ codes' = codes \ {c}
  /\ UNCHANGED <<row, issued, expired, keyOf, over, officer, call, recorded>>

\* The lecturer closes the class, or closesAt passes.
ClassEnds(c) ==
  /\ c \notin over
  /\ over' = over \cup {c}
  /\ UNCHANGED <<row, issued, expired, keyOf, codes, officer, call, recorded>>

-----------------------------------------------------------------------------
(* The devices.                                                            *)

\* Mutant: a code is looked up, whoever has used it before.
PairsReusing(n) == row.status \in {"PENDING", "ACTIVE"} /\ n = issued /\ ~expired

\* completePairing: the code on the row, unused and not expired.
Pairs(n) == row.status = "PENDING" /\ row.code = n /\ ~expired

\* POST /terminals/pair.  The key is sent once: if the answer is lost, nobody has it.
Pair(d, n, lost) ==
  /\ Pairs(n)
  /\ row' = [row EXCEPT !.status = "ACTIVE", !.code = 0, !.key = n]
  /\ keyOf' = [keyOf EXCEPT ![d] = IF lost THEN @ ELSE n]
  /\ UNCHANGED <<issued, expired, over, codes, officer, call, recorded>>

\* findByKeyHash
Accepted(d) == keyOf[d] # 0 /\ keyOf[d] = row.key /\ row.status = "ACTIVE"

\* requireTerminal turned the device away with a 401, and it forgets its key.
Unpair(d) ==
  /\ keyOf[d] # 0 /\ ~Accepted(d)
  /\ keyOf' = [keyOf EXCEPT ![d] = 0]
  /\ UNCHANGED <<row, issued, expired, over, codes, officer, call, recorded>>

\* requireTerminal: the row the rest of the request goes by.
Authenticate(x, d, op) ==
  /\ call[x].op = "idle"
  /\ Accepted(d)
  /\ call' = [call EXCEPT ![x] = [op |-> op, device |-> d, linked |-> row.linked]]
  /\ UNCHANGED <<row, issued, expired, keyOf, over, codes, officer, recorded>>

Done(x) == call' = [call EXCEPT ![x] = [op |-> "idle"]]

\* currentSession finds the class it was linked to still running; a check-in is
\* then the attendance module's.
UseClass(x) ==
  /\ call[x].op \in {"heartbeat", "checkIn"}
  /\ call[x].linked \in Classes \ over
  /\ recorded' = IF call[x].op = "checkIn"
                 THEN recorded \cup {<<call[x].device, call[x].linked>>} ELSE recorded
  /\ Done(x)
  /\ UNCHANGED <<row, issued, expired, keyOf, over, codes, officer>>

\* No class to report, to record for or to let go of.
NoClassLinked(x) ==
  /\ call[x].op \in {"heartbeat", "checkIn", "unlink"}
  /\ call[x].linked = NoClass
  /\ Done(x)
  /\ UNCHANGED <<row, issued, expired, keyOf, over, codes, officer, recorded>>

\* Mutant: a class found over is reported as none, and the link left for later.
FindOverAndLeaveIt(x) ==
  /\ call[x].op \in {"heartbeat", "checkIn"}
  /\ call[x].linked \in over
  /\ Done(x)
  /\ UNCHANGED <<row, issued, expired, keyOf, over, codes, officer, recorded>>

\* currentSession finds the class over: the row is still to be cleared.
FindOver(x) ==
  /\ call[x].op \in {"heartbeat", "checkIn"}
  /\ call[x].linked \in over
  /\ call' = [call EXCEPT ![x].op = "unlink"]
  /\ UNCHANGED <<row, issued, expired, keyOf, over, codes, officer, recorded>>

\* Mutant: the department of the class's lecturer is not looked at.
MayLinkAny(c) == c \in codes \ over

\* link: a good code of a running class the department teaches.
MayLink(c) == c \in (codes \ over) \cap OwnClasses

CheckLinkCode(x, c) ==
  /\ call[x].op = "link"
  /\ call' = [call EXCEPT ![x] = IF MayLink(c)
                THEN [op |-> "set", device |-> call[x].device, linked |-> c]
                ELSE [op |-> "idle"]]
  /\ UNCHANGED <<row, issued, expired, keyOf, over, codes, officer, recorded>>

\* setLinkedSession, by the terminal's id: whatever the row holds by now.
SetLinkedSession(x) ==
  /\ call[x].op \in {"set", "unlink"}
  /\ call[x].op = "unlink" => call[x].linked # NoClass
  /\ row' = [row EXCEPT !.linked = IF call[x].op = "set" THEN call[x].linked ELSE NoClass]
  /\ Done(x)
  /\ UNCHANGED <<issued, expired, keyOf, over, codes, officer, recorded>>

TerminalOfficerStep ==
  \/ CreateTerminal
  \/ \E o \in Officers :
       \/ \E op \in {"pair", "LOST", "RETIRED"} : ReadRow(o, op)
       \/ IssuePairing(o)
       \/ Decommission(o)
  \/ CodeExpires

LecturerStep ==
  \E c \in Classes : ShowLinkCode(c) \/ LinkCodeExpires(c) \/ ClassEnds(c)

Answer(x) ==
  \/ UseClass(x)
  \/ NoClassLinked(x)
  \/ FindOver(x)
  \/ \E c \in Classes : CheckLinkCode(x, c)
  \/ SetLinkedSession(x)

Beat == \E x \in Calls, d \in Devices : Authenticate(x, d, "heartbeat")

TerminalDeviceStep ==
  \/ \E d \in Devices, n \in 1..MaxCodes, lost \in BOOLEAN : Pair(d, n, lost)
  \/ \E d \in Devices : Unpair(d)
  \/ \E x \in Calls, d \in Devices, op \in {"heartbeat", "checkIn", "link", "unlink"} :
       Authenticate(x, d, op)
  \/ \E x \in Calls : Answer(x)

TerminalNext == TerminalOfficerStep \/ LecturerStep \/ TerminalDeviceStep

\* A paired device beats every minute, and the server answers what it has accepted.
TerminalFairness ==
  /\ SF_terminalVars(Beat)
  /\ \A x \in Calls : WF_terminalVars(Answer(x))

TerminalSpec == TerminalInit /\ [][TerminalNext]_terminalVars /\ TerminalFairness

-----------------------------------------------------------------------------
(* Properties.                                                             *)

Frames == [op : {"idle"}]
          \cup [op : {"heartbeat", "checkIn", "link", "unlink"},
                device : Devices, linked : Classes \cup {NoClass}]
          \cup [op : {"set"}, device : Devices, linked : Classes]

TerminalTypeOK ==
  /\ row \in [status : {"NONE", "PENDING", "ACTIVE", "LOST", "RETIRED"},
              code : 0..MaxCodes, key : 0..MaxCodes, linked : Classes \cup {NoClass}]
  /\ issued \in 0..MaxCodes
  /\ expired \in BOOLEAN
  /\ keyOf \in [Devices -> 0..MaxCodes]
  /\ over \subseteq Classes /\ codes \subseteq Classes
  /\ officer \in [Officers -> {"idle", "pair", "LOST", "RETIRED"}]
  /\ call \in [Calls -> Frames]
  /\ recorded \subseteq Devices \X Classes

\* A code is good for one device, once: whoever else reads it off the officer's
\* screen, and however often it is reissued, the server takes one device for this
\* terminal, and only while the department says so.
OneDevicePaired ==
  /\ row.key # 0 => row.status = "ACTIVE" /\ row.key = issued
  /\ \A d, e \in Devices : Accepted(d) /\ Accepted(e) => d = e

\* A retired terminal is never brought back: the department adds a new one.  With
\* one officer's request at a time.
RetiredIsFinal == [][row.status = "RETIRED" => row'.status = "RETIRED"]_terminalVars

\* A terminal only ever records for classes its own department teaches, whatever
\* else was linked or unlinked between the check and the check-in.
RecordsForOwnClasses == \A r \in recorded : r[2] \in OwnClasses

\* A finished class lets go of its terminal, so that nothing else has to: unless
\* the department has cut the device off, its own heartbeats do it.
FinishedClassDropped ==
  \A c \in Classes :
    row.linked = c /\ c \in over ~> row.linked # c \/ ~\E d \in Devices : Accepted(d)

\* Re-pairing is how a device is handed over: the device drops any class it was
\* linked to, so the one that takes over starts with none.
HandoverDropsClass ==
  [][row.status = "PENDING" /\ row'.status = "ACTIVE" => row'.linked = NoClass]_terminalVars

=============================================================================
