--------------------------- MODULE QualityAudits ---------------------------
(* The quality-assurance directorate's audits: one audit of a department   *)
(* against one checklist template, the findings recorded against the       *)
(* template's items, and a corrective action raised against a finding.     *)
(*                                                                         *)
(* A PATCH reads the row, decides on what it read, and writes by id alone; *)
(* nothing is locked in between.  So a call is two or three steps, and the *)
(* calls of two officers interleave.  The database's part is modelled with *)
(* it: a finding refers to an existing item (foreign key).  The CHECK that *)
(* ties a corrective action's status to its verifier is NOT modelled: that *)
(* the code never trips it is StampMatchesStatus.                          *)
EXTENDS Naturals, FiniteSets

CONSTANTS
  Auditors,       \* QA officers, one request of each in flight at a time
  Items,          \* checklist items that may come to exist
  Standards,      \* the standards catalogue
  Ratings,        \* the ratings a run uses, of AllRatings
  Nobody,         \* no officer
  Nothing,        \* no standard: the item does not exist; no rating: no finding
  MaxStatusWrites \* bound: status writes of the audit, which also number its stamps

AllRatings == {"COMPLIANT", "PARTIAL", "NON_COMPLIANT", "NOT_APPLICABLE"}
AuditStatuses == {"NONE", "PLANNED", "IN_PROGRESS", "COMPLETED"}
CapaStatuses == {"NONE", "OPEN", "IN_PROGRESS", "VERIFIED", "CLOSED"}

ASSUME QualityAuditsAssumption ==
  /\ Ratings \subseteq AllRatings
  /\ Nobody \notin Auditors
  /\ Nothing \notin Standards
  /\ Nothing \notin AllRatings
  /\ MaxStatusWrites \in Nat

VARIABLES
  catalogue,  \* the standards still active
  item,       \* item -> the standard it asks about, or Nothing
  audit,      \* [status, started, completed]: stamps are 0 until set
  findings,   \* item -> the rating recorded for the audit, or Nothing
  capa,       \* [status, finding, verifier]
  auditCall,  \* officer -> the request in flight, with what it read
  writes      \* status writes so far

auditVars == <<catalogue, item, audit, findings, capa, auditCall, writes>>

-----------------------------------------------------------------------------
(* What a request carries between its statements. *)

Quiet == [op |-> "quiet"]

\* The rows, as far as a decision reads them; NONE and Nothing stand for a row not there.
TemplateItemRows == [Items -> Standards \cup {Nothing}]
AuditRow == [status : AuditStatuses, started : Nat, completed : Nat]
FindingRows == [Items -> Ratings \cup {Nothing}]
CapaRow == [status : CapaStatuses, finding : Items \cup {Nothing}, verifier : Auditors \cup {Nobody}]

AuditCalls ==
  [op : {"quiet"}]
    \cup [op : {"status"}, to : {"IN_PROGRESS", "COMPLETED"}, counted : BOOLEAN]
    \cup [op : {"finding"}, item : Items, rating : Ratings]
    \cup [op : {"remove"}, item : Items]
    \cup [op : {"raise"}, item : Items]
    \cup [op : {"capa"}, to : CapaStatuses, verifier : Auditors \cup {Nobody}]

CanTransitionAuditStatus(from, to) ==
  <<from, to>> \in {<<"PLANNED", "IN_PROGRESS">>, <<"IN_PROGRESS", "COMPLETED">>}

CanTransitionCapaStatus(from, to) ==
  <<from, to>> \in {<<"OPEN", "IN_PROGRESS">>, <<"IN_PROGRESS", "VERIFIED">>, <<"VERIFIED", "CLOSED">>}

\* Mutant for StampMatchesStatus: whoever moves the action on, before it is closed, is its verifier.
VerificationByAnyone(to, caller, read) == IF to = "CLOSED" THEN read.verifier ELSE caller

\* Who is written beside a new status: the caller when it verifies, what was read when it closes.
VerificationFor(to, caller, read) ==
  CASE to = "VERIFIED" -> caller
    [] to = "CLOSED" -> read.verifier
    [] OTHER -> Nobody

\* The page an auditor fills in: every item of the template, with its finding if there is one.
ChecklistView == [i \in {j \in Items : item[j] # Nothing} |-> findings[i]]

\* The template's items with no finding for this audit.
MissingFindings == {i \in DOMAIN ChecklistView : ChecklistView[i] = Nothing}

\* A corrective action needs something to correct.
Correctable(i) == findings[i] \in {"NON_COMPLIANT", "PARTIAL"}

ItemHasFindings(i) == findings[i] # Nothing

Answered(o) == auditCall' = [auditCall EXCEPT ![o] = Quiet]
Await(o, call) == auditCall' = [auditCall EXCEPT ![o] = call]
Idle(o) == auditCall[o] = Quiet

-----------------------------------------------------------------------------
AuditInit ==
  /\ catalogue = Standards
  /\ item = [i \in Items |-> Nothing]
  /\ audit = [status |-> "NONE", started |-> 0, completed |-> 0]
  /\ findings = [i \in Items |-> Nothing]
  /\ capa = [status |-> "NONE", finding |-> Nothing, verifier |-> Nobody]
  /\ auditCall = [o \in Auditors |-> Quiet]
  /\ writes = 0

(* The catalogue and the template.  A standard is never deleted, only put  *)
(* out of use; an item may be added or changed while an audit runs.        *)
UpdateStandard(s) ==
  /\ catalogue' = IF s \in catalogue THEN catalogue \ {s} ELSE catalogue \cup {s}
  /\ UNCHANGED <<item, audit, findings, capa, auditCall, writes>>

\* A standard out of use may still be asked about: the page hides it, the service does not.
CreateItem(i, s) ==
  /\ item[i] = Nothing
  /\ item' = [item EXCEPT ![i] = s]
  /\ UNCHANGED <<catalogue, audit, findings, capa, auditCall, writes>>

UpdateItem(i, s) ==
  /\ item[i] \notin {Nothing, s}
  /\ item' = [item EXCEPT ![i] = s]
  /\ UNCHANGED <<catalogue, audit, findings, capa, auditCall, writes>>

CheckItemUnused(o, i) ==
  /\ Idle(o)
  /\ item[i] # Nothing
  /\ ~ItemHasFindings(i)
  /\ Await(o, [op |-> "remove", item |-> i])
  /\ UNCHANGED <<catalogue, item, audit, findings, capa, writes>>

\* The DELETE; the foreign key refuses it when a finding landed since the check.
DeleteItem(o) ==
  /\ auditCall[o].op = "remove"
  /\ item' = IF ItemHasFindings(auditCall[o].item) THEN item
             ELSE [item EXCEPT ![auditCall[o].item] = Nothing]
  /\ Answered(o)
  /\ UNCHANGED <<catalogue, audit, findings, capa, writes>>

-----------------------------------------------------------------------------
(* The audit and its findings. *)

CreateAudit ==
  /\ audit.status = "NONE"
  /\ audit' = [audit EXCEPT !.status = "PLANNED"]
  /\ UNCHANGED <<catalogue, item, findings, capa, auditCall, writes>>

\* PATCH of a status: the read and the decision on what was read.
AskStatus(o, to) ==
  /\ Idle(o)
  /\ CanTransitionAuditStatus(audit.status, to)
  /\ Await(o, [op |-> "status", to |-> to, counted |-> FALSE])
  /\ UNCHANGED <<catalogue, item, audit, findings, capa, writes>>

\* A completion counts the items without a finding, in a statement of its own.
CountMissing(o) ==
  /\ auditCall[o].op = "status"
  /\ auditCall[o].to = "COMPLETED" /\ ~auditCall[o].counted
  /\ IF MissingFindings # {} THEN Answered(o)
     ELSE Await(o, [auditCall[o] EXCEPT !.counted = TRUE])
  /\ UNCHANGED <<catalogue, item, audit, findings, capa, writes>>

\* Mutant for StampsStay: a status other than COMPLETED clears the completion.
StatusRowCleared(to, stamp) ==
  [status    |-> to,
   started   |-> IF audit.started = 0 /\ to = "IN_PROGRESS" THEN stamp ELSE audit.started,
   completed |-> IF to = "COMPLETED" THEN stamp ELSE 0]

\* The UPDATE: the first start is kept, a completion stamps again.
StatusRow(to, stamp) ==
  [status    |-> to,
   started   |-> IF audit.started = 0 /\ to = "IN_PROGRESS" THEN stamp ELSE audit.started,
   completed |-> IF to = "COMPLETED" THEN stamp ELSE audit.completed]

WriteStatus(o) ==
  /\ auditCall[o].op = "status"
  /\ auditCall[o].to = "COMPLETED" => auditCall[o].counted
  /\ writes < MaxStatusWrites
  /\ writes' = writes + 1
  /\ audit' = StatusRow(auditCall[o].to, writes + 1)
  /\ Answered(o)
  /\ UNCHANGED <<catalogue, item, findings, capa>>

\* PUT of a finding: refused for an audit read as completed.
AskFinding(o, i, r) ==
  /\ Idle(o)
  /\ audit.status \in {"PLANNED", "IN_PROGRESS"}
  /\ Await(o, [op |-> "finding", item |-> i, rating |-> r])
  /\ UNCHANGED <<catalogue, item, audit, findings, capa, writes>>

\* The upsert; the foreign key refuses an item that is gone.
WriteFinding(o) ==
  /\ auditCall[o].op = "finding"
  /\ findings' = IF item[auditCall[o].item] = Nothing THEN findings
                 ELSE [findings EXCEPT ![auditCall[o].item] = auditCall[o].rating]
  /\ Answered(o)
  /\ UNCHANGED <<catalogue, item, audit, capa, writes>>

-----------------------------------------------------------------------------
(* The corrective action. *)

AskCapa(o, i) ==
  /\ Idle(o)
  /\ capa.status = "NONE"
  /\ Correctable(i)
  /\ Await(o, [op |-> "raise", item |-> i])
  /\ UNCHANGED <<catalogue, item, audit, findings, capa, writes>>

CreateCapa(o) ==
  /\ auditCall[o].op = "raise"
  /\ capa' = IF capa.status # "NONE" THEN capa  \* a second action is a row the model does not follow
             ELSE [status |-> "OPEN", finding |-> auditCall[o].item, verifier |-> Nobody]
  /\ Answered(o)
  /\ UNCHANGED <<catalogue, item, audit, findings, writes>>

AskCapaStatus(o, to) ==
  /\ Idle(o)
  /\ CanTransitionCapaStatus(capa.status, to)
  /\ Await(o, [op |-> "capa", to |-> to, verifier |-> VerificationFor(to, o, capa)])
  /\ UNCHANGED <<catalogue, item, audit, findings, capa, writes>>

WriteCapaStatus(o) ==
  /\ auditCall[o].op = "capa"
  /\ capa' = [capa EXCEPT !.status = auditCall[o].to, !.verifier = auditCall[o].verifier]
  /\ Answered(o)
  /\ UNCHANGED <<catalogue, item, audit, findings, writes>>

-----------------------------------------------------------------------------
AuditRoutes(o) ==
  \/ \E to \in AuditStatuses : AskStatus(o, to)
  \/ CountMissing(o) \/ WriteStatus(o)
  \/ \E i \in Items, r \in Ratings : AskFinding(o, i, r)
  \/ WriteFinding(o)

CapaRoutes(o) ==
  \/ \E i \in Items : AskCapa(o, i)
  \/ CreateCapa(o)
  \/ \E to \in CapaStatuses : AskCapaStatus(o, to)
  \/ WriteCapaStatus(o)

ChecklistRoutes ==
  \/ \E i \in Items, s \in Standards : CreateItem(i, s) \/ UpdateItem(i, s)
  \/ \E o \in Auditors, i \in Items : CheckItemUnused(o, i)
  \/ \E o \in Auditors : DeleteItem(o)

AuditNext ==
  \/ CreateAudit
  \/ \E s \in Standards : UpdateStandard(s)
  \/ ChecklistRoutes
  \/ \E o \in Auditors : AuditRoutes(o) \/ CapaRoutes(o)

AuditSpec == AuditInit /\ [][AuditNext]_auditVars

-----------------------------------------------------------------------------
\* Every variable has its type.
AuditTypeOK ==
  /\ catalogue \in SUBSET Standards
  /\ item \in TemplateItemRows
  /\ audit \in AuditRow
  /\ findings \in FindingRows
  /\ capa \in CapaRow
  /\ auditCall \in [Auditors -> AuditCalls]
  /\ writes \in Nat

(* A finding's item exists, whatever the order of the check that the item  *)
(* is unused, the item's removal and a finding recorded in between: no     *)
(* finding loses the standard and the prompt it answers                    *)
(* (checklist.service.ts deleteItem).                                      *)
FindingsKeepTheirItem == \A i \in Items : findings[i] # Nothing => item[i] # Nothing

(* A corrective action carries a verifier exactly when it is verified or   *)
(* closed, although each request writes what it decided on an earlier read *)
(* and several are in flight (the CHECK capa.repository.ts updateStatus    *)
(* relies on is never tripped).                                            *)
StampMatchesStatus == (capa.status \in {"VERIFIED", "CLOSED"}) <=> (capa.verifier # Nobody)

(* What the audit's history recorded stays recorded: the first start never *)
(* moves and a completion is never erased, even when a request that read   *)
(* the audit as planned writes after it was completed                      *)
(* (audit.repository.ts updateStatus).                                     *)
StampsStay ==
  [][ /\ audit.started # 0 => audit'.started = audit.started
      /\ audit.completed # 0 => audit'.completed # 0 ]_auditVars

=============================================================================
