------------------------- MODULE AttendanceRegister -------------------------
(***************************************************************************)
(* What taking attendance promises, with nothing of how requests run.  A   *)
(* class is opened once.  The lecturer decides to let it run, to pause it  *)
(* or to end it, and a decision may take effect late and out of order: a   *)
(* class that is over never runs again but by a decision taken before it   *)
(* was over.  Only a running class admits a student, by a method it takes, *)
(* and an admission marks the student present at most once, or comes to    *)
(* nothing.  An outage ends every admission and decision under way.        *)
(***************************************************************************)
CONSTANTS Students, Methods, Tickets, Orders

VARIABLES
  class,     \* "unopened", "running", "paused" or "over"
  taken,     \* the methods the class takes
  ticket,    \* the admissions not yet settled
  present,   \* the method each student was marked present by
  order      \* the lecturer's decisions that have yet to take effect

registerVars == <<class, taken, ticket, present, order>>

NoTicket == [holder |-> "none"]

RegisterInit ==
  /\ class = "unopened"
  /\ taken = {}
  /\ ticket = [t \in Tickets |-> NoTicket]
  /\ present = [s \in Students |-> "absent"]
  /\ order = [o \in Orders |-> "none"]

Open(methods) ==
  /\ class = "unopened"
  /\ class' = "running"
  /\ taken' = methods
  /\ UNCHANGED <<ticket, present, order>>

Admit(t, s, method) ==
  /\ class = "running"
  /\ method \in taken
  /\ ticket[t] = NoTicket
  /\ ticket' = [ticket EXCEPT ![t] = [holder |-> s, by |-> method]]
  /\ UNCHANGED <<class, taken, present, order>>

Mark(t) ==
  /\ ticket[t] # NoTicket
  /\ present[ticket[t].holder] = "absent"
  /\ present' = [present EXCEPT ![ticket[t].holder] = ticket[t].by]
  /\ ticket' = [ticket EXCEPT ![t] = NoTicket]
  /\ UNCHANGED <<class, taken, order>>

Decide(o, what) ==
  /\ class # "unopened" /\ order[o] = "none"
  /\ class = "over" => what = "over"
  /\ order' = [order EXCEPT ![o] = what]
  /\ UNCHANGED <<class, taken, ticket, present>>

TakeEffect(o) ==
  /\ order[o] # "none"
  /\ class' = order[o]
  /\ order' = [order EXCEPT ![o] = "none"]
  /\ UNCHANGED <<taken, ticket, present>>

TurnAway(t) ==
  /\ ticket[t] # NoTicket
  /\ ticket' = [ticket EXCEPT ![t] = NoTicket]
  /\ UNCHANGED <<class, taken, present, order>>

Outage ==
  /\ ticket' = [t \in Tickets |-> NoTicket]
  /\ order' = [o \in Orders |-> "none"]
  /\ UNCHANGED <<class, taken, present>>

RegisterNext ==
  \/ \E methods \in SUBSET Methods : Open(methods)
  \/ \E t \in Tickets :
       \/ \E s \in Students, method \in Methods : Admit(t, s, method)
       \/ Mark(t)
       \/ TurnAway(t)
  \/ \E o \in Orders :
       \/ \E what \in {"running", "paused", "over"} : Decide(o, what)
       \/ TakeEffect(o)
  \/ Outage

RegisterSpec == RegisterInit /\ [][RegisterNext]_registerVars

=============================================================================
