------------------------ MODULE ClassSessionRegister ------------------------
(***************************************************************************)
(* ClassSession as an implementation of AttendanceRegister: the status     *)
(* column is the class, a check-in request that passed the session check   *)
(* is an admission, the student's row is the mark, and a status request    *)
(* that has read the row and has yet to write it is a decision.            *)
(***************************************************************************)
EXTENDS ClassSession

ClassOf(status) ==
  CASE status = "NONE" -> "unopened"
    [] status = "OPEN" -> "running"
    [] status = "PAUSED" -> "paused"
    [] status = "CLOSED" -> "over"

TicketOf(frame) ==
  IF frame.phase = "idle" THEN [holder |-> "none"]
  ELSE [holder |-> frame.row.student, by |-> frame.row.method]

OrderOf(request) == IF request.op = "status" THEN ClassOf(request.status) ELSE "none"

MarkOf(s) ==
  IF Recorded(s) THEN records[CHOOSE i \in DOMAIN records : records[i].student = s].method
  ELSE "absent"

Register == INSTANCE AttendanceRegister WITH
  Tickets <- Scans,
  Orders  <- Edits,
  class   <- ClassOf(session.status),
  taken   <- session.methods,
  ticket  <- [c \in Scans |-> TicketOf(scan[c])],
  present <- [s \in Students |-> MarkOf(s)],
  order   <- [e \in Edits |-> OrderOf(edit[e])]

\* Every run of the request handlers is a run of the register, with any number of
\* check-ins and of the lecturer's requests at once: a closed class comes back only
\* by a request that read it before it closed, nobody is admitted to a paused or
\* closed one, and an admission marks its own student once.
ImplementsRegister == Register!RegisterSpec

=============================================================================
