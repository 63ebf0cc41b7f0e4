---------------------------- MODULE Evaluations ----------------------------
(* Student course evaluations: one round, the students of the units it     *)
(* asks about, and the readers of its results.  What a student did (the    *)
(* submission, by name) and what was said (the response, without one) are  *)
(* two tables that nothing joins; a submit writes both in one transaction. *)
(*                                                                         *)
(* Every request reads before it writes.  Where the write looks again      *)
(* under a lock (updateRound, submit) the model's write is one step with   *)
(* that second look; where it does not (deleteRound) it writes blindly.    *)
EXTENDS Integers, FiniteSets, Sequences

CONSTANTS
  Respondents,  \* students
  Taught,       \* units
  Owners,       \* who may teach a unit and for which department: <<lecturer, department>>
  Scopes,       \* the departments a reader may ask for at once: every one, or one
  Windows,      \* <<opensAt, closesAt>> pairs an officer may type
  Minimums,     \* minResponses an officer may type
  EvalRequests, \* requests in flight at once
  MaxEditions,  \* bound: how often the questions are replaced
  MaxEvalTime,  \* bound: the clock
  MaxResponses  \* bound: responses recorded

\* What the constants must satisfy.
EvaluationsAssumption ==
  /\ \A w \in Owners : w = <<w[1], w[2]>>
  /\ LET departments == {w[2] : w \in Owners} IN Scopes \subseteq {departments} \cup {{d} : d \in departments}
  /\ Windows \subseteq {w \in (0 .. MaxEvalTime) \X (0 .. MaxEvalTime) : w[1] < w[2]}
  /\ Minimums \subseteq 1 .. 50
  /\ {MaxEditions, MaxEvalTime, MaxResponses} \subseteq Nat

VARIABLES
  evalClock,   \* the database's NOW()
  round,       \* [there, opens, closes, min, edition]: edition names the current set of questions
  accounts,    \* students that have not deleted their account
  allocated,   \* ACTIVE allocations: <<student, unit>>
  givenBy,     \* unit -> who teaches it now
  submissions, \* <<student, unit>> pairs that have evaluated
  responses,   \* the anonymous responses: [unit, owner, blank, edition]; edition 0 while it has no answers
  evalCall,    \* request -> what it is doing and what it read
  report       \* the results this very step returned: one entry per row, and `overall`

evalVars == <<evalClock, round, accounts, allocated, givenBy, submissions, responses, evalCall, report>>

-----------------------------------------------------------------------------
IsOpen(r, now) == r.there /\ r.opens <= now /\ now < r.closes

CallDone == [op |-> "none"]
Ready(c) == evalCall[c] = CallDone
Reply(c) == evalCall' = [evalCall EXCEPT ![c] = CallDone]
Hold(c, call) == evalCall' = [evalCall EXCEPT ![c] = call]

\* The responses in scope; those with answers are what ratings and comments are read from.
InScope(scope) == {n \in DOMAIN responses : responses[n].owner[2] \in scope}
AnsweredIn(scope) == {n \in InScope(scope) : responses[n].edition # 0}

\* Mutant for ShownOnlyFromMinimum: one response fewer will do.
ReportableAlmost(count, min) == count + 1 >= min

Reportable(count, min) == count >= min

EvalInit ==
  /\ evalClock = 0
  /\ round = [there |-> FALSE, opens |-> 0, closes |-> 0, min |-> 1, edition |-> 0]
  /\ accounts = Respondents
  /\ allocated = Respondents \X Taught
  /\ givenBy \in [Taught -> Owners]
  /\ submissions = {}
  /\ responses = <<>>
  /\ evalCall = [c \in EvalRequests |-> CallDone]
  /\ report = {}

-----------------------------------------------------------------------------
(* What goes on around the round. *)

EvalTick ==
  /\ evalClock < MaxEvalTime
  /\ evalClock' = evalClock + 1
  /\ UNCHANGED <<round, accounts, allocated, givenBy, submissions, responses, evalCall>>

\* A roster sync allocates a student to a unit, or withdraws an allocation.
Join(s, u) ==
  /\ s \in accounts
  /\ <<s, u>> \notin allocated
  /\ allocated' = allocated \cup {<<s, u>>}
  /\ UNCHANGED <<evalClock, round, accounts, givenBy, submissions, responses, evalCall>>

Withdraw(s, u) ==
  /\ <<s, u>> \in allocated
  /\ allocated' = allocated \ {<<s, u>>}
  /\ UNCHANGED <<evalClock, round, accounts, givenBy, submissions, responses, evalCall>>

\* A unit changes hands: responses keep the owner they were given under.
ChangeHands(u, w) ==
  /\ givenBy[u] # w
  /\ givenBy' = [givenBy EXCEPT ![u] = w]
  /\ UNCHANGED <<evalClock, round, accounts, allocated, submissions, responses, evalCall>>

\* A student deletes the account: its row is anonymised and stays, with the submissions that name it; the allocations leave it.
DeleteStudent(s) ==
  /\ s \in accounts
  /\ accounts' = accounts \ {s}
  /\ allocated' = {a \in allocated : a[1] # s}
  /\ UNCHANGED <<evalClock, round, givenBy, submissions, responses, evalCall>>

-----------------------------------------------------------------------------
(* The quality-assurance office. *)

CreateRound(w, m) ==
  /\ round.edition = 0
  /\ round' = [there |-> TRUE, opens |-> w[1], closes |-> w[2], min |-> m, edition |-> 1]
  /\ UNCHANGED <<evalClock, accounts, allocated, givenBy, submissions, responses, evalCall>>

\* Mutant for AnswersFitQuestions: the questions are replaced whoever has answered.
ReplacesAlways(asked) == asked

\* New questions are taken only while no submission stands, looked up under the round's row lock.
Replaces(asked) == asked /\ submissions = {}

\* Deleting the old questions deletes the answers given to them.
WithoutAnswers(said) == [n \in DOMAIN said |-> [said[n] EXCEPT !.edition = 0]]

(* PATCH: the window as it would be after the change must be in order;     *)
(* that is decided on the round as read.  The transaction then refuses     *)
(* everything when it was to replace questions and somebody has answered.  *)
AskUpdate(c, opens, closes, m, asked) ==
  /\ Ready(c)
  /\ round.there
  /\ opens < closes
  /\ Hold(c, [op |-> "update", opens |-> opens, closes |-> closes, min |-> m, asked |-> asked])
  /\ UNCHANGED <<evalClock, round, accounts, allocated, givenBy, submissions, responses>>

UpdateRound(c) ==
  /\ evalCall[c].op = "update"
  /\ Reply(c)
  /\ LET call == evalCall[c]
         new == Replaces(call.asked)
     IN IF ~round.there \/ (call.asked /\ ~new) \/ (new /\ round.edition = MaxEditions)
        THEN UNCHANGED <<round, responses>>
        ELSE /\ round' = [round EXCEPT !.opens = call.opens, !.closes = call.closes, !.min = call.min,
                                       !.edition = IF new THEN @ + 1 ELSE @]
             /\ responses' = IF new THEN WithoutAnswers(responses) ELSE responses
  /\ UNCHANGED <<evalClock, accounts, allocated, givenBy, submissions>>

\* Ends the round now; one that has not opened is closed as well, its window moved into the past.
CloseRound ==
  /\ round.there
  /\ round.closes > evalClock
  /\ round' = [round EXCEPT !.opens = IF @ < evalClock THEN @ ELSE evalClock - 1, !.closes = evalClock]
  /\ UNCHANGED <<evalClock, accounts, allocated, givenBy, submissions, responses, evalCall>>

AskDelete(c) ==
  /\ Ready(c)
  /\ round.there
  /\ submissions = {}
  /\ Hold(c, [op |-> "delete"])
  /\ UNCHANGED <<evalClock, round, accounts, allocated, givenBy, submissions, responses>>

\* The DELETE asks nothing again, and everything the round holds goes with it.
DeleteRound(c) ==
  /\ evalCall[c].op = "delete"
  /\ round' = [round EXCEPT !.there = FALSE]
  /\ submissions' = {}
  /\ responses' = <<>>
  /\ Reply(c)
  /\ UNCHANGED <<evalClock, accounts, allocated, givenBy>>

-----------------------------------------------------------------------------
(* A student's evaluation of one unit. *)

\* The round is open, the student is on the unit, and the answers are to the questions as read; there
\* need not be any when no question is required.
AskSubmit(c, s, u, blank) ==
  /\ Ready(c)
  /\ IsOpen(round, evalClock)
  /\ <<s, u>> \in allocated
  /\ Hold(c, [op |-> "submit", who |-> s, unit |-> u, blank |-> blank, edition |-> round.edition])
  /\ UNCHANGED <<evalClock, round, accounts, allocated, givenBy, submissions, responses>>

(* The transaction goes through when the round is still open (share-locked *)
(* so its questions stay), the student has not evaluated the unit (primary *)
(* key), and the questions answered still exist (foreign key), which asks  *)
(* nothing of a submission without answers.                                *)
Accepts(call) ==
  /\ IsOpen(round, evalClock)
  /\ <<call.who, call.unit>> \notin submissions
  /\ call.blank \/ call.edition = round.edition

\* The response a submission leaves.
ResponseTo(call) ==
  [unit |-> call.unit, owner |-> givenBy[call.unit], blank |-> call.blank,
   edition |-> IF call.blank THEN 0 ELSE call.edition]

Submit(c) ==
  /\ evalCall[c].op = "submit"
  /\ Reply(c)
  /\ LET call == evalCall[c]
     IN IF Accepts(call)
        THEN /\ Len(responses) < MaxResponses
             /\ submissions' = submissions \cup {<<call.who, call.unit>>}
             /\ responses' = Append(responses, ResponseTo(call))
        ELSE UNCHANGED <<submissions, responses>>
  /\ UNCHANGED <<evalClock, round, accounts, allocated, givenBy>>

-----------------------------------------------------------------------------
(* The results: the round first, then the counts and the answers, two      *)
(* statements sent together that may run in either order.                  *)

AskResults(c, scope) ==
  /\ Ready(c)
  /\ round.there
  /\ Hold(c, [op |-> "results", min |-> round.min, scope |-> scope,
              unread |-> {"counts", "answers"}, counted |-> <<>>, answered |-> <<>>])
  /\ UNCHANGED <<evalClock, round, accounts, allocated, givenBy, submissions, responses>>

Awaits(c, what) == evalCall[c].op = "results" /\ what \in evalCall[c].unread

\* The responses, which are counted per unit, lecturer and department.
ListUnitResults(c) ==
  /\ Awaits(c, "counts")
  /\ Hold(c, [evalCall[c] EXCEPT !.unread = @ \ {"counts"},
                                 !.counted = [n \in InScope(evalCall[c].scope) |-> responses[n]]])
  /\ UNCHANGED <<evalClock, round, accounts, allocated, givenBy, submissions, responses>>

\* The ratings and comments, by unit and lecturer only.
ListAnswers(c) ==
  /\ Awaits(c, "answers")
  /\ Hold(c, [evalCall[c] EXCEPT !.unread = @ \ {"answers"},
                                 !.answered = [n \in AnsweredIn(evalCall[c].scope) |-> responses[n]]])
  /\ UNCHANGED <<evalClock, round, accounts, allocated, givenBy, submissions, responses>>

\* Those of what was read that are about these units under these lecturers.
About(said, units, lecturers) == {n \in DOMAIN said : said[n].unit \in units /\ said[n].owner[1] \in lecturers}

\* Those a row counts: of one unit while one lecturer had it for one department.
CountedFor(said, u, w) == {n \in DOMAIN said : said[n].unit = u /\ said[n].owner = w}

\* What is returned about units and lecturers in scope; below the minimum the answers are withheld.
Entry(call, units, lecturers, count) ==
  [units |-> units, lecturers |-> lecturers, scope |-> call.scope, min |-> call.min,
   reportable |-> Reportable(count, call.min),
   shows |-> IF Reportable(count, call.min) THEN About(call.answered, units, lecturers) ELSE {}]

\* One row per unit, lecturer and department with a response.
ResultRows(call) ==
  {Entry(call, {k[1]}, {k[2][1]}, Cardinality(CountedFor(call.counted, k[1], k[2]))) :
   k \in {j \in Taught \X Owners : CountedFor(call.counted, j[1], j[2]) # {}}}

\* `overall`: everything in scope, the units below the minimum included.
Overall(call) == Entry(call, Taught, {w[1] : w \in Owners}, Cardinality(DOMAIN call.counted))

GetResults(c) ==
  /\ evalCall[c].op = "results" /\ evalCall[c].unread = {}
  /\ report' = ResultRows(evalCall[c]) \cup {Overall(evalCall[c])}
  /\ Reply(c)
  /\ UNCHANGED <<evalClock, round, accounts, allocated, givenBy, submissions, responses>>

-----------------------------------------------------------------------------
EvalRequest(c) ==
  \/ \E s \in Respondents, u \in Taught, blank \in BOOLEAN : AskSubmit(c, s, u, blank)
  \/ \E w \in Windows, m \in Minimums, asked \in BOOLEAN : AskUpdate(c, w[1], w[2], m, asked)
  \/ \E scope \in Scopes : AskResults(c, scope)
  \/ AskDelete(c)
  \/ Submit(c) \/ UpdateRound(c) \/ DeleteRound(c)
  \/ ListUnitResults(c) \/ ListAnswers(c)

EvalChange ==
  \/ EvalTick
  \/ \E s \in Respondents, u \in Taught : Join(s, u) \/ Withdraw(s, u)
  \/ \E u \in Taught, w \in Owners : ChangeHands(u, w)
  \/ \E s \in Respondents : DeleteStudent(s)
  \/ \E w \in Windows, m \in Minimums : CreateRound(w, m)
  \/ CloseRound
  \/ \E c \in EvalRequests : EvalRequest(c)

EvalNext ==
  \/ EvalChange /\ report' = {}
  \/ \E c \in EvalRequests : GetResults(c)

EvalSpec == EvalInit /\ [][EvalNext]_evalVars

-----------------------------------------------------------------------------
(* Every response still has the answers it was given with, and they are to *)
(* the questions the round has now: no officer who read the round before   *)
(* the answer, and no student who read the questions before they were      *)
(* replaced, can part the two; nor does a response stand without the       *)
(* submission that keeps its student from a second (evaluation.repository  *)
(* .ts updateRound, submit).                                               *)
AnswersFitQuestions ==
  /\ \A n \in DOMAIN responses : responses[n].edition = IF responses[n].blank THEN 0 ELSE round.edition
  /\ Len(responses) = Cardinality(submissions)

\* The responses that stand behind an entry of a report.
Behind(entry) ==
  {n \in DOMAIN responses : /\ responses[n].unit \in entry.units
                            /\ responses[n].owner[1] \in entry.lecturers
                            /\ responses[n].owner[2] \in entry.scope}

(* Ratings and comments are given only out of a group of responses that,   *)
(* when they are given, is really as large as the round asks: of a unit    *)
(* under a lecturer, or of the whole scope.  The counts and the answers    *)
(* are read apart, and the lecturer and the department of a unit may       *)
(* change in between (evaluation.service.ts getResults).                   *)
ShownOnlyFromMinimum ==
  round.there =>
    \A entry \in report : entry.reportable =>
      entry.shows \subseteq Behind(entry) /\ Cardinality(Behind(entry)) >= entry.min

(* What `overall` adds to the rows that are shown is about no response or  *)
(* about as many as the round asks, so that the answers of a unit below    *)
(* the minimum cannot be read off by subtraction.  evaluation.service.ts:  *)
(* 13 gives that as the purpose of hiding such a unit ("so a class of two  *)
(* cannot be read off"); `overall` at line 323 covers the hidden units.    *)
HiddenNotReadOff ==
  round.there =>
    \A entry \in report : entry.reportable =>
      LET rest == Behind(entry) \ UNION {Behind(other) : other \in {e \in report \ {entry} : e.reportable}}
      IN rest = {} \/ Cardinality(rest) >= entry.min

=============================================================================
