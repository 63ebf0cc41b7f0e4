---------------------------- MODULE OfficeProofs ----------------------------
(* What holds of audits, evaluations, invigilators, rosters, departments    *)
(* and teaching lists, for any number of people and overlapping requests.   *)
EXTENDS QualityAudits, Evaluations, Invigilation, Rosters, Departments, TeachingLists,
        FiniteSetsExt, Integers, FiniteSetTheorems, SequenceTheorems, WellFoundedInduction, TLAPS

-----------------------------------------------------------------------------
(* Evaluations.  While a round stands its responses are only added to, so   *)
(* what a reader holds of them is still there.                              *)

AnsweredForms == [unit : Taught, owner : Owners, blank : BOOLEAN, edition : Nat]
Reads == UNION {[S -> AnsweredForms] : S \in SUBSET Nat}
Updates == [op : {"update"}, opens : Int, closes : Int, min : Nat, asked : BOOLEAN]
Submits == [op : {"submit"}, who : Respondents, unit : Taught, blank : BOOLEAN, edition : Nat]
Readings == [op : {"results"}, min : Nat, scope : Scopes, unread : SUBSET {"counts", "answers"}, counted : Reads, answered : Reads]
EvalCalls == {CallDone} \cup [op : {"delete"}] \cup Updates \cup Submits \cup Readings
Rounds == [there : BOOLEAN, opens : Int, closes : Int, min : Nat, edition : Nat]

EvalTypeOK ==
  /\ evalClock \in Nat
  /\ round \in Rounds
  /\ accounts \subseteq Respondents
  /\ allocated \subseteq Respondents \X Taught
  /\ givenBy \in [Taught -> Owners]
  /\ submissions \subseteq Respondents \X Taught
  /\ responses \in Seq(AnsweredForms)
  /\ evalCall \in [EvalRequests -> EvalCalls]

\* What a request holds is told by what it is doing.
LEMMA CallKinds ==
  ASSUME NEW call \in EvalCalls
  PROVE  /\ call.op = "update" => call \in Updates
         /\ call.op = "submit" => call \in Submits
         /\ call.op = "results" => call \in Readings
BY DEF EvalCalls, CallDone, Updates, Submits, Readings

LEMMA RoundFields ==
  ASSUME NEW r \in Rounds, NEW o \in Int, NEW c \in Int, NEW m \in Nat, NEW e \in Nat
  PROVE  /\ [r EXCEPT !.opens = o, !.closes = c, !.min = m, !.edition = e] \in Rounds
         /\ [r EXCEPT !.opens = o, !.closes = c] \in Rounds
         /\ [r EXCEPT !.there = FALSE] \in Rounds
<1>1. [r EXCEPT !.opens = o, !.closes = c, !.min = m, !.edition = e] \in Rounds
  BY DEF Rounds
<1>2. [r EXCEPT !.opens = o, !.closes = c] \in Rounds
  BY DEF Rounds
<1>3. [r EXCEPT !.there = FALSE] \in Rounds
  BY DEF Rounds
<1> QED BY <1>1, <1>2, <1>3

LEMMA AnswerGone == ASSUME NEW r \in AnsweredForms PROVE [r EXCEPT !.edition = 0] \in AnsweredForms
BY DEF AnsweredForms

LEMMA WithoutAnswersType ==
  ASSUME EvalTypeOK
  PROVE  WithoutAnswers(responses) \in Seq(AnsweredForms) /\ Len(WithoutAnswers(responses)) = Len(responses)
<1>1. responses \in Seq(AnsweredForms)
  BY DEF EvalTypeOK
<1>2. \A n \in 1 .. Len(responses) : [responses[n] EXCEPT !.edition = 0] \in AnsweredForms
  BY <1>1, AnswerGone
<1>3. WithoutAnswers(responses) \in [1 .. Len(responses) -> AnsweredForms]
  BY <1>1, <1>2 DEF WithoutAnswers
<1> QED BY <1>1, <1>3, SeqDef

LEMMA ReadType ==
  ASSUME EvalTypeOK, NEW S, S \subseteq DOMAIN responses PROVE [n \in S |-> responses[n]] \in Reads
<1>1. responses \in Seq(AnsweredForms) /\ S \in SUBSET Nat
  BY DEF EvalTypeOK
<1>2. [n \in S |-> responses[n]] \in [S -> AnsweredForms]
  BY <1>1
<1> QED BY <1>1, <1>2 DEF Reads

\* One of the reads arrives.
LEMMA ReadingFields ==
  ASSUME NEW call \in Readings, NEW said \in Reads
  PROVE  /\ [call EXCEPT !.unread = @ \ {"counts"}, !.counted = said] \in Readings
         /\ [call EXCEPT !.unread = @ \ {"answers"}, !.answered = said] \in Readings
<1>1. call.unread \ {"counts"} \in SUBSET {"counts", "answers"} /\ call.unread \ {"answers"} \in SUBSET {"counts", "answers"}
  BY DEF Readings
<1>2. [call EXCEPT !.unread = @ \ {"counts"}, !.counted = said] \in Readings
  BY <1>1 DEF Readings
<1>3. [call EXCEPT !.unread = @ \ {"answers"}, !.answered = said] \in Readings
  BY <1>1 DEF Readings
<1> QED BY <1>2, <1>3

LEMMA EvalInitTypeOK == ASSUME EvalInit PROVE EvalTypeOK
BY DEF EvalInit, EvalTypeOK, Rounds, EvalCalls

\* A request's record is replaced by another; nothing else of what is typed here changes.
LEMMA HoldTypeOK ==
  ASSUME EvalTypeOK, NEW c \in EvalRequests, NEW call \in EvalCalls, Hold(c, call), report' = {},
         UNCHANGED <<evalClock, round, accounts, allocated, givenBy, submissions, responses>>
  PROVE  EvalTypeOK'
BY DEF EvalTypeOK, Hold

LEMMA ReplyTypeOK == ASSUME EvalTypeOK, NEW c, Reply(c) PROVE evalCall' \in [EvalRequests -> EvalCalls]
BY DEF EvalTypeOK, Reply, EvalCalls

LEMMA EvalRequestTypeOK ==
  ASSUME EvaluationsAssumption, EvalTypeOK, NEW c \in EvalRequests, EvalRequest(c), report' = {}
  PROVE  EvalTypeOK'
<1>0. evalCall[c] \in EvalCalls
  BY DEF EvalTypeOK
<1>1. ASSUME NEW s \in Respondents, NEW u \in Taught, NEW blank \in BOOLEAN, AskSubmit(c, s, u, blank) PROVE EvalTypeOK'
  <2>1. [op |-> "submit", who |-> s, unit |-> u, blank |-> blank, edition |-> round.edition] \in EvalCalls
    BY DEF EvalTypeOK, EvalCalls, Submits, Rounds
  <2> QED BY <1>1, <2>1, HoldTypeOK DEF AskSubmit
<1>2. ASSUME NEW w \in Windows, NEW m \in Minimums, NEW asked \in BOOLEAN, AskUpdate(c, w[1], w[2], m, asked) PROVE EvalTypeOK'
  <2>1. w[1] \in Int /\ w[2] \in Int /\ m \in Nat
    BY DEF EvaluationsAssumption
  <2>2. [op |-> "update", opens |-> w[1], closes |-> w[2], min |-> m, asked |-> asked] \in EvalCalls
    BY <2>1 DEF EvalCalls, Updates
  <2> QED BY <1>2, <2>2, HoldTypeOK DEF AskUpdate
<1>3. CASE AskDelete(c)
  <2>1. [op |-> "delete"] \in EvalCalls
    BY DEF EvalCalls
  <2> QED BY <1>3, <2>1, HoldTypeOK DEF AskDelete
<1>4. ASSUME NEW scope \in Scopes, AskResults(c, scope) PROVE EvalTypeOK'
  <2>1. <<>> \in Reads
    <3>1. <<>> \in [{} -> AnsweredForms]
      OBVIOUS
    <3>2. {} \in SUBSET Nat
      OBVIOUS
    <3> QED BY <3>1, <3>2, Zenon DEF Reads
  <2>2. [op |-> "results", min |-> round.min, scope |-> scope,
         unread |-> {"counts", "answers"}, counted |-> <<>>, answered |-> <<>>] \in EvalCalls
    BY <2>1 DEF EvalTypeOK, EvalCalls, Readings, Rounds
  <2> QED BY <1>4, <2>2, HoldTypeOK DEF AskResults
<1>5. CASE ListUnitResults(c)
  <2> DEFINE said == [n \in InScope(evalCall[c].scope) |-> responses[n]]
  <2>1. evalCall[c] \in Readings
    BY <1>0, <1>5, CallKinds DEF ListUnitResults, Awaits
  <2>2. said \in Reads
    BY ReadType DEF InScope
  <2>3. Hold(c, [evalCall[c] EXCEPT !.unread = @ \ {"counts"}, !.counted = said])
    BY <1>5 DEF ListUnitResults
  <2> HIDE DEF said
  <2>4. [evalCall[c] EXCEPT !.unread = @ \ {"counts"}, !.counted = said] \in EvalCalls
    BY <2>1, <2>2, ReadingFields DEF EvalCalls
  <2> QED BY <1>5, <2>3, <2>4, HoldTypeOK DEF ListUnitResults
<1>6. CASE ListAnswers(c)
  <2> DEFINE said == [n \in AnsweredIn(evalCall[c].scope) |-> responses[n]]
  <2>1. evalCall[c] \in Readings
    BY <1>0, <1>6, CallKinds DEF ListAnswers, Awaits
  <2>2. said \in Reads
    BY ReadType DEF InScope, AnsweredIn
  <2>3. Hold(c, [evalCall[c] EXCEPT !.unread = @ \ {"answers"}, !.answered = said])
    BY <1>6 DEF ListAnswers
  <2> HIDE DEF said
  <2>4. [evalCall[c] EXCEPT !.unread = @ \ {"answers"}, !.answered = said] \in EvalCalls
    BY <2>1, <2>2, ReadingFields DEF EvalCalls
  <2> QED BY <1>6, <2>3, <2>4, HoldTypeOK DEF ListAnswers
<1>7. CASE Submit(c)
  <2> DEFINE call == evalCall[c]
             given == ResponseTo(call)
  <2>1. call \in Submits
    BY <1>0, <1>7, CallKinds DEF Submit
  <2>2. given \in AnsweredForms /\ <<call.who, call.unit>> \in Respondents \X Taught
    <3>1. /\ call.who \in Respondents /\ call.unit \in Taught /\ call.blank \in BOOLEAN /\ call.edition \in Nat
          /\ givenBy[call.unit] \in Owners
      BY <2>1 DEF EvalTypeOK, Submits
    <3> HIDE DEF call
    <3>2. (IF call.blank THEN 0 ELSE call.edition) \in Nat
      BY <3>1
    <3>3. given \in AnsweredForms
      BY <3>1, <3>2, Zenon DEF AnsweredForms, ResponseTo
    <3> QED BY <3>1, <3>3
  <2>3. \/ submissions' = submissions \cup {<<call.who, call.unit>>} /\ responses' = Append(responses, given)
        \/ UNCHANGED <<submissions, responses>>
    BY <1>7 DEF Submit
  <2>4. evalCall' \in [EvalRequests -> EvalCalls] /\ UNCHANGED <<evalClock, round, accounts, allocated, givenBy>>
    BY <1>7, ReplyTypeOK DEF Submit
  <2> HIDE DEF given, call
  <2>5. responses' \in Seq(AnsweredForms)
    BY <2>2, <2>3 DEF EvalTypeOK
  <2>6. submissions' \subseteq Respondents \X Taught
    BY <2>2, <2>3 DEF EvalTypeOK
  <2> QED BY <2>4, <2>5, <2>6 DEF EvalTypeOK
<1>8. CASE UpdateRound(c)
  <2> DEFINE call == evalCall[c]
             edition == IF Replaces(call.asked) THEN round.edition + 1 ELSE round.edition
             new == [round EXCEPT !.opens = call.opens, !.closes = call.closes, !.min = call.min, !.edition = edition]
  <2>1. call \in Updates /\ round \in Rounds /\ edition \in Nat
    BY <1>0, <1>8, CallKinds DEF UpdateRound, EvalTypeOK, Rounds
  <2>2. new \in Rounds
    <3>1. call.opens \in Int /\ call.closes \in Int /\ call.min \in Nat
      BY <2>1 DEF Updates
    <3> HIDE DEF edition, call
    <3> QED BY <2>1, <3>1, RoundFields
  <2>3. \/ UNCHANGED <<round, responses>>
        \/ round' = new /\ responses' = WithoutAnswers(responses)
        \/ round' = new /\ responses' = responses
    BY <1>8 DEF UpdateRound
  <2>4. WithoutAnswers(responses) \in Seq(AnsweredForms)
    BY WithoutAnswersType
  <2>5. evalCall' \in [EvalRequests -> EvalCalls] /\ UNCHANGED <<evalClock, accounts, allocated, givenBy, submissions>>
    BY <1>8, ReplyTypeOK DEF UpdateRound
  <2> HIDE DEF new
  <2> QED BY <2>2, <2>3, <2>4, <2>5 DEF EvalTypeOK
<1>9. CASE DeleteRound(c)
  <2>1. [round EXCEPT !.there = FALSE] \in Rounds
    BY RoundFields DEF EvalTypeOK, Rounds
  <2>2. evalCall' \in [EvalRequests -> EvalCalls]
    BY <1>9, ReplyTypeOK DEF DeleteRound
  <2> QED BY <1>9, <2>1, <2>2 DEF DeleteRound, EvalTypeOK
<1> QED BY <1>1, <1>2, <1>3, <1>4, <1>5, <1>6, <1>7, <1>8, <1>9 DEF EvalRequest

LEMMA ResultsTypeOK ==
  ASSUME EvalTypeOK, NEW c \in EvalRequests, GetResults(c)
  PROVE  EvalTypeOK'
BY ReplyTypeOK DEF GetResults, EvalTypeOK

LEMMA EvalNextTypeOK ==
  ASSUME EvaluationsAssumption, EvalTypeOK, [EvalNext]_evalVars
  PROVE  EvalTypeOK'
<1>1. CASE EvalTick /\ report' = {}
  BY <1>1 DEF EvalTick, EvalTypeOK
<1>2. ASSUME NEW s \in Respondents, NEW u \in Taught, Join(s, u) \/ Withdraw(s, u), report' = {} PROVE EvalTypeOK'
  BY <1>2 DEF Join, Withdraw, EvalTypeOK
<1>3. ASSUME NEW u \in Taught, NEW w \in Owners, ChangeHands(u, w), report' = {} PROVE EvalTypeOK'
  BY <1>3 DEF ChangeHands, EvalTypeOK
<1>4. ASSUME NEW s \in Respondents, DeleteStudent(s), report' = {} PROVE EvalTypeOK'
  BY <1>4 DEF DeleteStudent, EvalTypeOK
<1>5. ASSUME NEW w \in Windows, NEW m \in Minimums, CreateRound(w, m), report' = {} PROVE EvalTypeOK'
  <2>1. w[1] \in Int /\ w[2] \in Int /\ m \in Nat
    BY DEF EvaluationsAssumption
  <2>2. [there |-> TRUE, opens |-> w[1], closes |-> w[2], min |-> m, edition |-> 1] \in Rounds
    BY <2>1 DEF Rounds
  <2> QED BY <1>5, <2>2 DEF CreateRound, EvalTypeOK
<1>6. CASE CloseRound /\ report' = {}
  <2> DEFINE opens == IF round.opens < evalClock THEN round.opens ELSE evalClock - 1
  <2>1. opens \in Int /\ evalClock \in Int /\ round \in Rounds
    BY DEF EvalTypeOK, Rounds
  <2>2. round' = [round EXCEPT !.opens = opens, !.closes = evalClock]
    BY <1>6 DEF CloseRound
  <2> HIDE DEF opens
  <2>3. [round EXCEPT !.opens = opens, !.closes = evalClock] \in Rounds
    BY <2>1, RoundFields
  <2> QED BY <1>6, <2>2, <2>3 DEF CloseRound, EvalTypeOK
<1>7. CASE UNCHANGED evalVars
  BY <1>7 DEF evalVars, EvalTypeOK
<1> QED BY <1>1, <1>2, <1>3, <1>4, <1>5, <1>6, <1>7, EvalRequestTypeOK, ResultsTypeOK DEF EvalNext, EvalChange

\* Before the one round there are no submissions, no responses and no requests.
RoundBegun ==
  round.edition = 0 => ~round.there /\ responses = <<>> /\ submissions = {} /\ \A c \in EvalRequests : evalCall[c] = CallDone

\* What a reader holds stands among the responses, in its scope.
Stands(said, scope) ==
  \A n \in DOMAIN said : n \in DOMAIN responses /\ responses[n] = said[n] /\ said[n].owner[2] \in scope

ReadsStand ==
  round.there => \A c \in EvalRequests : evalCall[c].op = "results" =>
     Stands(evalCall[c].counted, evalCall[c].scope) /\ Stands(evalCall[c].answered, evalCall[c].scope)

\* Everything the results rest on.
RoundInv == RoundBegun /\ AnswersFitQuestions /\ IsFiniteSet(submissions) /\ ReadsStand /\ ShownOnlyFromMinimum

\* What a step makes of the round, the submissions and the responses.
LEMMA RoundSteps ==
  ASSUME EvalTypeOK, RoundBegun, AnswersFitQuestions, IsFiniteSet(submissions), [EvalNext]_evalVars
  PROVE  \/ UNCHANGED <<submissions, responses>> /\ round'.edition = round.edition /\ (round'.there <=> round.there)
         \/ round.edition = 0 /\ round'.edition = 1 /\ UNCHANGED <<submissions, responses>>
         \/ submissions = {} /\ responses = <<>> /\ UNCHANGED <<submissions, responses>>
            /\ round'.edition # 0 /\ (round'.there <=> round.there)
         \/ submissions' = {} /\ responses' = <<>> /\ round'.edition = round.edition /\ ~round'.there
         \/ \E c \in EvalRequests : Submit(c) /\ Accepts(evalCall[c]) /\ round' = round
<1> DEFINE Same == UNCHANGED <<submissions, responses>> /\ round'.edition = round.edition /\ (round'.there <=> round.there)
<1>0. round \in Rounds /\ round.edition \in Nat /\ responses \in Seq(AnsweredForms)
  BY DEF EvalTypeOK, Rounds
<1>1. CASE UNCHANGED <<round, submissions, responses>>
  BY <1>1
<1>2. ASSUME NEW w \in Windows, NEW m \in Minimums, CreateRound(w, m)
      PROVE  round.edition = 0 /\ round'.edition = 1 /\ UNCHANGED <<submissions, responses>>
  BY <1>2 DEF CreateRound
<1>3. ASSUME CloseRound PROVE Same
  <2> DEFINE opens == IF round.opens < evalClock THEN round.opens ELSE evalClock - 1
  <2>1. round' = [round EXCEPT !.opens = opens, !.closes = evalClock] /\ UNCHANGED <<submissions, responses>>
    BY <1>3 DEF CloseRound
  <2> HIDE DEF opens
  <2>2. round'.edition = round.edition
    BY <1>0, <2>1 DEF Rounds
  <2>3. round'.there = round.there
    BY <1>0, <2>1 DEF Rounds
  <2> QED BY <2>1, <2>2, <2>3
<1>4. ASSUME NEW c \in EvalRequests, DeleteRound(c)
      PROVE  submissions' = {} /\ responses' = <<>> /\ round'.edition = round.edition /\ ~round'.there
  <2>1. round' = [round EXCEPT !.there = FALSE] /\ submissions' = {} /\ responses' = <<>>
    BY <1>4 DEF DeleteRound
  <2>2. round'.edition = round.edition
    BY <1>0, <2>1 DEF Rounds
  <2>3. round'.there = FALSE
    BY <1>0, <2>1 DEF Rounds
  <2> QED BY <2>1, <2>2, <2>3
<1>5. ASSUME NEW c \in EvalRequests, UpdateRound(c)
      PROVE  \/ Same
             \/ submissions = {} /\ responses = <<>> /\ UNCHANGED <<submissions, responses>>
                /\ round'.edition # 0 /\ (round'.there <=> round.there)
  <2> DEFINE call == evalCall[c]
             edition == IF Replaces(call.asked) THEN round.edition + 1 ELSE round.edition
             new == [round EXCEPT !.opens = call.opens, !.closes = call.closes, !.min = call.min, !.edition = edition]
  <2>1. /\ submissions' = submissions
        /\ \/ UNCHANGED <<round, responses>>
           \/ round' = new /\ responses' = IF Replaces(call.asked) THEN WithoutAnswers(responses) ELSE responses
    BY <1>5 DEF UpdateRound
  <2>2. new.there = round.there
    BY <1>0 DEF Rounds
  <2>3. new.edition = edition
    BY <1>0 DEF Rounds
  <2>4. CASE Replaces(call.asked) /\ round' = new
    <3>1. submissions = {}
      BY <2>4 DEF Replaces
    <3>2. Cardinality({}) = 0 /\ Len(responses) = Cardinality(submissions)
      BY FS_EmptySet DEF AnswersFitQuestions
    <3>3. responses = <<>>
      BY <1>0, <3>1, <3>2
    <3>4. responses' = <<>>
      <4>1. responses' = responses \/ responses' = WithoutAnswers(responses)
        BY <2>1
      <4>2. WithoutAnswers(responses) \in Seq(AnsweredForms) /\ Len(WithoutAnswers(responses)) = 0
        BY <3>3, WithoutAnswersType
      <4>3. WithoutAnswers(responses) = <<>>
        BY <4>2
      <4> QED BY <3>3, <4>1, <4>3
    <3>5. edition # 0
      BY <1>0, <2>4
    <3> QED BY <2>1, <2>2, <2>3, <2>4, <3>1, <3>3, <3>4, <3>5
  <2>5. CASE ~Replaces(call.asked) /\ round' = new
    <3>1. edition = round.edition
      BY <2>5
    <3>2. responses' = responses
      BY <2>1, <2>5
    <3> HIDE DEF new, edition
    <3> QED BY <2>1, <2>2, <2>3, <2>5, <3>1, <3>2
  <2> QED BY <2>1, <2>4, <2>5
<1>6. ASSUME NEW c \in EvalRequests, Submit(c)
      PROVE  UNCHANGED <<round, submissions, responses>> \/ (Accepts(evalCall[c]) /\ round' = round)
  BY <1>6 DEF Submit
<1>7. ASSUME NEW c \in EvalRequests,
             \/ \E s \in Respondents, u \in Taught, blank \in BOOLEAN : AskSubmit(c, s, u, blank)
             \/ \E w \in Windows, m \in Minimums, asked \in BOOLEAN : AskUpdate(c, w[1], w[2], m, asked)
             \/ \E scope \in Scopes : AskResults(c, scope)
             \/ AskDelete(c) \/ ListUnitResults(c) \/ ListAnswers(c) \/ GetResults(c)
      PROVE  UNCHANGED <<round, submissions, responses>>
  BY <1>7 DEF AskSubmit, AskUpdate, AskDelete, AskResults, ListUnitResults, ListAnswers, GetResults
<1>8. ASSUME EvalChange
      PROVE  \/ UNCHANGED <<round, submissions, responses>>
             \/ \E w \in Windows, m \in Minimums : CreateRound(w, m)
             \/ CloseRound
             \/ \E c \in EvalRequests : Submit(c) \/ DeleteRound(c) \/ UpdateRound(c)
  BY <1>7, <1>8 DEF EvalChange, EvalRequest, EvalTick, Join, Withdraw, ChangeHands, DeleteStudent
<1> QED BY <1>1, <1>2, <1>3, <1>4, <1>5, <1>6, <1>7, <1>8 DEF EvalNext, evalVars

LEMMA AnswersFitNext ==
  ASSUME EvalTypeOK, RoundBegun, AnswersFitQuestions, IsFiniteSet(submissions), [EvalNext]_evalVars
  PROVE  AnswersFitQuestions' /\ IsFiniteSet(submissions')
<1>0. responses \in Seq(AnsweredForms) /\ Cardinality({}) = 0 /\ IsFiniteSet({})
  BY FS_EmptySet DEF EvalTypeOK
<1>1. CASE UNCHANGED <<submissions, responses>> /\ round'.edition = round.edition
  BY <1>1 DEF AnswersFitQuestions
<1>2. CASE round.edition = 0 /\ UNCHANGED <<submissions, responses>>
  BY <1>0, <1>2 DEF AnswersFitQuestions, RoundBegun
<1>3. CASE submissions' = {} /\ responses' = <<>>
  BY <1>0, <1>3 DEF AnswersFitQuestions
<1>4. ASSUME NEW c \in EvalRequests, Submit(c), Accepts(evalCall[c]), round' = round
      PROVE  AnswersFitQuestions' /\ IsFiniteSet(submissions')
  <2> DEFINE call == evalCall[c]
             pair == <<call.who, call.unit>>
             given == ResponseTo(call)
  <2>1. submissions' = submissions \cup {pair} /\ responses' = Append(responses, given)
    BY <1>4 DEF Submit
  <2>2. pair \notin submissions /\ given.edition = IF given.blank THEN 0 ELSE round.edition
    BY <1>4 DEF Accepts, ResponseTo
  <2> HIDE DEF pair, given
  <2>3. Cardinality(submissions') = Cardinality(submissions) + 1 /\ IsFiniteSet(submissions')
    BY <2>1, <2>2, FS_AddElement
  <2>4. Len(responses') = Len(responses) + 1 /\ \A n \in DOMAIN responses' : responses'[n] = given \/ (n \in DOMAIN responses /\ responses'[n] = responses[n])
    BY <1>0, <2>1
  <2> QED BY <1>4, <2>2, <2>3, <2>4 DEF AnswersFitQuestions
<1> QED BY <1>1, <1>2, <1>3, <1>4, RoundSteps

LEMMA RoundBegunNext ==
  ASSUME EvalTypeOK, RoundBegun, AnswersFitQuestions, IsFiniteSet(submissions), [EvalNext]_evalVars
  PROVE  RoundBegun'
<1>1. CASE round.edition # 0
  <2>1. round'.edition # 0
    BY <1>1, RoundSteps
  <2> QED BY <2>1 DEF RoundBegun
<1>2. CASE round.edition = 0
  <2>1. ~round.there /\ responses = <<>> /\ submissions = {} /\ \A c \in EvalRequests : evalCall[c] = CallDone
    BY <1>2 DEF RoundBegun
  <2>2. \A c \in EvalRequests : ~EvalRequest(c) /\ ~GetResults(c)
    <3>1. ASSUME NEW c \in EvalRequests PROVE evalCall[c].op = "none"
      BY <2>1 DEF CallDone
    <3>2. ASSUME NEW c \in EvalRequests
          PROVE  ~(Submit(c) \/ UpdateRound(c) \/ DeleteRound(c) \/ ListUnitResults(c) \/ ListAnswers(c) \/ GetResults(c))
      BY <3>1 DEF GetResults, Submit, UpdateRound, DeleteRound, ListUnitResults, ListAnswers, Awaits
    <3>3. ASSUME NEW c \in EvalRequests
          PROVE  ~(\/ AskDelete(c)
                   \/ \E scope \in Scopes : AskResults(c, scope)
                   \/ \E s \in Respondents, u \in Taught, blank \in BOOLEAN : AskSubmit(c, s, u, blank)
                   \/ \E w \in Windows, m \in Minimums, asked \in BOOLEAN : AskUpdate(c, w[1], w[2], m, asked))
      BY <2>1 DEF AskSubmit, IsOpen, AskUpdate, AskDelete, AskResults
    <3> QED BY <3>2, <3>3 DEF EvalRequest
  <2>3. \/ UNCHANGED <<round, responses, submissions, evalCall>>
        \/ \E w \in Windows, m \in Minimums : CreateRound(w, m)
    BY <2>1, <2>2 DEF EvalNext, EvalChange, EvalTick, Join, Withdraw, ChangeHands, DeleteStudent, CloseRound, evalVars
  <2>4. CASE UNCHANGED <<round, responses, submissions, evalCall>>
    BY <2>4 DEF RoundBegun
  <2>5. CASE \E w \in Windows, m \in Minimums : CreateRound(w, m)
    BY <2>5 DEF RoundBegun, CreateRound
  <2> QED BY <2>3, <2>4, <2>5
<1> QED BY <1>1, <1>2

\* While a round stands, its responses are only added to.
LEMMA ResponsesStay ==
  ASSUME EvalTypeOK, RoundBegun, AnswersFitQuestions, IsFiniteSet(submissions), [EvalNext]_evalVars,
         round.there, round'.there, NEW said, NEW scope, Stands(said, scope)
  PROVE  \A n \in DOMAIN said : n \in DOMAIN responses' /\ responses'[n] = said[n] /\ said[n].owner[2] \in scope
<1>0. responses \in Seq(AnsweredForms) /\ round.edition # 0
  BY DEF EvalTypeOK, RoundBegun
<1>1. CASE UNCHANGED responses
  BY <1>1 DEF Stands
<1>2. ASSUME NEW c \in EvalRequests, Submit(c), NEW n \in DOMAIN responses
      PROVE  n \in DOMAIN responses' /\ responses'[n] = responses[n]
  <2>1. responses' = responses \/ \E given : responses' = Append(responses, given)
    BY <1>2 DEF Submit
  <2> QED BY <1>0, <1>2, <2>1
<1> QED BY <1>0, <1>1, <1>2, RoundSteps DEF Stands

\* What a step makes of a request that holds what it read.
LEMMA CallSteps ==
  ASSUME EvalTypeOK, [EvalNext]_evalVars, NEW c \in EvalRequests
  PROVE  \/ evalCall'[c] = evalCall[c]
         \/ evalCall'[c].op # "results"
         \/ evalCall'[c].counted = <<>> /\ evalCall'[c].answered = <<>>
         \/ ListUnitResults(c) \/ ListAnswers(c)
<1> DEFINE Plain(call) == call.op # "results" \/ (call.counted = <<>> /\ call.answered = <<>>)
           Held == evalCall'[c] = evalCall[c] \/ Plain(evalCall'[c])
<1>1. ASSUME NEW d \in EvalRequests, NEW call, Hold(d, call), Plain(call) PROVE Held
  <2> HIDE DEF Plain
  <2> QED BY <1>1 DEF Hold, EvalTypeOK
<1>2. ASSUME NEW d \in EvalRequests, Reply(d) PROVE Held
  BY <1>2 DEF Reply, EvalTypeOK, CallDone
<1>3. ASSUME NEW d \in EvalRequests, NEW call, Hold(d, call), d # c PROVE Held
  BY <1>3 DEF Hold, EvalTypeOK
<1>4. ASSUME UNCHANGED evalCall PROVE Held
  BY <1>4
<1>5. ASSUME NEW d \in EvalRequests, NEW s \in Respondents, NEW u \in Taught, NEW blank \in BOOLEAN, AskSubmit(d, s, u, blank) PROVE Held
  <2>1. Plain([op |-> "submit", who |-> s, unit |-> u, blank |-> blank, edition |-> round.edition])
    OBVIOUS
  <2> HIDE DEF Plain, Held
  <2> QED BY <1>1, <1>5, <2>1 DEF AskSubmit
<1>6. ASSUME NEW d \in EvalRequests, NEW w \in Windows, NEW m \in Minimums, NEW asked \in BOOLEAN, AskUpdate(d, w[1], w[2], m, asked)
      PROVE  Held
  <2>1. Plain([op |-> "update", opens |-> w[1], closes |-> w[2], min |-> m, asked |-> asked])
    OBVIOUS
  <2> HIDE DEF Plain, Held
  <2> QED BY <1>1, <1>6, <2>1 DEF AskUpdate
<1>7. ASSUME NEW d \in EvalRequests, AskDelete(d) \/ \E scope \in Scopes : AskResults(d, scope) PROVE Held
  <2>1. Plain([op |-> "delete"])
    OBVIOUS
  <2>2. ASSUME NEW scope
        PROVE  Plain([op |-> "results", min |-> round.min, scope |-> scope,
                      unread |-> {"counts", "answers"}, counted |-> <<>>, answered |-> <<>>])
    OBVIOUS
  <2> HIDE DEF Plain, Held
  <2> QED BY <1>1, <1>7, <2>1, <2>2 DEF AskDelete, AskResults
<1>8. ASSUME NEW d \in EvalRequests, Submit(d) \/ UpdateRound(d) \/ DeleteRound(d) \/ GetResults(d) PROVE Held
  BY <1>2, <1>8 DEF Submit, UpdateRound, DeleteRound, GetResults
<1>9. ASSUME NEW d \in EvalRequests, d # c, ListUnitResults(d) \/ ListAnswers(d) PROVE Held
  <2>1. \E call : Hold(d, call)
    BY <1>9 DEF ListUnitResults, ListAnswers
  <2> QED BY <1>3, <1>9, <2>1
<1>10. ASSUME EvalChange, ~ListUnitResults(c), ~ListAnswers(c) PROVE Held
  <2> HIDE DEF Held
  <2>1. CASE \E d \in EvalRequests : EvalRequest(d)
    BY <1>5, <1>6, <1>7, <1>8, <1>9, <1>10, <2>1 DEF EvalRequest
  <2>2. CASE ~\E d \in EvalRequests : EvalRequest(d)
    <3>1. UNCHANGED evalCall
      BY <1>10, <2>2 DEF EvalChange, EvalTick, Join, Withdraw, ChangeHands, DeleteStudent, CreateRound, CloseRound
    <3> QED BY <1>4, <3>1
  <2> QED BY <2>1, <2>2
<1>11. CASE UNCHANGED evalVars
  BY <1>11 DEF evalVars
<1> HIDE DEF Held
<1>12. Held => evalCall'[c] = evalCall[c] \/ evalCall'[c].op # "results"
               \/ (evalCall'[c].counted = <<>> /\ evalCall'[c].answered = <<>>)
  BY DEF Held
<1> QED BY <1>8, <1>10, <1>11, <1>12 DEF EvalNext

\* What the two reads leave in the request's record.
LEMMA ReadsArrive ==
  ASSUME EvalTypeOK, NEW c \in EvalRequests
  PROVE  /\ ListUnitResults(c) =>
              /\ evalCall'[c].counted = [n \in InScope(evalCall[c].scope) |-> responses[n]]
              /\ evalCall'[c].answered = evalCall[c].answered
         /\ ListAnswers(c) =>
              /\ evalCall'[c].answered = [n \in AnsweredIn(evalCall[c].scope) |-> responses[n]]
              /\ evalCall'[c].counted = evalCall[c].counted
         /\ ListUnitResults(c) \/ ListAnswers(c) =>
              /\ evalCall'[c].scope = evalCall[c].scope
              /\ evalCall[c].op = "results" /\ UNCHANGED <<round, responses>>
<1>1. ASSUME ListUnitResults(c) \/ ListAnswers(c) PROVE evalCall[c] \in Readings
  BY <1>1, CallKinds DEF EvalTypeOK, ListUnitResults, ListAnswers, Awaits
<1>2. ASSUME ListUnitResults(c)
      PROVE  /\ evalCall'[c].counted = [n \in InScope(evalCall[c].scope) |-> responses[n]]
             /\ evalCall'[c].answered = evalCall[c].answered
             /\ evalCall'[c].scope = evalCall[c].scope
  <2> DEFINE said == [n \in InScope(evalCall[c].scope) |-> responses[n]]
  <2>1. evalCall'[c] = [evalCall[c] EXCEPT !.unread = @ \ {"counts"}, !.counted = said]
    BY <1>2 DEF ListUnitResults, Hold, EvalTypeOK
  <2> HIDE DEF said
  <2>2. evalCall'[c].counted = said /\ evalCall'[c].answered = evalCall[c].answered /\ evalCall'[c].scope = evalCall[c].scope
    BY <1>1, <1>2, <2>1 DEF Readings
  <2> QED BY <2>2 DEF said
<1>3. ASSUME ListAnswers(c)
      PROVE  /\ evalCall'[c].answered = [n \in AnsweredIn(evalCall[c].scope) |-> responses[n]]
             /\ evalCall'[c].counted = evalCall[c].counted
             /\ evalCall'[c].scope = evalCall[c].scope
  <2> DEFINE said == [n \in AnsweredIn(evalCall[c].scope) |-> responses[n]]
  <2>1. evalCall'[c] = [evalCall[c] EXCEPT !.unread = @ \ {"answers"}, !.answered = said]
    BY <1>3 DEF ListAnswers, Hold, EvalTypeOK
  <2> HIDE DEF said
  <2>2. evalCall'[c].answered = said /\ evalCall'[c].counted = evalCall[c].counted /\ evalCall'[c].scope = evalCall[c].scope
    BY <1>1, <1>3, <2>1 DEF Readings
  <2> QED BY <2>2 DEF said
<1>4. ListUnitResults(c) \/ ListAnswers(c) => evalCall[c].op = "results" /\ UNCHANGED <<round, responses>>
  BY DEF ListUnitResults, ListAnswers, Awaits
<1> QED BY <1>2, <1>3, <1>4

LEMMA ReadsStandNext ==
  ASSUME EvalTypeOK, RoundBegun, AnswersFitQuestions, IsFiniteSet(submissions), ReadsStand, [EvalNext]_evalVars
  PROVE  ReadsStand'
<1> DEFINE Kept(said, scope) == \A n \in DOMAIN said : n \in DOMAIN responses' /\ responses'[n] = said[n] /\ said[n].owner[2] \in scope
<1> SUFFICES ASSUME round'.there, NEW c \in EvalRequests, evalCall'[c].op = "results"
             PROVE  Kept(evalCall'[c].counted, evalCall'[c].scope) /\ Kept(evalCall'[c].answered, evalCall'[c].scope)
  BY DEF ReadsStand, Stands
<1> HIDE DEF Kept
<1>1. ASSUME evalCall'[c] = evalCall[c], round.there
      PROVE  Kept(evalCall'[c].counted, evalCall'[c].scope) /\ Kept(evalCall'[c].answered, evalCall'[c].scope)
  <2>1. Stands(evalCall[c].counted, evalCall[c].scope) /\ Stands(evalCall[c].answered, evalCall[c].scope)
    BY <1>1 DEF ReadsStand
  <2> QED BY <1>1, <2>1, ResponsesStay DEF Kept
<1>2. ASSUME evalCall'[c].counted = <<>>, evalCall'[c].answered = <<>>
      PROVE  Kept(evalCall'[c].counted, evalCall'[c].scope) /\ Kept(evalCall'[c].answered, evalCall'[c].scope)
  BY <1>2 DEF Kept
<1>3. ASSUME NEW scope, UNCHANGED responses
      PROVE  Kept([n \in InScope(scope) |-> responses[n]], scope) /\ Kept([n \in AnsweredIn(scope) |-> responses[n]], scope)
  BY <1>3 DEF Kept, InScope, AnsweredIn
<1>4. ASSUME ListUnitResults(c) \/ ListAnswers(c)
      PROVE  Kept(evalCall'[c].counted, evalCall'[c].scope) /\ Kept(evalCall'[c].answered, evalCall'[c].scope)
  <2>1. /\ UNCHANGED <<round, responses>> /\ evalCall'[c].scope = evalCall[c].scope
        /\ Stands(evalCall[c].counted, evalCall[c].scope) /\ Stands(evalCall[c].answered, evalCall[c].scope)
    BY <1>4, ReadsArrive DEF ReadsStand
  <2>2. Kept(evalCall[c].counted, evalCall[c].scope) /\ Kept(evalCall[c].answered, evalCall[c].scope)
    BY <2>1 DEF Kept, Stands
  <2>3. CASE ListUnitResults(c)
    <3>1. Kept(evalCall'[c].counted, evalCall[c].scope)
      BY <1>3, <2>1, <2>3, ReadsArrive
    <3> QED BY <2>1, <2>2, <2>3, <3>1, ReadsArrive
  <2>4. CASE ListAnswers(c)
    <3>1. Kept(evalCall'[c].answered, evalCall[c].scope)
      BY <1>3, <2>1, <2>4, ReadsArrive
    <3> QED BY <2>1, <2>2, <2>4, <3>1, ReadsArrive
  <2> QED BY <1>4, <2>3, <2>4
<1>5. CASE ~round.there
  <2>1. round.edition = 0
    BY <1>5, RoundSteps
  <2>2. evalCall[c].op = "none" /\ ~ListUnitResults(c) /\ ~ListAnswers(c)
    BY <2>1 DEF RoundBegun, CallDone, ListUnitResults, ListAnswers, Awaits
  <2> QED BY <1>2, <2>2, CallSteps
<1> QED BY <1>1, <1>2, <1>4, <1>5, CallSteps

\* What is returned out of reads that stand.
LEMMA EntryStands ==
  ASSUME EvalTypeOK, NEW call \in Readings, Stands(call.counted, call.scope), Stands(call.answered, call.scope),
         NEW units, NEW lecturers, NEW group, group \subseteq DOMAIN call.counted,
         \A n \in group : call.counted[n].unit \in units /\ call.counted[n].owner[1] \in lecturers,
         NEW entry, entry = Entry(call, units, lecturers, Cardinality(group)), entry.reportable
  PROVE  entry.shows \subseteq Behind(entry) /\ Cardinality(Behind(entry)) >= entry.min
<1>1. /\ entry.units = units /\ entry.lecturers = lecturers /\ entry.scope = call.scope /\ entry.min = call.min
      /\ entry.reportable = Reportable(Cardinality(group), call.min)
      /\ entry.shows = IF Reportable(Cardinality(group), call.min) THEN About(call.answered, units, lecturers) ELSE {}
  BY DEF Entry
<1>2. entry.shows \subseteq Behind(entry)
  BY <1>1 DEF Stands, About, Behind
<1>3. group \subseteq Behind(entry)
  BY <1>1 DEF Stands, Behind
<1>4. IsFiniteSet(Behind(entry))
  <2>1. IsFiniteSet(DOMAIN responses) /\ Behind(entry) \subseteq DOMAIN responses
    BY FS_Interval DEF EvalTypeOK, Behind
  <2> QED BY <2>1, FS_Subset
<1>5. /\ Cardinality(group) <= Cardinality(Behind(entry))
      /\ Cardinality(group) \in Nat /\ Cardinality(Behind(entry)) \in Nat
  BY <1>3, <1>4, FS_Subset, FS_CardinalityType
<1>6. Cardinality(group) >= call.min /\ call.min \in Nat
  BY <1>1 DEF Reportable, Readings
<1>7. Cardinality(Behind(entry)) >= entry.min
  <2> HIDE DEF Behind
  <2> QED BY <1>1, <1>5, <1>6
<1> QED BY <1>2, <1>7

LEMMA ShownNext ==
  ASSUME EvalTypeOK, ReadsStand, ShownOnlyFromMinimum, [EvalNext]_evalVars
  PROVE  ShownOnlyFromMinimum'
<1>1. CASE report' = {}
  BY <1>1 DEF ShownOnlyFromMinimum
<1>2. CASE UNCHANGED evalVars
  BY <1>2 DEF evalVars, ShownOnlyFromMinimum, Behind
<1>3. ASSUME NEW c \in EvalRequests, GetResults(c) PROVE ShownOnlyFromMinimum'
  <2> DEFINE call == evalCall[c]
  <2>1. call \in Readings
    BY <1>3, CallKinds DEF GetResults, EvalTypeOK
  <2>2. UNCHANGED <<round, responses>> /\ report' = ResultRows(call) \cup {Overall(call)}
    BY <1>3 DEF GetResults
  <2> SUFFICES ASSUME round.there, NEW entry \in ResultRows(call) \cup {Overall(call)}, entry.reportable
               PROVE  entry.shows \subseteq Behind(entry) /\ Cardinality(Behind(entry)) >= entry.min
    BY <2>2 DEF ShownOnlyFromMinimum, Behind
  <2>3. Stands(call.counted, call.scope) /\ Stands(call.answered, call.scope)
    BY <1>3 DEF ReadsStand, GetResults
  <2>4. CASE entry \in ResultRows(call)
    <3>1. PICK k \in Taught \X Owners :
            entry = Entry(call, {k[1]}, {k[2][1]}, Cardinality(CountedFor(call.counted, k[1], k[2])))
      BY <2>4 DEF ResultRows
    <3> DEFINE group == CountedFor(call.counted, k[1], k[2])
    <3>2. group \subseteq DOMAIN call.counted
      BY DEF CountedFor
    <3>3. \A n \in group : call.counted[n].unit \in {k[1]} /\ call.counted[n].owner[1] \in {k[2][1]}
      BY DEF CountedFor
    <3> HIDE DEF group, call
    <3>4. entry = Entry(call, {k[1]}, {k[2][1]}, Cardinality(group))
      BY <3>1 DEF group
    <3> QED BY <2>1, <2>3, <3>2, <3>3, <3>4, EntryStands
  <2>5. CASE entry = Overall(call)
    <3>0. \A n \in DOMAIN responses : responses[n].unit \in Taught /\ responses[n].owner \in Owners
      <4>1. \A n \in DOMAIN responses : responses[n] \in AnsweredForms
        BY DEF EvalTypeOK
      <4> QED BY <4>1 DEF AnsweredForms
    <3>1. \A n \in DOMAIN call.counted : call.counted[n].unit \in Taught /\ call.counted[n].owner \in Owners
      <4> HIDE DEF call
      <4> QED BY <2>3, <3>0 DEF Stands
    <3>2. \A n \in DOMAIN call.counted : call.counted[n].owner[1] \in {w[1] : w \in Owners}
      BY <3>1
    <3>3. entry = Entry(call, Taught, {w[1] : w \in Owners}, Cardinality(DOMAIN call.counted))
      BY <2>5 DEF Overall
    <3> HIDE DEF call
    <3> QED BY <2>1, <2>3, <3>1, <3>2, <3>3, EntryStands
  <2> QED BY <2>4, <2>5
<1> QED BY <1>1, <1>2, <1>3 DEF EvalNext

\* What holds of every state.
EvaluationsInv == EvalTypeOK /\ RoundInv

LEMMA EvaluationsInductive ==
  ASSUME EvaluationsAssumption
  PROVE  /\ EvalInit => EvaluationsInv
         /\ EvaluationsInv /\ [EvalNext]_evalVars => EvaluationsInv'
         /\ EvaluationsInv => AnswersFitQuestions /\ ShownOnlyFromMinimum
<1>1. EvalInit => RoundInv
  BY FS_EmptySet DEF EvalInit, RoundInv, RoundBegun, AnswersFitQuestions, ReadsStand, CallDone, ShownOnlyFromMinimum
<1>2. EvalTypeOK /\ RoundInv /\ [EvalNext]_evalVars => RoundInv'
  BY EvalNextTypeOK, RoundBegunNext, AnswersFitNext, ReadsStandNext, ShownNext DEF RoundInv
<1>3. RoundInv => AnswersFitQuestions /\ ShownOnlyFromMinimum
  BY DEF RoundInv
<1> QED BY <1>1, <1>2, <1>3, EvalInitTypeOK, EvalNextTypeOK DEF EvaluationsInv

(* The round, the submissions, the responses and the requests keep their    *)
(* types.                                                                   *)
THEOREM EvaluationTypes ==
  ASSUME EvaluationsAssumption
  PROVE  EvalSpec => []EvalTypeOK
<1>1. EvaluationsInv => EvalTypeOK
  BY DEF EvaluationsInv
<1> QED BY <1>1, EvaluationsInductive, PTL DEF EvalSpec

(* Every response answers the questions the round has, and there is one per *)
(* submission, however the officers' updates, deletions and the students'   *)
(* submissions overlap (evaluation.repository.ts updateRound, submit).      *)
THEOREM AnswersAlwaysFit ==
  ASSUME EvaluationsAssumption
  PROVE  EvalSpec => []AnswersFitQuestions
BY EvaluationsInductive, PTL DEF EvalSpec

(* Answers are given only out of a group of responses as large as the round *)
(* asks when they are given, the rows' groups and `overall` alike, for any  *)
(* students, owners, scopes and requests (evaluation.service.ts             *)
(* getResults).                                                             *)
THEOREM ShownAlwaysFromMinimum ==
  ASSUME EvaluationsAssumption
  PROVE  EvalSpec => []ShownOnlyFromMinimum
BY EvaluationsInductive, PTL DEF EvalSpec

-----------------------------------------------------------------------------
(* Invigilators.  Only a request that holds the department's lock writes    *)
(* its names, so what it checked of them still holds when it writes.        *)

Namings == [asks : {"nothing", "name", "publish"}, of : SUBSET Faculties, paper : Papers \cup {Main}, place : Places,
            who : Invigilators \cup {Unnamed}, draft : 0 .. Len(Drafts), locked : BOOLEAN, sharing : BOOLEAN]

LEMMA LockedNaming ==
  ASSUME NEW row \in Namings, NEW b \in BOOLEAN
  PROVE  LET new == [row EXCEPT !.locked = TRUE, !.sharing = b]
         IN /\ new \in Namings
            /\ new.asks = row.asks /\ new.of = row.of /\ new.paper = row.paper /\ new.place = row.place
            /\ new.who = row.who /\ new.draft = row.draft
<1> DEFINE new == [row EXCEPT !.locked = TRUE, !.sharing = b]
<1>1. new \in Namings
  BY DEF Namings
<1>2. new.asks = row.asks /\ new.of = row.of /\ new.paper = row.paper /\ new.place = row.place
  BY DEF Namings
<1>3. new.who = row.who /\ new.draft = row.draft
  BY DEF Namings
<1> QED BY <1>1, <1>2, <1>3

\* What CheckName's EXCEPT with two fields of one request is.
LEMMA LockedSharing ==
  ASSUME NEW row \in Namings, NEW b \in BOOLEAN
  PROVE  [row EXCEPT !.locked = TRUE, !.sharing = b].locked = TRUE /\ [row EXCEPT !.locked = TRUE, !.sharing = b].sharing = b
<1>1. [row EXCEPT !.locked = TRUE, !.sharing = b].locked = TRUE
  BY DEF Namings
<1>2. [row EXCEPT !.locked = TRUE, !.sharing = b].sharing = b
  BY DEF Namings
<1> QED BY <1>1, <1>2

LEMMA DraftPlaces ==
  ASSUME InvigilationAssumption, NEW v \in 0 .. Len(Drafts), NEW p \in Papers
  PROVE  Extras(v, p) \subseteq Places /\ Slot(v, p) \in Nat
<1>1. CASE v = 0
  BY <1>1 DEF Extras, Placed, Slot, NoSession
<1>2. CASE v # 0
  <2>1. v \in 1 .. Len(Drafts)
    BY <1>2
  <2>2. Drafts[v] \in [Papers -> [slot : Nat, main : Places, extras : SUBSET Rooms]]
    BY <2>1 DEF InvigilationAssumption
  <2> QED BY <1>2, <2>2 DEF Extras, Slot, Places
<1> QED BY <1>1, <1>2

LEMMA InvigilationInitTypeOK ==
  ASSUME InvigilationAssumption, InvigilationInit PROVE InvigilationTypeOK
<1>0. Len(Drafts) \in Nat
  BY DEF InvigilationAssumption
<1>1. NoNaming \in Namings
  BY <1>0 DEF NoNaming, Namings, Places
<1>2. NoRow \in [who : Invigilators \cup {Unnamed}, seen : 0 .. Len(Drafts)]
  BY <1>0 DEF NoRow
<1> QED BY <1>0, <1>1, <1>2 DEF InvigilationInit, InvigilationTypeOK, Namings

\* A request's row is replaced by another of its type, and nothing else changes.
LEMMA SetNaming ==
  ASSUME InvigilationTypeOK, NEW o \in Examiners, NEW new \in Namings,
         request' = [request EXCEPT ![o] = new], UNCHANGED <<limit, shared, papers, named, published>>
  PROVE  InvigilationTypeOK'
BY DEF InvigilationTypeOK, Namings

LEMMA NoNamingType == ASSUME InvigilationAssumption PROVE NoNaming \in Namings
<1>0. Len(Drafts) \in Nat
  BY DEF InvigilationAssumption
<1> QED BY <1>0 DEF NoNaming, Namings, Places

LEMMA AskNameTypeOK ==
  ASSUME InvigilationAssumption, InvigilationTypeOK, NEW o \in Examiners, AskName(o) PROVE InvigilationTypeOK'
<1>1. PICK f \in Faculties, p \in papers, l \in Invigilators \cup {Unnamed} :
        \E place \in {Main} \cup UNION {Extras(v, p) : v \in 1 .. shared} :
          AskToName(o, [asks |-> "name", of |-> {f}, paper |-> p, place |-> place, who |-> l, draft |-> shared, locked |-> FALSE,
                        sharing |-> FALSE])
  BY DEF AskName
<1>2. PICK place \in {Main} \cup UNION {Extras(v, p) : v \in 1 .. shared} :
        AskToName(o, [asks |-> "name", of |-> {f}, paper |-> p, place |-> place, who |-> l, draft |-> shared, locked |-> FALSE,
                      sharing |-> FALSE])
  BY <1>1
<1>3. p \in Papers /\ shared \in 0 .. Len(Drafts) /\ Len(Drafts) \in Nat
  BY DEF InvigilationTypeOK, InvigilationAssumption
<1>4. \A v \in 1 .. shared : Extras(v, p) \subseteq Places
  <2>1. \A v \in 1 .. shared : v \in 0 .. Len(Drafts)
    BY <1>3
  <2> QED BY <1>3, <2>1, DraftPlaces
<1>5. place \in Places
  BY <1>4 DEF Places
<1>6. [asks |-> "name", of |-> {f}, paper |-> p, place |-> place, who |-> l, draft |-> shared, locked |-> FALSE, sharing |-> FALSE] \in Namings
  BY <1>3, <1>5 DEF Namings
<1> QED BY <1>2, <1>6, SetNaming DEF AskToName

\* CheckName either drops the request or locks it, noting whether it shares a room.
LEMMA CheckNameMakes ==
  ASSUME InvigilationTypeOK, NEW o \in Examiners, NEW f \in Faculties, CheckName(o, f)
  PROVE  \/ request' = [request EXCEPT ![o] = NoNaming]
         \/ /\ Unpublished(f) /\ Acceptable(request[o])
            /\ \E b \in BOOLEAN :
                 /\ b <=> request[o].who \in Invigilators /\ Shares(request[o].who, <<request[o].paper, request[o].place>>, request[o].draft)
                 /\ request' = [request EXCEPT ![o] = [request[o] EXCEPT !.locked = TRUE, !.sharing = b]]
<1> DEFINE b == request[o].who \in Invigilators /\ Shares(request[o].who, <<request[o].paper, request[o].place>>, request[o].draft)
<1>1. b \in BOOLEAN
  OBVIOUS
<1>2. CASE Unpublished(f) /\ Acceptable(request[o])
  <2>1. request' = [request EXCEPT ![o].locked = TRUE, ![o].sharing = b]
    BY <1>2 DEF CheckName
  <2>2. request' = [request EXCEPT ![o] = [request[o] EXCEPT !.locked = TRUE, !.sharing = b]]
    <3> HIDE DEF b
    <3> QED BY <2>1 DEF InvigilationTypeOK
  <2> HIDE DEF b
  <2> QED BY <1>1, <1>2, <2>2 DEF b
<1>3. CASE ~(Unpublished(f) /\ Acceptable(request[o]))
  BY <1>3 DEF CheckName, NamingDone
<1> QED BY <1>2, <1>3

LEMMA InvigilationNextTypeOK ==
  ASSUME InvigilationAssumption, InvigilationTypeOK, [InvigilationNext]_invigilationVars
  PROVE  InvigilationTypeOK'
<1>0. Len(Drafts) \in Nat /\ NoRow \in [who : Invigilators \cup {Unnamed}, seen : 0 .. Len(Drafts)]
  BY DEF InvigilationAssumption, NoRow
<1>1. CASE ShareDraft
  BY <1>0, <1>1 DEF ShareDraft, InvigilationTypeOK
<1>2. ASSUME NEW p \in papers, DropPaper(p) PROVE InvigilationTypeOK'
  BY <1>0, <1>2 DEF DropPaper, InvigilationTypeOK
<1>3. ASSUME NEW o \in Examiners, WriteName(o) PROVE InvigilationTypeOK'
  <2> DEFINE at == <<request[o].paper, request[o].place>>
             row == IF request[o].who = Unnamed THEN NoRow ELSE [who |-> request[o].who, seen |-> request[o].draft]
  <2>1. request[o] \in Namings
    BY DEF InvigilationTypeOK, Namings
  <2>2. row \in [who : Invigilators \cup {Unnamed}, seen : 0 .. Len(Drafts)]
    BY <1>0, <2>1 DEF Namings
  <2>3. named' = [named EXCEPT ![at] = row] \/ named' = named
    BY <1>3 DEF WriteName
  <2>4. named' \in [Papers \X Places -> [who : Invigilators \cup {Unnamed}, seen : 0 .. Len(Drafts)]]
    BY <2>2, <2>3 DEF InvigilationTypeOK
  <2>5. request' \in [Examiners -> Namings]
    BY <1>3, NoNamingType DEF WriteName, NamingDone, InvigilationTypeOK, Namings
  <2> QED BY <1>3, <2>4, <2>5 DEF WriteName, InvigilationTypeOK, Namings
<1>4. ASSUME NEW o \in Examiners, NEW f \in Faculties, CheckName(o, f) PROVE InvigilationTypeOK'
  <2>1. \E new \in Namings : request' = [request EXCEPT ![o] = new]
    <3>1. request[o] \in Namings
      BY DEF InvigilationTypeOK, Namings
    <3>2. \A b \in BOOLEAN : [request[o] EXCEPT !.locked = TRUE, !.sharing = b] \in Namings
      BY <3>1, LockedNaming
    <3> QED BY <1>4, <3>2, CheckNameMakes, NoNamingType
  <2> QED BY <1>4, <2>1, SetNaming DEF CheckName
<1>5. ASSUME NEW o \in Examiners, NEW f \in Faculties, AskPublish(o, f) PROVE InvigilationTypeOK'
  <2>1. [NoNaming EXCEPT !.asks = "publish", !.of = {f}, !.draft = shared] \in Namings
    BY <1>0, NoNamingType DEF Namings, InvigilationTypeOK
  <2> QED BY <1>5, <2>1, SetNaming DEF AskPublish, AskToName
<1>6. ASSUME NEW o \in Examiners, NEW f \in Faculties, WritePublication(o, f) PROVE InvigilationTypeOK'
  <2>1. request' \in [Examiners -> Namings]
    BY <1>6, NoNamingType DEF WritePublication, NamingDone, InvigilationTypeOK, Namings
  <2> QED BY <1>6, <2>1 DEF WritePublication, InvigilationTypeOK, Namings
<1>7. ASSUME NEW f \in Faculties, ReopenNames(f) PROVE InvigilationTypeOK'
  BY <1>7 DEF ReopenNames, InvigilationTypeOK
<1>8. CASE UNCHANGED invigilationVars
  BY <1>8 DEF invigilationVars, InvigilationTypeOK
<1> QED BY <1>1, <1>2, <1>3, <1>4, <1>5, <1>6, <1>7, <1>8, AskNameTypeOK DEF InvigilationNext

\* The place a request names somebody for, and that person's other rows in the same department.
PlaceOf(o) == <<request[o].paper, request[o].place>>
TheirRows(o) == {other \in DutiesOf(request[o].who, PlaceOf(o)) : PaperFaculty[other[1]] \in request[o].of}
NamesSomebody(o) == request[o].asks = "name" /\ request[o].locked /\ request[o].who \in Invigilators

LockKept ==
  /\ \A o \in Examiners : request[o].asks = "name" => request[o].paper \in Papers /\ request[o].of = {PaperFaculty[request[o].paper]}
  /\ \A o \in Examiners : request[o].locked => request[o].asks = "name" /\ request[o].of \cap published = {}
  /\ \A o, q \in Examiners : o # q /\ request[o].locked /\ request[q].locked => request[o].of \cap request[q].of = {}

Apart(o) == \A other \in TheirRows(o) : other[1] # request[o].paper /\ ~Clash(request[o].draft, PlaceOf(o), other)
Within(o) ==
  ~request[o].sharing /\ limit[StaffNumber[request[o].who]] # 0 =>
     Cardinality(Duties(request[o].draft, TheirRows(o))) < limit[StaffNumber[request[o].who]]

\* What a request checked under the lock is still so.
ChecksHold == \A o \in Examiners : NamesSomebody(o) => Apart(o) /\ Within(o)

LEMMA LockKeptNext ==
  ASSUME InvigilationAssumption, InvigilationTypeOK, LockKept, [InvigilationNext]_invigilationVars
  PROVE  LockKept'
<1>0. NoNaming.asks = "nothing" /\ NoNaming.locked = FALSE
  BY DEF NoNaming
<1>1. ASSUME NEW o \in Examiners, NEW new, request' = [request EXCEPT ![o] = new], published' = published, new.locked = FALSE,
             new.asks = "name" => new.paper \in Papers /\ new.of = {PaperFaculty[new.paper]}
      PROVE  LockKept'
  <2>1. \A q \in Examiners : request'[q] = IF q = o THEN new ELSE request[q]
    BY <1>1 DEF InvigilationTypeOK
  <2>2. \A q \in Examiners : request'[q].locked => q # o
    BY <1>1, <2>1
  <2> QED BY <1>1, <2>1, <2>2 DEF LockKept
<1>2. ASSUME NEW o \in Examiners, AskName(o) PROVE LockKept'
  <2>1. PICK f \in Faculties, p \in papers, l \in Invigilators \cup {Unnamed} :
          /\ p \in Own(f)
          /\ \E place \in {Main} \cup UNION {Extras(v, p) : v \in 1 .. shared} :
               AskToName(o, [asks |-> "name", of |-> {f}, paper |-> p, place |-> place, who |-> l, draft |-> shared, locked |-> FALSE,
                             sharing |-> FALSE])
    BY <1>2 DEF AskName
  <2>2. p \in Papers /\ f = PaperFaculty[p]
    BY <2>1 DEF Own, InvigilationTypeOK
  <2>3. PICK place : AskToName(o, [asks |-> "name", of |-> {f}, paper |-> p, place |-> place, who |-> l, draft |-> shared,
                                   locked |-> FALSE, sharing |-> FALSE])
    BY <2>1
  <2> DEFINE new == [asks |-> "name", of |-> {f}, paper |-> p, place |-> place, who |-> l, draft |-> shared, locked |-> FALSE, sharing |-> FALSE]
  <2>4. new.locked = FALSE
    OBVIOUS
  <2>5. new.paper \in Papers /\ new.of = {PaperFaculty[new.paper]}
    BY <2>2
  <2>6. request' = [request EXCEPT ![o] = new] /\ published' = published
    BY <2>3 DEF AskToName
  <2> HIDE DEF new
  <2> QED BY <1>1, <2>4, <2>5, <2>6
<1>3. ASSUME NEW o \in Examiners, NEW f \in Faculties, AskPublish(o, f) PROVE LockKept'
  <2>1. [NoNaming EXCEPT !.asks = "publish", !.of = {f}, !.draft = shared].asks # "name"
    BY DEF NoNaming
  <2>2. [NoNaming EXCEPT !.asks = "publish", !.of = {f}, !.draft = shared].locked = FALSE
    BY DEF NoNaming
  <2> QED BY <1>1, <1>3, <2>1, <2>2 DEF AskPublish, AskToName
<1>4. ASSUME NEW o \in Examiners, WriteName(o) PROVE LockKept'
  BY <1>0, <1>1, <1>4 DEF WriteName, NamingDone
<1>5. ASSUME NEW o \in Examiners, NEW f \in Faculties, CheckName(o, f) PROVE LockKept'
  <2>1. published' = published /\ request[o].asks = "name" /\ request[o].of = {f} /\ ~Locked(f)
    BY <1>5 DEF CheckName
  <2>2. CASE request' = [request EXCEPT ![o] = NoNaming]
    BY <1>0, <1>1, <2>1, <2>2
  <2>3. ASSUME Unpublished(f), NEW b \in BOOLEAN, request' = [request EXCEPT ![o] = [request[o] EXCEPT !.locked = TRUE, !.sharing = b]]
        PROVE  LockKept'
    <3> DEFINE new == [request[o] EXCEPT !.locked = TRUE, !.sharing = b]
    <3>1. request[o] \in Namings
      BY DEF InvigilationTypeOK, Namings
    <3>2. new.asks = "name" /\ new.of = {f} /\ new.paper = request[o].paper
      BY <2>1, <3>1, LockedNaming
    <3>3. \A q \in Examiners : request'[q] = IF q = o THEN new ELSE request[q]
      BY <2>3 DEF InvigilationTypeOK
    <3>4. \A q \in Examiners : request[q].locked => f \notin request[q].of
      BY <2>1 DEF Locked
    <3> HIDE DEF new
    <3>5. \A q \in Examiners : request'[q].asks = "name" => request'[q].paper \in Papers /\ request'[q].of = {PaperFaculty[request'[q].paper]}
      BY <2>1, <3>2, <3>3 DEF LockKept
    <3>6. \A q \in Examiners : request'[q].locked => request'[q].asks = "name" /\ request'[q].of \cap published = {}
      <4>1. ASSUME NEW q \in Examiners, q # o, request'[q].locked PROVE request'[q].asks = "name" /\ request'[q].of \cap published = {}
        <5>1. request'[q] = request[q]
          BY <3>3, <4>1
        <5> QED BY <4>1, <5>1 DEF LockKept
      <4>2. request'[o].asks = "name" /\ request'[o].of \cap published = {}
        BY <2>3, <3>2, <3>3 DEF Unpublished
      <4> QED BY <4>1, <4>2
    <3>7. ASSUME NEW q \in Examiners, NEW r \in Examiners, q # r, request'[q].locked, request'[r].locked
          PROVE  request'[q].of \cap request'[r].of = {}
      BY <3>2, <3>3, <3>4, <3>7 DEF LockKept
    <3> QED BY <2>1, <3>5, <3>6, <3>7 DEF LockKept
  <2> QED BY <1>5, <2>2, <2>3, CheckNameMakes
<1>6. ASSUME NEW o \in Examiners, NEW f \in Faculties, WritePublication(o, f) PROVE LockKept'
  <2>1. \A q \in Examiners : request'[q] = IF q = o THEN NoNaming ELSE request[q]
    BY <1>6 DEF WritePublication, NamingDone, InvigilationTypeOK
  <2>2. published' = published \cup {f} /\ \A q \in Examiners : request[q].locked => f \notin request[q].of
    BY <1>6 DEF WritePublication, Locked
  <2>3. \A q \in Examiners : request'[q].locked => q # o /\ request[q].locked
    BY <1>0, <2>1
  <2>4. \A q \in Examiners : request'[q].asks = "name" => q # o
    BY <1>0, <2>1
  <2> QED BY <2>1, <2>2, <2>3, <2>4 DEF LockKept
<1>7. ASSUME request' = request, published' \subseteq published PROVE LockKept'
  BY <1>7 DEF LockKept
<1>8. CASE ShareDraft \/ UNCHANGED invigilationVars \/ (\E p \in papers : DropPaper(p)) \/ (\E f \in Faculties : ReopenNames(f))
  BY <1>7, <1>8 DEF ShareDraft, invigilationVars, DropPaper, ReopenNames
<1> QED BY <1>2, <1>3, <1>4, <1>5, <1>6, <1>8 DEF InvigilationNext

\* Fewer rows are fewer duties.
LEMMA FewerDuties ==
  ASSUME InvigilationAssumption, NEW v, NEW S \in SUBSET (Papers \X Places), NEW T \in SUBSET S
  PROVE  /\ IsFiniteSet(Duties(v, S)) /\ IsFiniteSet(Duties(v, T))
         /\ Cardinality(Duties(v, T)) \in Nat /\ Cardinality(Duties(v, S)) \in Nat
         /\ Cardinality(Duties(v, T)) <= Cardinality(Duties(v, S))
<1>1. IsFiniteSet(Papers) /\ IsFiniteSet(Places)
  BY FS_AddElement DEF InvigilationAssumption, Places
<1>2. IsFiniteSet(S)
  BY <1>1, FS_Product, FS_Subset
<1>3. IsFiniteSet(Duties(v, S))
  <2> DEFINE f == [at \in S |-> DutyOf(v, at[1], at[2])]
  <2>1. f \in [S -> Duties(v, S)]
    BY DEF Duties
  <2>2. \A d \in Duties(v, S) : \E at \in S : f[at] = d
    BY DEF Duties
  <2>3. f \in Surjection(S, Duties(v, S))
    <3> HIDE DEF f
    <3> QED BY <2>1, <2>2 DEF Surjection
  <2> HIDE DEF f
  <2> QED BY <1>2, <2>3, FS_Surjection
<1>4. Duties(v, T) \subseteq Duties(v, S)
  BY DEF Duties
<1> QED BY <1>3, <1>4, FS_Subset, FS_CardinalityType

LEMMA LimitNat ==
  ASSUME InvigilationAssumption, InvigilationTypeOK, NEW l \in Invigilators PROVE limit[StaffNumber[l]] \in Nat
BY DEF InvigilationAssumption, InvigilationTypeOK

\* A request that is left alone keeps what it checked, while its department's rows only go.
LEMMA ChecksCarry ==
  ASSUME InvigilationAssumption, InvigilationTypeOK, ChecksHold, NEW o \in Examiners,
         request'[o] = request[o], limit' = limit,
         \A at \in Papers \X Places : PaperFaculty[at[1]] \in request[o].of => named'[at] = named[at] \/ named'[at] = NoRow
  PROVE  (NamesSomebody(o) => Apart(o) /\ Within(o))'
<1> SUFFICES ASSUME NamesSomebody(o) PROVE Apart(o)' /\ Within(o)'
  BY DEF NamesSomebody
<1>1. TheirRows(o)' \subseteq TheirRows(o) /\ TheirRows(o) \subseteq Papers \X Places
  BY DEF TheirRows, PlaceOf, DutiesOf, RowsOf, Rows, NoRow
<1>2. Apart(o) /\ Within(o)
  BY DEF ChecksHold
<1>3. Apart(o)'
  BY <1>1, <1>2 DEF Apart, PlaceOf
<1>4. Within(o)'
  <2>1. Cardinality(Duties(request[o].draft, TheirRows(o)')) <= Cardinality(Duties(request[o].draft, TheirRows(o)))
    BY <1>1, FewerDuties
  <2>2. Cardinality(Duties(request[o].draft, TheirRows(o)')) \in Nat /\ Cardinality(Duties(request[o].draft, TheirRows(o))) \in Nat
    BY <1>1, FewerDuties
  <2>3. limit[StaffNumber[request[o].who]] \in Nat
    BY LimitNat DEF NamesSomebody
  <2> QED BY <1>2, <2>1, <2>2, <2>3 DEF Within, Duties
<1> QED BY <1>3, <1>4

\* Whoever is accepted under the lock is free there and has a duty left.
LEMMA ChecksMade ==
  ASSUME InvigilationAssumption, InvigilationTypeOK, NEW o \in Examiners, NEW f \in Faculties, CheckName(o, f), NEW b \in BOOLEAN,
         Acceptable(request[o]),
         b <=> request[o].who \in Invigilators /\ Shares(request[o].who, PlaceOf(o), request[o].draft),
         request' = [request EXCEPT ![o] = [request[o] EXCEPT !.locked = TRUE, !.sharing = b]]
  PROVE  (NamesSomebody(o) => Apart(o) /\ Within(o))'
<1> DEFINE new == [request[o] EXCEPT !.locked = TRUE, !.sharing = b]
<1>0. request'[o] = new /\ request[o] \in Namings
  BY DEF InvigilationTypeOK, Namings
<1>1. /\ new.of = request[o].of /\ new.paper = request[o].paper /\ new.place = request[o].place
      /\ new.who = request[o].who /\ new.draft = request[o].draft
  BY <1>0, LockedNaming
<1>2. new.sharing = b
  BY <1>0, LockedSharing
<1> HIDE DEF new
<1> SUFFICES ASSUME request[o].who \in Invigilators PROVE Apart(o)' /\ Within(o)'
  BY <1>0, <1>1 DEF NamesSomebody
<1>3. named' = named /\ limit' = limit
  BY DEF CheckName
<1>4. TheirRows(o)' = TheirRows(o) /\ TheirRows(o) \subseteq DutiesOf(request[o].who, PlaceOf(o))
  BY <1>0, <1>1, <1>3 DEF TheirRows, PlaceOf, DutiesOf, RowsOf, Rows
<1>5. FreeAt(request[o].who, PlaceOf(o), request[o].draft) /\ DutyLeft(request[o].who, PlaceOf(o), request[o].draft)
  BY DEF Acceptable, PlaceOf
<1>6. Apart(o)'
  BY <1>0, <1>1, <1>4, <1>5 DEF Apart, FreeAt, PlaceOf
<1>7. Within(o)'
  <2> DEFINE held == DutiesOf(request[o].who, PlaceOf(o))
             v == request[o].draft
             most == limit[StaffNumber[request[o].who]]
  <2>1. held \subseteq Papers \X Places
    BY DEF DutiesOf, RowsOf, Rows
  <2>2. /\ Cardinality(Duties(v, TheirRows(o))) <= Cardinality(Duties(v, held))
        /\ Cardinality(Duties(v, TheirRows(o))) \in Nat /\ Cardinality(Duties(v, held)) \in Nat
    BY <1>4, <2>1, FewerDuties
  <2>3. most \in Nat
    BY LimitNat
  <2>4. ~b /\ most # 0 => Cardinality(Duties(v, held)) < most
    BY <1>5 DEF DutyLeft
  <2>5. ~b /\ most # 0 => Cardinality(Duties(v, TheirRows(o))) < most
    BY <2>2, <2>3, <2>4
  <2>6. Duties(v, TheirRows(o))' = Duties(v, TheirRows(o))
    BY <1>0, <1>1, <1>4 DEF Duties
  <2> QED BY <1>0, <1>1, <1>2, <1>3, <1>4, <2>5, <2>6 DEF Within
<1> QED BY <1>6, <1>7

LEMMA ChecksHoldNext ==
  ASSUME InvigilationAssumption, InvigilationTypeOK, LockKept, ChecksHold, [InvigilationNext]_invigilationVars
  PROVE  ChecksHold'
<1>0. NoNaming.asks = "nothing"
  BY DEF NoNaming
<1>1. limit' = limit
  BY DEF InvigilationNext, ShareDraft, DropPaper, AskName, AskToName, WriteName, CheckName, AskPublish, WritePublication, ReopenNames, invigilationVars
<1>2. ASSUME named' = named, NEW o \in Examiners, NEW new, request' = [request EXCEPT ![o] = new], ~(new.asks = "name" /\ new.locked)
      PROVE  ChecksHold'
  <2>1. \A q \in Examiners : request'[q] = IF q = o THEN new ELSE request[q]
    BY <1>2 DEF InvigilationTypeOK
  <2>2. ~NamesSomebody(o)'
    BY <1>2, <2>1 DEF NamesSomebody
  <2>3. \A q \in Examiners \ {o} : (NamesSomebody(q) => Apart(q) /\ Within(q))'
    BY <1>1, <1>2, <2>1, ChecksCarry
  <2> QED BY <2>2, <2>3 DEF ChecksHold
<1>3. ASSUME request' = request, \A at \in Papers \X Places : named'[at] = named[at] \/ named'[at] = NoRow
      PROVE  ChecksHold'
  BY <1>1, <1>3, ChecksCarry DEF ChecksHold
<1>4. CASE ShareDraft \/ UNCHANGED invigilationVars \/ \E f \in Faculties : ReopenNames(f)
  BY <1>3, <1>4 DEF ShareDraft, invigilationVars, ReopenNames
<1>5. ASSUME NEW p \in papers, DropPaper(p) PROVE ChecksHold'
  BY <1>3, <1>5 DEF DropPaper
<1>6. ASSUME NEW o \in Examiners, AskName(o) PROVE ChecksHold'
  <2>1. PICK f, p, l, place :
          AskToName(o, [asks |-> "name", of |-> {f}, paper |-> p, place |-> place, who |-> l, draft |-> shared, locked |-> FALSE,
                        sharing |-> FALSE])
    BY <1>6 DEF AskName
  <2> DEFINE new == [asks |-> "name", of |-> {f}, paper |-> p, place |-> place, who |-> l, draft |-> shared, locked |-> FALSE, sharing |-> FALSE]
  <2>2. new.locked = FALSE
    OBVIOUS
  <2>3. request' = [request EXCEPT ![o] = new] /\ named' = named
    BY <2>1 DEF AskToName
  <2> HIDE DEF new
  <2> QED BY <1>2, <2>2, <2>3
<1>7. ASSUME NEW o \in Examiners, NEW f \in Faculties, AskPublish(o, f) PROVE ChecksHold'
  <2>1. [NoNaming EXCEPT !.asks = "publish", !.of = {f}, !.draft = shared].asks # "name"
    BY DEF NoNaming
  <2> QED BY <1>2, <1>7, <2>1 DEF AskPublish, AskToName
<1>8. ASSUME NEW o \in Examiners, NEW f \in Faculties, WritePublication(o, f) PROVE ChecksHold'
  BY <1>0, <1>2, <1>8 DEF WritePublication, NamingDone
<1>9. ASSUME NEW o \in Examiners, NEW f \in Faculties, CheckName(o, f) PROVE ChecksHold'
  <2>1. named' = named
    BY <1>9 DEF CheckName
  <2>2. CASE request' = [request EXCEPT ![o] = NoNaming]
    BY <1>0, <1>2, <2>1, <2>2
  <2>3. ASSUME Acceptable(request[o]), NEW b \in BOOLEAN,
               b <=> request[o].who \in Invigilators /\ Shares(request[o].who, PlaceOf(o), request[o].draft),
               request' = [request EXCEPT ![o] = [request[o] EXCEPT !.locked = TRUE, !.sharing = b]]
        PROVE  ChecksHold'
    <3>1. (NamesSomebody(o) => Apart(o) /\ Within(o))'
      BY <1>9, <2>3, ChecksMade
    <3>2. \A q \in Examiners \ {o} : request'[q] = request[q]
      BY <2>3 DEF InvigilationTypeOK
    <3>3. \A q \in Examiners \ {o} : (NamesSomebody(q) => Apart(q) /\ Within(q))'
      BY <1>1, <2>1, <3>2, ChecksCarry
    <3> QED BY <3>1, <3>3 DEF ChecksHold
  <2> QED BY <1>9, <2>2, <2>3, CheckNameMakes DEF PlaceOf
<1>10. ASSUME NEW o \in Examiners, WriteName(o) PROVE ChecksHold'
  <2>1. \A q \in Examiners : request'[q] = IF q = o THEN NoNaming ELSE request[q]
    BY <1>10 DEF WriteName, NamingDone, InvigilationTypeOK
  <2>2. \A at \in Papers \X Places : at # PlaceOf(o) => named'[at] = named[at]
    BY <1>10 DEF WriteName, PlaceOf, InvigilationTypeOK
  <2>3. request[o].locked /\ PaperFaculty[PlaceOf(o)[1]] \in request[o].of
    BY <1>10 DEF WriteName, PlaceOf, LockKept
  <2>4. ~NamesSomebody(o)'
    BY <1>0, <2>1 DEF NamesSomebody
  <2>5. ASSUME NEW q \in Examiners, q # o PROVE (NamesSomebody(q) => Apart(q) /\ Within(q))'
    <3>1. CASE request[q].locked
      <4>1. PaperFaculty[PlaceOf(o)[1]] \notin request[q].of
        BY <2>3, <2>5, <3>1 DEF LockKept
      <4> QED BY <1>1, <2>1, <2>2, <2>5, <4>1, ChecksCarry
    <3>2. CASE ~request[q].locked
      BY <2>1, <2>5, <3>2 DEF NamesSomebody
    <3> QED BY <3>1, <3>2
  <2> QED BY <2>4, <2>5 DEF ChecksHold
<1> QED BY <1>4, <1>5, <1>6, <1>7, <1>8, <1>9, <1>10 DEF InvigilationNext

\* One request's step either leaves another's alone, or is the one that writes its names.
LEMMA OnlyTheWriterEnds ==
  ASSUME InvigilationAssumption, InvigilationTypeOK, LockKept, [InvigilationNext]_invigilationVars,
         NEW o \in Examiners, request[o].asks = "name", request[o].locked, request'[o] = NoNaming
  PROVE  WriteName(o)
<1>0. request[o] # NoNaming
  BY DEF NoNaming
<1>1. request'[o] # request[o]
  BY <1>0
<1>2. ASSUME NEW q \in Examiners, NEW new, request' = [request EXCEPT ![q] = new] PROVE q = o
  BY <1>1, <1>2 DEF InvigilationTypeOK
<1>3. ASSUME NEW q \in Examiners, AskName(q) PROVE FALSE
  <2>1. request[q] = NoNaming /\ \E new : request' = [request EXCEPT ![q] = new]
    BY <1>3 DEF AskName, AskToName
  <2> QED BY <1>0, <1>2, <2>1
<1>4. ASSUME NEW q \in Examiners, NEW f \in Faculties, AskPublish(q, f) PROVE FALSE
  <2>1. request[q] = NoNaming /\ \E new : request' = [request EXCEPT ![q] = new]
    BY <1>4 DEF AskPublish, AskToName
  <2> QED BY <1>0, <1>2, <2>1
<1>5. ASSUME NEW q \in Examiners, NEW f \in Faculties, WritePublication(q, f) PROVE FALSE
  <2>1. request[q].asks = "publish" /\ request' = [request EXCEPT ![q] = NoNaming]
    BY <1>5 DEF WritePublication, NamingDone
  <2>2. q = o
    BY <1>2, <2>1
  <2> QED BY <2>1, <2>2
<1>6. ASSUME NEW q \in Examiners, NEW f \in Faculties, CheckName(q, f) PROVE FALSE
  <2>1. ~request[q].locked
    BY <1>6 DEF CheckName
  <2>2. \E new : request' = [request EXCEPT ![q] = new]
    BY <1>6, CheckNameMakes
  <2>3. q = o
    BY <1>2, <2>2
  <2> QED BY <2>1, <2>3
<1>7. ASSUME NEW q \in Examiners, WriteName(q) PROVE q = o
  BY <1>2, <1>7 DEF WriteName, NamingDone
<1>8. ~(ShareDraft \/ UNCHANGED invigilationVars \/ (\E p \in papers : DropPaper(p)) \/ (\E f \in Faculties : ReopenNames(f)))
  BY <1>1 DEF ShareDraft, invigilationVars, DropPaper, ReopenNames
<1> QED BY <1>3, <1>4, <1>5, <1>6, <1>7, <1>8 DEF InvigilationNext

\* What the write makes of the rows.
LEMMA WriteNameMakes ==
  ASSUME InvigilationTypeOK, LockKept, NEW o \in Examiners, WriteName(o)
  PROVE  /\ PlaceOf(o) \in Papers \X Places /\ PaperFaculty[PlaceOf(o)[1]] \in request[o].of
         /\ \A at \in Papers \X Places : at # PlaceOf(o) => named'[at] = named[at]
         /\ \/ named'[PlaceOf(o)] = named[PlaceOf(o)]
            \/ named'[PlaceOf(o)] = NoRow
            \/ NamesSomebody(o) /\ named'[PlaceOf(o)] = [who |-> request[o].who, seen |-> request[o].draft]
<1>1. PlaceOf(o) \in Papers \X Places /\ PaperFaculty[PlaceOf(o)[1]] \in request[o].of
  BY DEF WriteName, PlaceOf, LockKept, InvigilationTypeOK
<1>2. \A at \in Papers \X Places : at # PlaceOf(o) => named'[at] = named[at]
  BY DEF WriteName, PlaceOf, InvigilationTypeOK
<1>3. request[o].who \in Invigilators \/ request[o].who = Unnamed
  BY DEF InvigilationTypeOK
<1>4. \/ named' = named
      \/ named' = [named EXCEPT ![PlaceOf(o)] = NoRow]
      \/ request[o].who # Unnamed /\ named' = [named EXCEPT ![PlaceOf(o)] = [who |-> request[o].who, seen |-> request[o].draft]]
  BY DEF WriteName, PlaceOf
<1> QED BY <1>1, <1>2, <1>3, <1>4 DEF NamesSomebody, WriteName, InvigilationTypeOK

\* What the limits' mutual clash says does not depend on which row is named first.
LEMMA ClashEitherWay ==
  ASSUME NEW v, NEW at, NEW other, Clash(v, at, other) PROVE Clash(v, other, at)
BY DEF Clash, Placed

LEMMA NamesApartNext ==
  ASSUME InvigilationAssumption, InvigilationTypeOK, LockKept, ChecksHold, NamesApart, [InvigilationNext]_invigilationVars
  PROVE  NamesApart'
<1>1. ASSUME \A at \in Papers \X Places : named'[at] = named[at] \/ named'[at] = NoRow PROVE NamesApart'
  <2>1. \A at \in Papers \X Places : named'[at].who # Unnamed => named'[at] = named[at]
    BY <1>1 DEF NoRow
  <2> QED BY <2>1 DEF NamesApart, Rows, Together
<1>2. ASSUME NEW o \in Examiners, WriteName(o) PROVE NamesApart'
  <2>1. CASE \A at \in Papers \X Places : named'[at] = named[at] \/ named'[at] = NoRow
    BY <1>1, <2>1
  <2>2. CASE /\ NamesSomebody(o)
             /\ named'[PlaceOf(o)] = [who |-> request[o].who, seen |-> request[o].draft]
    <3>1. /\ PlaceOf(o) \in Papers \X Places /\ PaperFaculty[PlaceOf(o)[1]] \in request[o].of
          /\ \A at \in Papers \X Places : at # PlaceOf(o) => named'[at] = named[at]
      BY <1>2, WriteNameMakes
    <3>2. Apart(o) /\ PlaceOf(o)[1] = request[o].paper /\ named'[PlaceOf(o)].who = request[o].who /\ named'[PlaceOf(o)].seen = request[o].draft
      BY <2>2 DEF ChecksHold, PlaceOf
    <3>3. ASSUME NEW other \in Papers \X Places, other # PlaceOf(o), named'[other].who # Unnamed,
                 PaperFaculty[other[1]] = PaperFaculty[PlaceOf(o)[1]], StaffNumber[named'[other].who] = StaffNumber[request[o].who]
          PROVE  other[1] # PlaceOf(o)[1] /\ ~Clash(request[o].draft, PlaceOf(o), other) /\ ~Clash(request[o].draft, other, PlaceOf(o))
      <4>1. other \in TheirRows(o)
        BY <3>1, <3>3 DEF TheirRows, DutiesOf, RowsOf, Rows
      <4> QED BY <3>2, <4>1, ClashEitherWay DEF Apart
    <3> SUFFICES ASSUME NEW at \in Papers \X Places, NEW other \in Papers \X Places, at # other,
                        named'[at].who # Unnamed, named'[other].who # Unnamed,
                        PaperFaculty[at[1]] = PaperFaculty[other[1]], named'[at].seen = named'[other].seen,
                        StaffNumber[named'[at].who] = StaffNumber[named'[other].who]
                 PROVE  at[1] # other[1] /\ ~Clash(named'[at].seen, at, other)
      BY DEF NamesApart, Rows, Together, Clash, Placed, Slot, RoomOf
    <3>4. CASE at = PlaceOf(o)
      BY <3>1, <3>2, <3>3, <3>4
    <3>5. CASE other = PlaceOf(o)
      BY <3>1, <3>2, <3>3, <3>5
    <3>6. CASE at # PlaceOf(o) /\ other # PlaceOf(o)
      <4>1. named'[at] = named[at] /\ named'[other] = named[other]
        BY <3>1, <3>6
      <4> QED BY <4>1 DEF NamesApart, Rows, Together
    <3> QED BY <3>4, <3>5, <3>6
  <2> QED BY <1>2, <2>1, <2>2, WriteNameMakes
<1>3. CASE ~\E o \in Examiners : WriteName(o)
  <2>1. ASSUME NEW p \in papers, DropPaper(p) PROVE NamesApart'
    BY <1>1, <2>1 DEF DropPaper
  <2>2. CASE named' = named
    BY <1>1, <2>2
  <2>3. named' = named \/ \E p \in papers : DropPaper(p)
    BY <1>3 DEF InvigilationNext, ShareDraft, AskName, AskToName, CheckName, AskPublish, WritePublication, ReopenNames, invigilationVars
  <2> QED BY <2>1, <2>2, <2>3
<1> QED BY <1>2, <1>3

LEMMA DutyLimitStep ==
  ASSUME InvigilationAssumption, InvigilationTypeOK, LockKept, ChecksHold, [InvigilationNext]_invigilationVars
  PROVE  WithinDutyLimitStep
<1> SUFFICES ASSUME NEW o \in Examiners, NEW who \in DOMAIN limit,
                    request[o].asks = "name", request[o].locked, request'[o] = NoNaming,
                    request[o].who \in Invigilators, StaffNumber[request[o].who] = who, ~request[o].sharing, limit[who] # 0
             PROVE  Cardinality(Duties(request[o].draft, {at \in RowsOf(who)' : PaperFaculty[at[1]] \in request[o].of})) <= limit[who]
  BY DEF WithinDutyLimitStep
<1> DEFINE v == request[o].draft
           now == {at \in RowsOf(who)' : PaperFaculty[at[1]] \in request[o].of}
           duty == DutyOf(v, PlaceOf(o)[1], PlaceOf(o)[2])
<1>1. WriteName(o)
  BY OnlyTheWriterEnds
<1>2. now \subseteq TheirRows(o) \cup {PlaceOf(o)}
  <2>1. \A at \in Papers \X Places : at # PlaceOf(o) => named'[at] = named[at]
    BY <1>1, WriteNameMakes
  <2> QED BY <2>1 DEF TheirRows, DutiesOf, RowsOf, Rows
<1>3. TheirRows(o) \subseteq Papers \X Places /\ PlaceOf(o) \in Papers \X Places
  BY <1>1, WriteNameMakes DEF TheirRows, DutiesOf, RowsOf, Rows
<1>4. Cardinality(Duties(v, TheirRows(o))) < limit[who]
  BY DEF ChecksHold, NamesSomebody, Within
<1>5. IsFiniteSet(Duties(v, TheirRows(o))) /\ Cardinality(Duties(v, TheirRows(o))) \in Nat
  BY <1>3, FewerDuties
<1>6. Duties(v, now) \subseteq Duties(v, TheirRows(o)) \cup {duty}
  BY <1>2 DEF Duties
<1>7. /\ IsFiniteSet(Duties(v, TheirRows(o)) \cup {duty})
      /\ Cardinality(Duties(v, TheirRows(o)) \cup {duty}) <= Cardinality(Duties(v, TheirRows(o))) + 1
  <2> DEFINE D == Duties(v, TheirRows(o))
  <2> HIDE DEF D, duty
  <2>1. IsFiniteSet(D) /\ Cardinality(D) \in Nat
    BY <1>5 DEF D
  <2>2. IsFiniteSet(D \cup {duty}) /\ Cardinality(D \cup {duty}) = IF duty \in D THEN Cardinality(D) ELSE Cardinality(D) + 1
    BY <2>1, FS_AddElement
  <2> QED BY <2>1, <2>2 DEF D
<1>8. Cardinality(Duties(v, TheirRows(o)) \cup {duty}) \in Nat
  BY <1>7, FS_CardinalityType
<1>9. Cardinality(Duties(v, now)) \in Nat /\ Cardinality(Duties(v, now)) <= Cardinality(Duties(v, TheirRows(o)) \cup {duty})
  BY <1>6, <1>7, FS_Subset, FS_CardinalityType
<1>10. limit[who] \in Nat
  BY LimitNat
<1> HIDE DEF now, duty, v
<1> QED BY <1>4, <1>5, <1>7, <1>8, <1>9, <1>10 DEF now, v

LEMMA NamesStandStep ==
  ASSUME InvigilationTypeOK, LockKept, [InvigilationNext]_invigilationVars
  PROVE  NamesStandWhilePublishedStep
<1> SUFFICES ASSUME NEW at \in Papers \X Places, PaperFaculty[at[1]] \in published, at[1] \in papers'
             PROVE  named'[at] = named[at]
  BY DEF NamesStandWhilePublishedStep
<1>1. ASSUME NEW o \in Examiners, WriteName(o) PROVE named'[at] = named[at]
  <2>1. request[o].of \cap published = {}
    BY <1>1 DEF WriteName, LockKept
  <2> QED BY <1>1, <2>1, WriteNameMakes
<1>2. ASSUME NEW p \in papers, DropPaper(p) PROVE named'[at] = named[at]
  BY <1>2 DEF DropPaper
<1> QED BY <1>1, <1>2 DEF InvigilationNext, ShareDraft, AskName, AskToName, CheckName, AskPublish, WritePublication, ReopenNames, invigilationVars

\* What holds of every state.
InvigilationInv == InvigilationTypeOK /\ LockKept /\ ChecksHold /\ NamesApart

LEMMA InvigilationInductive ==
  ASSUME InvigilationAssumption
  PROVE  /\ InvigilationInit => InvigilationInv
         /\ InvigilationInv /\ [InvigilationNext]_invigilationVars => InvigilationInv'
         /\ InvigilationInv => NamesApart
<1>1. InvigilationInit => LockKept /\ ChecksHold
  BY DEF InvigilationInit, LockKept, ChecksHold, NamesSomebody, NoNaming
<1>2. InvigilationInit => NamesApart
  BY DEF InvigilationInit, NamesApart, Rows, NoRow
<1> QED BY <1>1, <1>2, InvigilationInitTypeOK, InvigilationNextTypeOK, LockKeptNext, ChecksHoldNext, NamesApartNext
        DEF InvigilationInv

LEMMA InvigilationSteps ==
  ASSUME InvigilationAssumption, InvigilationInv, [InvigilationNext]_invigilationVars
  PROVE  WithinDutyLimitStep /\ NamesStandWhilePublishedStep
BY DutyLimitStep, NamesStandStep DEF InvigilationInv

(* The limits, the names and the requests keep their types; only one        *)
(* request at a time holds a department's lock, none while its names stand  *)
(* published, and what it checked of the names still holds                  *)
(* (teaching.service.ts write; invigilation.service.ts setInvigilator).     *)
THEOREM NamingLocked ==
  ASSUME InvigilationAssumption
  PROVE  InvigilationSpec => [](InvigilationTypeOK /\ LockKept /\ ChecksHold)
<1>1. InvigilationInv => InvigilationTypeOK /\ LockKept /\ ChecksHold
  BY DEF InvigilationInv
<1> QED BY <1>1, InvigilationInductive, PTL DEF InvigilationSpec

(* One department names nobody twice on a paper or in two rooms of one      *)
(* session of a draft, for any departments, drafts and overlapping requests *)
(* (invigilation.service.ts setInvigilator).                                *)
THEOREM NamesAlwaysApart ==
  ASSUME InvigilationAssumption
  PROVE  InvigilationSpec => []NamesApart
BY InvigilationInductive, PTL DEF InvigilationSpec

(* A name that is a new duty keeps the person's duties for the department   *)
(* within their limit, whoever else is named or shares a draft between the  *)
(* check and the write (invigilation.service.ts setInvigilator).            *)
THEOREM NewDutiesWithinLimit ==
  ASSUME InvigilationAssumption
  PROVE  InvigilationSpec => WithinDutyLimit
BY InvigilationInductive, InvigilationSteps, PTL DEF InvigilationSpec, WithinDutyLimit

(* The names of a published department's papers do not change until it      *)
(* reopens, though a name checked before the publication is written later   *)
(* (teaching.service.ts write, requireOpen).                                *)
THEOREM PublishedNamesStand ==
  ASSUME InvigilationAssumption
  PROVE  InvigilationSpec => NamesStandWhilePublished
BY InvigilationInductive, InvigilationSteps, PTL DEF InvigilationSpec, NamesStandWhilePublished

-----------------------------------------------------------------------------
(* Rosters.  A unit has one owner for good, and only the owner's own sync   *)
(* writes its row; a report that asked was asked after every sync that may  *)
(* have read SMARTTT before it.                                             *)

Versions == 1 .. MaxVersion
UnitRows == [owner : Teachers \cup {NoTeacher}, status : {"NONE", "PENDING_VERIFICATION", "VERIFIED"}, asOf : 0 .. MaxVersion]
Syncs == [phase : {"idle", "fetch", "units", "roster", "commit"}, asOf : 0 .. MaxVersion, todo : SUBSET Classrooms,
          unit : Classrooms \cup {NoTeacher}, known : SUBSET Scholars]
Reports == [phase : {"none", "wait", "woken", "asked"}, since : 0 .. MaxVersion]
RosterRows == [Scholars -> {"NONE", "ACTIVE", "DROPPED"}]

RostersTypeOK ==
  /\ timetable \in Timetables
  /\ version \in Versions
  /\ unit \in [Classrooms -> UnitRows]
  /\ roster \in [Classrooms -> RosterRows]
  /\ attached \in [Classrooms -> SUBSET Scholars]
  /\ registered \in [Scholars -> {"no", "linking", "yes", "unlinked"}]
  /\ sync \in [Teachers -> Syncs]
  /\ throttled \subseteq Teachers
  /\ changeReport \in [Teachers -> Reports]

Fetched(l) == sync[l].phase \in {"units", "roster", "commit"}

\* What a sync works on, and what it has done of it.
SyncsOnTheWay ==
  \A l \in Teachers :
    /\ sync[l].phase \in {"roster", "commit"} => sync[l].unit \in Classrooms
    /\ sync[l].phase \in {"idle", "fetch"} => sync[l].todo = {}
    /\ sync[l].phase = "idle" <=> sync[l] = NoSync
    /\ Fetched(l) =>
         /\ sync[l].asOf \in Versions
         /\ \A u \in Classrooms \ sync[l].todo :
              timetable[sync[l].asOf][u].teacher = l =>
                \/ unit[u].owner = l /\ unit[u].asOf >= sync[l].asOf
                \/ unit[u].owner \notin {l, NoTeacher}

\* A sync that a report waits for no longer started after it.
ReportsWaitEnough ==
  \A l \in Teachers :
    /\ changeReport[l].since <= version
    /\ changeReport[l].phase \in {"woken", "asked"} /\ Fetched(l) => sync[l].asOf >= changeReport[l].since

RostersInv == RostersTypeOK /\ SyncsOnTheWay /\ ReportsWaitEnough

LEMMA RostersInitInv ==
  ASSUME RostersAssumption, RostersInit PROVE RostersInv
<1>1. MaxVersion \in Nat \ {0} /\ NoTeacher \notin Teachers \cup Classrooms
  BY DEF RostersAssumption
<1>2. NotCreated \in UnitRows /\ NoSync \in Syncs /\ NoReport \in Reports
  BY <1>1 DEF NotCreated, UnitRows, NoSync, Syncs, NoReport, Reports
<1>3. RostersTypeOK
  BY <1>1, <1>2 DEF RostersTypeOK, RostersInit, Versions, RosterRows
<1>4. SyncsOnTheWay
  BY <1>1 DEF SyncsOnTheWay, RostersInit, NoSync, Fetched
<1>5. ReportsWaitEnough
  BY <1>1 DEF ReportsWaitEnough, RostersInit, NoReport, NoSync, Fetched
<1> QED BY <1>3, <1>4, <1>5 DEF RostersInv

\* The fields a step sets of a sync and of a unit's row.
LEMMA SyncFields ==
  ASSUME NEW s \in Syncs
  PROVE  /\ [s EXCEPT !.phase = "fetch"] \in Syncs
         /\ \A v \in 0 .. MaxVersion, us \in SUBSET Classrooms : [s EXCEPT !.phase = "units", !.asOf = v, !.todo = us] \in Syncs
         /\ \A u \in Classrooms, us \in SUBSET Classrooms : [s EXCEPT !.phase = "roster", !.unit = u, !.todo = us] \in Syncs
         /\ \A us \in SUBSET Classrooms : [s EXCEPT !.todo = us] \in Syncs
         /\ \A ns \in SUBSET Scholars : [s EXCEPT !.phase = "commit", !.known = ns] \in Syncs
         /\ [s EXCEPT !.phase = "units", !.unit = NoTeacher, !.known = {}] \in Syncs
  BY DEF Syncs

\* Syncs that read and do nothing, beside the ones that were.
LEMMA NothingDone ==
  ASSUME RostersInv, UNCHANGED <<timetable, unit>>,
         \A k \in Teachers :
           \/ sync'[k] = sync[k]
           \/ /\ sync'[k].phase \in {"idle", "fetch"} /\ sync'[k].todo = {}
              /\ sync'[k].phase = "idle" <=> sync'[k] = NoSync
  PROVE  SyncsOnTheWay'
<1> SUFFICES ASSUME NEW k \in Teachers
             PROVE  /\ sync'[k].phase \in {"roster", "commit"} => sync'[k].unit \in Classrooms
                    /\ sync'[k].phase \in {"idle", "fetch"} => sync'[k].todo = {}
                    /\ sync'[k].phase = "idle" <=> sync'[k] = NoSync
                    /\ sync'[k].phase \in {"units", "roster", "commit"} =>
                         /\ sync'[k].asOf \in Versions
                         /\ \A u \in Classrooms \ sync'[k].todo :
                              timetable[sync'[k].asOf][u].teacher = k =>
                                \/ unit[u].owner = k /\ unit[u].asOf >= sync'[k].asOf
                                \/ unit[u].owner \notin {k, NoTeacher}
  BY DEF SyncsOnTheWay, Fetched
<1>1. CASE sync'[k] = sync[k]
  BY <1>1 DEF RostersInv, SyncsOnTheWay, Fetched
<1>2. CASE sync'[k] # sync[k]
  BY <1>2
<1> QED BY <1>1, <1>2

\* A step of one sync that keeps what it read and has done.
LEMMA OneSync ==
  ASSUME RostersInv, RostersTypeOK', NEW l \in Teachers, NEW new \in Syncs,
         sync' = [sync EXCEPT ![l] = new],
         UNCHANGED <<timetable, version, unit, changeReport>>,
         new.phase \in {"roster", "commit"} => new.unit \in Classrooms,
         new.phase # "idle",
         Fetched(l), new.phase \in {"units", "roster", "commit"}, new.asOf = sync[l].asOf,
         \A u \in Classrooms \ new.todo :
           u \in Classrooms \ sync[l].todo
             \/ (unit[u].owner \notin {l, NoTeacher}) \/ (unit[u].owner = l /\ unit[u].asOf >= new.asOf)
  PROVE  RostersInv'
<1> USE DEF RostersInv, RostersTypeOK
<1>1. \A k \in Teachers : sync'[k] = IF k = l THEN new ELSE sync[k]
  OBVIOUS
<1>2. new # NoSync
  BY DEF NoSync
<1>3. ASSUME NEW k \in Teachers, k = l
      PROVE  /\ sync'[k].phase \in {"roster", "commit"} => sync'[k].unit \in Classrooms
             /\ sync'[k].phase \in {"idle", "fetch"} => sync'[k].todo = {}
             /\ sync'[k].phase = "idle" <=> sync'[k] = NoSync
             /\ sync'[k].asOf \in Versions
             /\ \A u \in Classrooms \ sync'[k].todo :
                  timetable[sync'[k].asOf][u].teacher = k =>
                    \/ unit[u].owner = k /\ unit[u].asOf >= sync'[k].asOf
                    \/ unit[u].owner \notin {k, NoTeacher}
  BY <1>1, <1>2, <1>3 DEF SyncsOnTheWay
<1>4. SyncsOnTheWay'
  BY <1>1, <1>3 DEF SyncsOnTheWay, Fetched
<1>5. ReportsWaitEnough'
  BY <1>1 DEF ReportsWaitEnough, Fetched
<1> QED BY <1>4, <1>5

LEMMA FetchInv ==
  ASSUME RostersAssumption, RostersInv, NEW l \in Teachers, Fetch(l) PROVE RostersInv'
<1> USE DEF RostersInv, RostersTypeOK
<1> DEFINE new == [sync[l] EXCEPT !.phase = "units", !.asOf = version,
                                  !.todo = {u \in Classrooms : timetable[version][u].teacher = l}]
<1>1. version \in 0 .. MaxVersion
  BY DEF Versions, RostersAssumption
<1>2. new \in Syncs /\ new.phase = "units" /\ new.asOf = version /\ new.todo = {u \in Classrooms : timetable[version][u].teacher = l}
  <2> DEFINE us == {u \in Classrooms : timetable[version][u].teacher = l}
  <2>1. us \in SUBSET Classrooms /\ sync[l] \in Syncs
    OBVIOUS
  <2> HIDE DEF us
  <2>2. [sync[l] EXCEPT !.phase = "units", !.asOf = version, !.todo = us] \in Syncs
    BY <1>1, <2>1, SyncFields
  <2>3. new = [sync[l] EXCEPT !.phase = "units", !.asOf = version, !.todo = us]
    BY DEF us
  <2>4. new.phase = "units" /\ new.asOf = version /\ new.todo = us
    BY <2>1, <2>3 DEF Syncs
  <2> QED BY <2>2, <2>3, <2>4 DEF us
<1>3. sync' = [sync EXCEPT ![l] = new] /\ UNCHANGED <<timetable, version, rosterRows, throttled, changeReport>>
  BY DEF Fetch
<1> HIDE DEF new
<1>4. \A k \in Teachers : sync'[k] = IF k = l THEN new ELSE sync[k]
  BY <1>3
<1>5. RostersTypeOK'
  BY <1>2, <1>3 DEF rosterRows
<1>6. new # NoSync
  BY <1>2 DEF NoSync
<1>7. SyncsOnTheWay'
  BY <1>2, <1>3, <1>4, <1>6 DEF SyncsOnTheWay, Fetched, rosterRows
<1>8. ReportsWaitEnough'
  BY <1>2, <1>3, <1>4 DEF ReportsWaitEnough, Fetched
<1> QED BY <1>5, <1>7, <1>8

LEMMA UpsertUnitInv ==
  ASSUME RostersAssumption, RostersInv, NEW l \in Teachers, UpsertUnit(l) PROVE RostersInv'
<1> USE DEF RostersInv, RostersTypeOK
<1>0. NoTeacher \notin Teachers /\ MaxVersion \in Nat
  BY DEF RostersAssumption
<1>1. PICK u \in sync[l].todo :
        IF Holdable(u, l)
        THEN /\ unit' = [unit EXCEPT ![u] = [owner |-> l, status |-> Verification(u, l), asOf |-> sync[l].asOf]]
             /\ sync' = [sync EXCEPT ![l].phase = "roster", ![l].unit = u, ![l].todo = @ \ {u}]
        ELSE /\ sync' = [sync EXCEPT ![l].todo = @ \ {u}]
             /\ UNCHANGED unit
  BY DEF UpsertUnit
<1>2. /\ sync[l] \in Syncs /\ sync[l].phase = "units" /\ u \in Classrooms /\ Fetched(l)
      /\ UNCHANGED <<timetable, version, roster, attached, registered, throttled, changeReport>>
  BY DEF UpsertUnit, Syncs, Fetched
<1>3. CASE ~Holdable(u, l)
  <2> DEFINE new == [sync[l] EXCEPT !.todo = sync[l].todo \ {u}]
  <2>1. sync' = [sync EXCEPT ![l] = new] /\ unit' = unit
    BY <1>1, <1>3
  <2>2. new \in Syncs /\ new.phase = "units" /\ new.asOf = sync[l].asOf /\ new.todo = sync[l].todo \ {u}
    <3>1. sync[l].todo \ {u} \in SUBSET Classrooms
      BY <1>2 DEF Syncs
    <3> QED BY <1>2, <3>1, SyncFields DEF Syncs
  <2> HIDE DEF new
  <2>3. RostersTypeOK'
    BY <1>2, <2>1, <2>2
  <2>4. unit[u].owner \notin {l, NoTeacher}
    BY <1>3 DEF Holdable
  <2> QED BY <1>2, <2>1, <2>2, <2>3, <2>4, OneSync
<1>4. CASE Holdable(u, l)
  <2> DEFINE row == [owner |-> l, status |-> Verification(u, l), asOf |-> sync[l].asOf]
             new == [sync[l] EXCEPT !.phase = "roster", !.unit = u, !.todo = sync[l].todo \ {u}]
  <2>1. unit' = [unit EXCEPT ![u] = row] /\ sync' = [sync EXCEPT ![l] = new]
    <3>1. unit' = [unit EXCEPT ![u] = row]
      BY <1>1, <1>4
    <3>2. sync' = [sync EXCEPT ![l].phase = "roster", ![l].unit = u, ![l].todo = @ \ {u}]
      BY <1>1, <1>4
    <3>3. sync' = [sync EXCEPT ![l] = new]
      BY ONLY <3>2
    <3> QED BY ONLY <3>1, <3>3
  <2>2. new \in Syncs /\ new.phase = "roster" /\ new.asOf = sync[l].asOf /\ new.todo = sync[l].todo \ {u} /\ new.unit = u
    <3>1. sync[l].todo \ {u} \in SUBSET Classrooms
      BY <1>2 DEF Syncs
    <3> QED BY <1>2, <3>1, SyncFields DEF Syncs
  <2>3. row \in UnitRows /\ row.owner = l /\ row.asOf = sync[l].asOf
    BY <1>2 DEF UnitRows, Syncs, Verification
  <2> HIDE DEF new, row
  <2>4. RostersTypeOK'
    BY <1>2, <2>1, <2>2, <2>3
  <2>5. \A v \in Classrooms : unit'[v] = IF v = u THEN row ELSE unit[v]
    BY <2>1
  <2>6. \A k \in Teachers : sync'[k] = IF k = l THEN new ELSE sync[k]
    BY <2>1
  <2>7. unit[u].owner \in {l, NoTeacher}
    BY <1>4 DEF Holdable
  <2>8. new # NoSync
    BY <2>2 DEF NoSync
  <2>9. sync[l].asOf \in Versions /\ sync[l].asOf >= sync[l].asOf
    BY <1>0, <1>2 DEF SyncsOnTheWay, Versions
  <2>10. ASSUME NEW k \in Teachers
         PROVE  /\ sync'[k].phase \in {"roster", "commit"} => sync'[k].unit \in Classrooms
                /\ sync'[k].phase \in {"idle", "fetch"} => sync'[k].todo = {}
                /\ sync'[k].phase = "idle" <=> sync'[k] = NoSync
                /\ sync'[k].phase \in {"units", "roster", "commit"} =>
                     /\ sync'[k].asOf \in Versions
                     /\ \A v \in Classrooms \ sync'[k].todo :
                          timetable[sync'[k].asOf][v].teacher = k =>
                            \/ unit'[v].owner = k /\ unit'[v].asOf >= sync'[k].asOf
                            \/ unit'[v].owner \notin {k, NoTeacher}
    <3>1. CASE k = l
      <4>1. ASSUME NEW v \in Classrooms \ new.todo, timetable[new.asOf][v].teacher = l
            PROVE  (unit'[v].owner = l /\ unit'[v].asOf >= new.asOf) \/ unit'[v].owner \notin {l, NoTeacher}
        <5>1. CASE v = u
          BY <2>2, <2>3, <2>5, <2>9, <5>1
        <5>2. CASE v # u
          BY <1>2, <2>2, <2>5, <4>1, <5>2 DEF SyncsOnTheWay
        <5> QED BY <5>1, <5>2
      <4> QED BY <1>2, <2>2, <2>6, <2>8, <2>9, <3>1, <4>1
    <3>2. CASE k # l
      <4>1. sync'[k] = sync[k]
        BY <2>6, <3>2
      <4>2. ASSUME sync[k].phase \in {"units", "roster", "commit"}, NEW v \in Classrooms \ sync[k].todo,
                   timetable[sync[k].asOf][v].teacher = k
            PROVE  (unit'[v].owner = k /\ unit'[v].asOf >= sync[k].asOf) \/ unit'[v].owner \notin {k, NoTeacher}
        <5>1. (unit[v].owner = k /\ unit[v].asOf >= sync[k].asOf) \/ unit[v].owner \notin {k, NoTeacher}
          BY <4>2 DEF SyncsOnTheWay, Fetched
        <5>2. v = u => unit'[v].owner = l /\ l \notin {k, NoTeacher}
          BY <1>0, <2>3, <2>5, <3>2
        <5> QED BY <2>5, <5>1, <5>2
      <4> QED BY <1>2, <4>1, <4>2 DEF SyncsOnTheWay, Fetched
    <3> QED BY <3>1, <3>2
  <2>11. SyncsOnTheWay'
    BY <1>2, <2>10 DEF SyncsOnTheWay, Fetched
  <2>12. ReportsWaitEnough'
    BY <1>2, <2>2, <2>6 DEF ReportsWaitEnough, Fetched
  <2> QED BY <2>4, <2>11, <2>12
<1> QED BY <1>3, <1>4

LEMMA SettledInv ==
  ASSUME RostersAssumption, RostersInv, NEW l \in Teachers, Settled(l), UNCHANGED <<timetable, version, rosterRows, throttled>>
  PROVE  RostersInv'
<1> USE DEF RostersInv, RostersTypeOK
<1>1. NoSync \in Syncs /\ NoReport \in Reports
  BY DEF NoSync, Syncs, NoReport, Reports, RostersAssumption
<1>2. \A k \in Teachers : sync'[k] = IF k = l THEN NoSync ELSE sync[k]
  BY DEF Settled
<1> DEFINE old == changeReport[l]
           new == CASE old.phase = "wait" -> [old EXCEPT !.phase = "woken"] [] old.phase = "asked" -> NoReport [] OTHER -> old
<1>3. changeReport' = [changeReport EXCEPT ![l] = new]
  BY DEF Settled
<1>4. new \in Reports /\ (new.since = old.since \/ new.since = 0)
  BY <1>1 DEF Reports, NoReport
<1> HIDE DEF new
<1>5. RostersTypeOK'
  BY <1>1, <1>3, <1>4 DEF Settled, rosterRows
<1>6. SyncsOnTheWay'
  <2>1. NoSync.phase = "idle" /\ NoSync.todo = {} /\ UNCHANGED <<timetable, unit>>
    BY DEF NoSync, rosterRows
  <2> QED BY <1>2, <2>1, NothingDone
<1>7. \A k \in Teachers : changeReport'[k] = IF k = l THEN new ELSE changeReport[k]
  BY <1>3
<1>8. version \in Nat
  BY DEF Versions, RostersAssumption
<1>9. new.since <= version
  BY <1>4, <1>8 DEF ReportsWaitEnough
<1>10. ReportsWaitEnough'
  BY <1>2, <1>7, <1>9 DEF ReportsWaitEnough, Fetched, NoSync
<1> QED BY <1>5, <1>6, <1>10

\* A sync begins: nothing read yet.
LEMMA BeginsInv ==
  ASSUME RostersInv, NEW l \in Teachers, ~Running(l), sync' = [sync EXCEPT ![l].phase = "fetch"],
         UNCHANGED <<timetable, version, rosterRows>>, throttled' \subseteq Teachers,
         changeReport' \in [Teachers -> Reports],
         \A k \in Teachers : changeReport'[k].since = changeReport[k].since
                             /\ (k = l \/ changeReport'[k].phase = changeReport[k].phase)
  PROVE  RostersInv'
<1> USE DEF RostersInv, RostersTypeOK
<1> DEFINE new == [sync[l] EXCEPT !.phase = "fetch"]
<1>1. sync[l] = NoSync /\ sync[l] \in Syncs
  BY DEF Running
<1>2. new \in Syncs /\ new.phase = "fetch" /\ new.todo = {}
  <2>1. new \in Syncs /\ new.phase = "fetch"
    BY ONLY <1>1 DEF Syncs
  <2>2. new.todo = NoSync.todo
    BY ONLY <1>1 DEF Syncs
  <2> QED BY <2>1, <2>2 DEF NoSync
<1>3. sync' = [sync EXCEPT ![l] = new]
  OBVIOUS
<1>4. new # NoSync
  BY <1>2 DEF NoSync
<1> HIDE DEF new
<1>5. \A k \in Teachers : sync'[k] = IF k = l THEN new ELSE sync[k]
  BY <1>3
<1>6. RostersTypeOK'
  BY <1>2, <1>3 DEF rosterRows
<1>7. SyncsOnTheWay'
  <2>1. UNCHANGED <<timetable, unit>>
    BY DEF rosterRows
  <2> QED BY <1>2, <1>4, <1>5, <2>1, NothingDone
<1>8. ReportsWaitEnough'
  BY <1>2, <1>5 DEF ReportsWaitEnough, Fetched
<1> QED BY <1>6, <1>7, <1>8

LEMMA ReportInv ==
  ASSUME RostersAssumption, RostersInv, NEW u \in Classrooms, Report(u) PROVE RostersInv'
<1> USE DEF RostersInv, RostersTypeOK
<1> DEFINE new(l) == [phase |-> IF WaitsFirst(l) THEN "wait" ELSE "woken", since |-> version]
<1>1. version \in 0 .. MaxVersion /\ version <= version
  BY DEF Versions, RostersAssumption
<1>2. \A l \in Teachers : new(l) \in Reports
  BY <1>1 DEF Reports
<1>3. changeReport' = [l \in Teachers |-> IF l \in Affected(u) THEN new(l) ELSE changeReport[l]]
      /\ UNCHANGED <<timetable, version, rosterRows, sync, throttled>>
  BY DEF Report
<1>4. ASSUME NEW l \in Teachers, new(l).phase = "woken" PROVE ~Fetched(l)
  BY <1>4 DEF WaitsFirst, Running, Fetched, NoSync
<1>5. \A l \in Teachers : new(l).since = version /\ new(l).phase # "asked"
  OBVIOUS
<1> HIDE DEF new
<1>6. RostersTypeOK'
  BY <1>2, <1>3 DEF rosterRows
<1>7. SyncsOnTheWay'
  BY <1>3 DEF SyncsOnTheWay, Fetched, rosterRows
<1>8. ReportsWaitEnough'
  BY <1>1, <1>3, <1>4, <1>5 DEF ReportsWaitEnough, Fetched
<1> QED BY <1>6, <1>7, <1>8

\* A unit's row that changes without its owner's sync: not owned before, or the status alone.
LEMMA OneUnit ==
  ASSUME RostersAssumption, RostersInv, NEW u \in Classrooms, NEW row \in UnitRows,
         unit' = [unit EXCEPT ![u] = row],
         UNCHANGED <<timetable, version, roster, attached, registered, sync, throttled, changeReport>>,
         unit[u].owner = NoTeacher \/ (row.owner = unit[u].owner /\ row.asOf = unit[u].asOf)
  PROVE  RostersInv'
<1> USE DEF RostersInv, RostersTypeOK
<1>1. \A v \in Classrooms : unit'[v] = IF v = u THEN row ELSE unit[v]
  OBVIOUS
<1>2. SyncsOnTheWay'
  <2> SUFFICES ASSUME NEW l \in Teachers, Fetched(l), NEW v \in Classrooms \ sync[l].todo,
                      timetable[sync[l].asOf][v].teacher = l
               PROVE  (unit'[v].owner = l /\ unit'[v].asOf >= sync[l].asOf) \/ unit'[v].owner \notin {l, NoTeacher}
    BY DEF SyncsOnTheWay, Fetched
  <2>1. (unit[v].owner = l /\ unit[v].asOf >= sync[l].asOf) \/ unit[v].owner \notin {l, NoTeacher}
    BY DEF SyncsOnTheWay
  <2>2. unit[v].owner # NoTeacher
    BY <2>1 DEF RostersAssumption
  <2> QED BY <1>1, <2>1, <2>2
<1>3. ReportsWaitEnough'
  BY DEF ReportsWaitEnough, Fetched
<1> QED BY <1>2, <1>3

LEMMA RostersStepInv ==
  ASSUME RostersAssumption, RostersInv, [RostersNext]_rostersVars PROVE RostersInv'
<1> USE DEF RostersInv, RostersTypeOK
<1>0. MaxVersion \in Nat \ {0} /\ version \in 1 .. MaxVersion
  BY DEF RostersAssumption, Versions
<1>1. CASE Change
  <2>1. RostersTypeOK'
    BY <1>0, <1>1 DEF Change, Versions, rosterRows
  <2>2. SyncsOnTheWay'
    <3>1. UNCHANGED <<timetable, unit, sync>>
      BY <1>1 DEF Change, rosterRows
    <3> QED BY <3>1, NothingDone
  <2>3. ReportsWaitEnough'
    <3>1. \A l \in Teachers : changeReport[l].since \in Nat /\ changeReport[l].since <= version
      BY <1>0 DEF Reports, ReportsWaitEnough
    <3>2. \A l \in Teachers : changeReport[l].since <= version + 1
      BY <1>0, <3>1
    <3> QED BY <1>1, <3>2 DEF Change, ReportsWaitEnough, Fetched
  <2> QED BY <2>1, <2>2, <2>3
<1>2. ASSUME NEW u \in Classrooms, VerifyUnit(u) PROVE RostersInv'
  <2> DEFINE row == [unit[u] EXCEPT !.status = "VERIFIED"]
  <2>1. row \in UnitRows /\ row.owner = unit[u].owner /\ row.asOf = unit[u].asOf
    <3>1. unit[u] \in UnitRows
      OBVIOUS
    <3> QED BY <3>1 DEF UnitRows
  <2>2. unit' = [unit EXCEPT ![u] = row] /\ UNCHANGED <<timetable, version, roster, attached, registered, sync, throttled, changeReport>>
    BY <1>2 DEF VerifyUnit
  <2> HIDE DEF row
  <2> QED BY <2>1, <2>2, OneUnit
<1>3. ASSUME NEW l \in Teachers, NEW u \in Classrooms, CreateUnitByHand(l, u) PROVE RostersInv'
  <2>1. PICK status \in {"VERIFIED", "PENDING_VERIFICATION"} : unit' = [unit EXCEPT ![u] = [owner |-> l, status |-> status, asOf |-> 0]]
    BY <1>3 DEF CreateUnitByHand
  <2> DEFINE row == [owner |-> l, status |-> status, asOf |-> 0]
  <2>2. row \in UnitRows
    BY <1>0 DEF UnitRows
  <2>3. unit[u].owner = NoTeacher /\ UNCHANGED <<timetable, version, roster, attached, registered, sync, throttled, changeReport>>
    BY <1>3 DEF CreateUnitByHand, NotCreated
  <2> HIDE DEF row
  <2> QED BY <2>1, <2>2, <2>3, OneUnit DEF row
<1>4. ASSUME NEW u \in Classrooms, Report(u) PROVE RostersInv'
  BY <1>4, ReportInv
<1>5. ASSUME NEW l \in Teachers, PageLoad(l) PROVE RostersInv'
  BY <1>5, BeginsInv DEF PageLoad
<1>6. ASSUME NEW l \in Teachers, Fetch(l) PROVE RostersInv'
  BY <1>6, FetchInv
<1>7. ASSUME NEW l \in Teachers, UpsertUnit(l) PROVE RostersInv'
  BY <1>7, UpsertUnitInv
<1>8. ASSUME NEW l \in Teachers, RosterStatements(l) PROVE RostersInv'
  <2> DEFINE ns == {n \in Scholars : registered[n] # "no"}
             new == [sync[l] EXCEPT !.phase = "commit", !.known = ns]
  <2>1. sync[l] \in Syncs /\ sync[l].phase = "roster" /\ ns \in SUBSET Scholars
    BY <1>8 DEF RosterStatements
  <2> HIDE DEF ns
  <2>2. new \in Syncs /\ new.phase = "commit" /\ new.asOf = sync[l].asOf /\ new.todo = sync[l].todo /\ new.unit = sync[l].unit
    BY <2>1, SyncFields DEF Syncs
  <2>3. sync' = [sync EXCEPT ![l] = new] /\ UNCHANGED <<timetable, version, rosterRows, throttled, changeReport>>
    BY <1>8 DEF RosterStatements, ns
  <2> HIDE DEF new
  <2>4. RostersTypeOK'
    BY <2>2, <2>3 DEF rosterRows
  <2>5. sync[l].unit \in Classrooms /\ Fetched(l)
    BY <2>1 DEF SyncsOnTheWay, Fetched
  <2> QED BY <2>2, <2>3, <2>4, <2>5, OneSync DEF rosterRows
<1>9. ASSUME NEW l \in Teachers, RosterCommit(l) PROVE RostersInv'
  <2> DEFINE u == sync[l].unit
             rowsNow == Reconciled(roster[u], timetable[sync[l].asOf][u].listed)
             new == [sync[l] EXCEPT !.phase = "units", !.unit = NoTeacher, !.known = {}]
  <2>1. sync[l] \in Syncs /\ sync[l].phase = "commit" /\ u \in Classrooms /\ Fetched(l)
    BY <1>9 DEF RosterCommit, SyncsOnTheWay, Fetched
  <2>2. new \in Syncs /\ new.phase = "units" /\ new.asOf = sync[l].asOf /\ new.todo = sync[l].todo
    BY <2>1, SyncFields DEF Syncs
  <2>3. /\ sync' = [sync EXCEPT ![l] = new]
        /\ roster' = [roster EXCEPT ![u] = rowsNow]
        /\ attached' = [attached EXCEPT ![u] = Attached(u, rowsNow, sync[l].known)]
        /\ UNCHANGED <<timetable, version, unit, registered, throttled, changeReport>>
    BY <1>9 DEF RosterCommit
  <2>4. rowsNow \in RosterRows
    BY <2>1 DEF Reconciled, RosterRows
  <2>5. Attached(u, rowsNow, sync[l].known) \in SUBSET Scholars
    BY <2>1 DEF Attached, Syncs
  <2> HIDE DEF new, rowsNow
  <2>6. RostersTypeOK'
    BY <2>1, <2>2, <2>3, <2>4, <2>5
  <2> QED BY <2>1, <2>2, <2>3, <2>6, OneSync
<1>10. ASSUME NEW l \in Teachers, Finish(l) \/ Fail(l) PROVE RostersInv'
  BY <1>10, SettledInv DEF Finish, Fail
<1>11. ASSUME NEW l \in Teachers, IntervalEnds(l) PROVE RostersInv'
  <2>1. UNCHANGED <<timetable, version, unit, sync, changeReport>>
    BY <1>11 DEF IntervalEnds, rosterRows
  <2>2. SyncsOnTheWay' /\ ReportsWaitEnough'
    BY <2>1, NothingDone DEF ReportsWaitEnough, Fetched
  <2> QED BY <1>11, <2>2 DEF IntervalEnds, rosterRows
<1>12. ASSUME NEW l \in Teachers, Resync(l) PROVE RostersInv'
  <2> DEFINE new == [changeReport[l] EXCEPT !.phase = "asked"]
  <2>1. changeReport[l] \in Reports /\ changeReport[l].phase = "woken"
    BY <1>12 DEF Resync
  <2>2. new \in Reports /\ new.phase = "asked" /\ new.since = changeReport[l].since
    BY <2>1 DEF Reports
  <2>3. changeReport' = [changeReport EXCEPT ![l] = new] /\ UNCHANGED <<timetable, version, rosterRows>>
    BY <1>12 DEF Resync
  <2> HIDE DEF new
  <2>4. \A k \in Teachers : changeReport'[k] = IF k = l THEN new ELSE changeReport[k]
    BY <2>3
  <2>5. CASE Running(l)
    <3>1. sync' = sync /\ throttled' \subseteq Teachers
      BY <1>12, <2>5 DEF Resync
    <3>2. RostersTypeOK'
      BY <2>2, <2>3, <3>1 DEF rosterRows
    <3>3. SyncsOnTheWay'
      BY <2>3, <3>1, NothingDone DEF rosterRows
    <3>4. ReportsWaitEnough'
      BY <2>1, <2>2, <2>3, <2>4, <3>1 DEF ReportsWaitEnough, Fetched
    <3> QED BY <3>2, <3>3, <3>4
  <2>6. CASE ~Running(l)
    <3>1. sync' = [sync EXCEPT ![l].phase = "fetch"] /\ throttled' \subseteq Teachers
      BY <1>12, <2>6 DEF Resync
    <3>2. changeReport' \in [Teachers -> Reports]
      BY <2>2, <2>3
    <3> QED BY <2>2, <2>3, <2>4, <2>6, <3>1, <3>2, BeginsInv
  <2> QED BY <2>5, <2>6
<1>13. ASSUME NEW n \in Scholars, RegisterScholar(n) \/ LinkAllocations(n) \/ LinkingFails(n) PROVE RostersInv'
  <2>1. UNCHANGED <<timetable, version, unit, roster, sync, throttled, changeReport>>
    BY <1>13 DEF RegisterScholar, LinkAllocations, LinkingFails
  <2>2. SyncsOnTheWay' /\ ReportsWaitEnough'
    BY <2>1, NothingDone DEF ReportsWaitEnough, Fetched
  <2>3. registered' \in [Scholars -> {"no", "linking", "yes", "unlinked"}] /\ attached' \in [Classrooms -> SUBSET Scholars]
    BY <1>13 DEF RegisterScholar, LinkAllocations, LinkingFails
  <2> QED BY <2>1, <2>2, <2>3
<1>14. CASE UNCHANGED rostersVars
  <2>1. UNCHANGED <<timetable, version, unit, roster, attached, registered, sync, throttled, changeReport>>
    BY <1>14 DEF rostersVars
  <2>2. SyncsOnTheWay' /\ ReportsWaitEnough'
    BY <2>1, NothingDone DEF ReportsWaitEnough, Fetched
  <2> QED BY <2>1, <2>2
<1> QED BY <1>1, <1>2, <1>3, <1>4, <1>5, <1>6, <1>7, <1>8, <1>9, <1>10, <1>11, <1>12, <1>13, <1>14 DEF RostersNext

(* For any lecturers, units and timetables: a unit's row is written by its  *)
(* owner's sync alone, and no report asks on the strength of a sync that    *)
(* read SMARTTT before it (unit.service.ts resyncAfterTimetableChange).     *)
THEOREM RostersTypes ==
  ASSUME RostersAssumption PROVE RostersSpec => []RostersInv
<1>1. RostersInit => RostersInv
  BY RostersInitInv
<1>2. RostersInv /\ [RostersNext]_rostersVars => RostersInv'
  BY RostersStepInv
<1> QED BY <1>1, <1>2, PTL DEF RostersSpec

LEMMA ReportedChangeStep ==
  ASSUME RostersAssumption, RostersInv, [RostersNext]_rostersVars PROVE ReportedChangeArrivesStep
<1> SUFFICES ASSUME NEW l \in Teachers, changeReport[l].phase = "asked", changeReport'[l].phase = "none",
                    sync[l].phase = "units", sync[l].todo = {},
                    NEW u \in Classrooms, unit'[u].owner = l, timetable[sync[l].asOf][u].teacher = l
             PROVE  unit'[u].asOf >= changeReport[l].since
  BY DEF ReportedChangeArrivesStep
<1>2. unit' = unit
  <2>1. changeReport' # changeReport
    OBVIOUS
  <2>2. (\E k \in Teachers : Finish(k) \/ Fail(k) \/ Resync(k)) \/ (\E v \in Classrooms : Report(v))
    BY <2>1 DEF RostersNext, rostersVars, Change, CreateUnitByHand, VerifyUnit, PageLoad, Fetch, UpsertUnit, RosterStatements,
                RosterCommit, IntervalEnds, RegisterScholar, LinkAllocations, LinkingFails
  <2> QED BY <2>2 DEF Finish, Fail, Resync, Report, rosterRows
<1>3. Fetched(l)
  BY DEF Fetched
<1>4. sync[l].asOf >= changeReport[l].since
  BY <1>3 DEF RostersInv, ReportsWaitEnough
<1>5. unit[u].asOf >= sync[l].asOf
  BY <1>2, <1>3 DEF RostersInv, SyncsOnTheWay
<1>6. unit[u].asOf \in Int /\ sync[l].asOf \in Int /\ changeReport[l].since \in Int
  <2>1. MaxVersion \in Nat /\ unit[u] \in UnitRows /\ sync[l] \in Syncs /\ changeReport[l] \in Reports
    BY DEF RostersInv, RostersTypeOK, RostersAssumption
  <2> QED BY <2>1 DEF UnitRows, Syncs, Reports
<1> QED BY <1>2, <1>4, <1>5, <1>6

(* A change SMARTTT reported has arrived when its handling ends             *)
(* (unit.service.ts resyncAfterTimetableChange).                            *)
THEOREM ReportedChangeAlwaysArrives ==
  ASSUME RostersAssumption PROVE RostersSpec => ReportedChangeArrives
BY RostersTypes, ReportedChangeStep, PTL DEF RostersSpec, ReportedChangeArrives

LEMMA CommitAttaches ==
  ASSUME RostersInv, NEW l \in Teachers, NEW n \in Scholars, NEW u \in Classrooms,
         sync[l].unit = u, RosterCommit(l), n \in sync[l].known
  PROVE  ~Unattached(u, n)'
<1> DEFINE rowsNow == Reconciled(roster[u], timetable[sync[l].asOf][u].listed)
<1>1. /\ roster' = [roster EXCEPT ![u] = rowsNow]
      /\ attached' = [attached EXCEPT ![u] = Attached(u, rowsNow, sync[l].known)]
  BY DEF RosterCommit
<1> HIDE DEF rowsNow
<1>2. roster'[u] = rowsNow /\ attached'[u] = Attached(u, rowsNow, sync[l].known)
  BY <1>1 DEF RostersInv, RostersTypeOK
<1>3. roster'[u][n] = "ACTIVE" => n \in attached'[u]
  BY <1>2 DEF Attached
<1> QED BY <1>3 DEF Unattached

LEMMA UnattachedBy ==
  ASSUME RostersAssumption, RostersInv, [RostersNext]_rostersVars,
         NEW u \in Classrooms, NEW n \in Scholars, Unattached(u, n)', ~Unattached(u, n)
  PROVE  \/ \E l \in Teachers : sync[l].phase = "commit" /\ sync[l].unit = u /\ n \notin sync[l].known
         \/ registered[n] = "linking" /\ registered'[n] = "unlinked"
<1>1. roster'[u][n] = "ACTIVE" /\ registered'[n] \in {"yes", "unlinked"} /\ n \notin attached'[u]
  BY DEF Unattached
<1>2. ~(UNCHANGED <<roster, attached, registered>>)
  BY DEF Unattached
<1>3. ASSUME NEW l \in Teachers, RosterCommit(l)
      PROVE  sync[l].phase = "commit" /\ sync[l].unit = u /\ n \notin sync[l].known
  <2> DEFINE v == sync[l].unit
             rowsNow == Reconciled(roster[v], timetable[sync[l].asOf][v].listed)
  <2>1. /\ sync[l].phase = "commit" /\ registered' = registered
        /\ roster' = [roster EXCEPT ![v] = rowsNow]
        /\ attached' = [attached EXCEPT ![v] = Attached(v, rowsNow, sync[l].known)]
    BY <1>3 DEF RosterCommit
  <2> HIDE DEF rowsNow
  <2>2. u = v
    <3>1. ASSUME u # v PROVE FALSE
      <4>1. roster'[u] = roster[u] /\ attached'[u] = attached[u]
        BY <2>1, <3>1 DEF RostersInv, RostersTypeOK
      <4> QED BY <1>1, <2>1, <4>1 DEF Unattached
    <3> QED BY <3>1
  <2>3. roster'[u] = rowsNow /\ attached'[u] = Attached(u, rowsNow, sync[l].known)
    BY <2>1, <2>2 DEF RostersInv, RostersTypeOK
  <2> QED BY <1>1, <2>1, <2>2, <2>3 DEF Attached
<1>4. ASSUME NEW m \in Scholars, LinkAllocations(m) PROVE FALSE
  <2>1. /\ roster' = roster /\ registered' = [registered EXCEPT ![m] = "yes"]
        /\ attached'[u] = IF roster[u][m] # "NONE" THEN attached[u] \cup {m} ELSE attached[u]
    BY <1>4 DEF LinkAllocations
  <2>2. m = n
    BY <1>1, <2>1 DEF Unattached, RostersInv, RostersTypeOK
  <2> QED BY <1>1, <2>1, <2>2
<1>5. ASSUME NEW m \in Scholars, RegisterScholar(m) PROVE FALSE
  <2>1. roster' = roster /\ attached' = attached /\ registered' = [registered EXCEPT ![m] = "linking"]
    BY <1>5 DEF RegisterScholar
  <2> QED BY <1>1, <2>1 DEF Unattached, RostersInv, RostersTypeOK
<1>7. ASSUME NEW m \in Scholars, LinkingFails(m) PROVE registered[n] = "linking" /\ registered'[n] = "unlinked"
  <2>1. roster' = roster /\ attached' = attached /\ registered[m] = "linking" /\ registered' = [registered EXCEPT ![m] = "unlinked"]
    BY <1>7 DEF LinkingFails
  <2>2. m = n
    BY <1>1, <2>1 DEF Unattached, RostersInv, RostersTypeOK
  <2> QED BY <2>1, <2>2 DEF RostersInv, RostersTypeOK
<1>8. (\E l \in Teachers : RosterCommit(l)) \/ (\E m \in Scholars : LinkAllocations(m) \/ RegisterScholar(m) \/ LinkingFails(m))
  BY <1>2 DEF RostersNext, rostersVars, rosterRows, Change, CreateUnitByHand, VerifyUnit, PageLoad, Fetch, UpsertUnit, RosterStatements,
              Finish, Fail, IntervalEnds, Report, Resync
<1> QED BY <1>3, <1>4, <1>5, <1>7, <1>8

LEMMA UnattachedStep ==
  ASSUME RostersAssumption, RostersInv, [RostersNext]_rostersVars PROVE UnattachedOnlyByOverlapStep
<1>1. ASSUME NEW u \in Classrooms, NEW n \in Scholars, NEW l \in Teachers,
             sync[l].phase = "commit", sync'[l].phase = "units", sync[l].unit = u, n \in sync[l].known
      PROVE  ~Unattached(u, n)'
  <2>1. RosterCommit(l)
    <3>1. sync' # sync
      BY <1>1
    <3>2. PICK k \in Teachers : \/ PageLoad(k) \/ Fetch(k) \/ UpsertUnit(k) \/ RosterStatements(k) \/ RosterCommit(k)
                                \/ Finish(k) \/ Fail(k) \/ Resync(k)
      BY <3>1 DEF RostersNext, rostersVars, Change, VerifyUnit, CreateUnitByHand, Report, IntervalEnds, RegisterScholar,
                  LinkAllocations, LinkingFails
    <3>3. sync \in [Teachers -> Syncs]
      BY DEF RostersInv, RostersTypeOK
    <3>4. k = l
      BY <1>1, <3>2, <3>3 DEF PageLoad, Fetch, UpsertUnit, RosterStatements, RosterCommit, Finish, Fail, Settled, Resync
    <3>5. ~PageLoad(l) /\ ~Fetch(l) /\ ~UpsertUnit(l) /\ ~RosterStatements(l) /\ ~Finish(l) /\ ~Resync(l)
      BY <1>1, <3>3 DEF PageLoad, Fetch, UpsertUnit, RosterStatements, Finish, Resync, Running, NoSync
    <3>6. ~Fail(l)
      BY <1>1, <3>3 DEF Fail, Settled, NoSync
    <3> QED BY <3>2, <3>4, <3>5, <3>6
  <2> QED BY <1>1, <2>1, CommitAttaches
<1> QED BY <1>1, UnattachedBy DEF UnattachedOnlyByOverlapStep

(* A student with an account is left off a roster only by a sync that ran   *)
(* its last statement before the account was there, or by a linking that    *)
(* failed, and is back on it with the next sync (unit.repository.ts         *)
(* syncRosterAllocations, linkAllocationsToStudent; auth.service.ts         *)
(* linkStudentToRosters).                                                   *)
THEOREM OnlyOverlapLeavesUnattached ==
  ASSUME RostersAssumption PROVE RostersSpec => UnattachedOnlyByOverlap
BY RostersTypes, UnattachedStep, PTL DEF RostersSpec, UnattachedOnlyByOverlap

-----------------------------------------------------------------------------
(* Loops.  MapThenFoldSet chooses a function for its recursion, and a step  *)
(* that stays within a set has one.                                         *)

\* pick says which element of a set the loop comes to last, h what it leaves.
Picks(pick, S) == \A s \in SUBSET S : s # {} => pick[s] \in s
Loops(h, S, base, step, pick) ==
  \A s \in SUBSET S : h[s] = IF s = {} THEN base ELSE step[<<pick[s], h[s \ {pick[s]}]>>]

LEMMA LoopExists ==
  ASSUME NEW S, IsFiniteSet(S), NEW A, NEW base, base \in A, NEW step, step \in [S \X A -> A],
         NEW pick, Picks(pick, S)
  PROVE  \E h \in [SUBSET S -> A] : Loops(h, S, base, step, pick)
<1> DEFINE UpTo(n) == {s \in SUBSET S : Cardinality(s) <= n}
           Follows(h, n) == \A s \in UpTo(n) :
              h[s] = IF s = {} THEN base ELSE step[<<pick[s], h[s \ {pick[s]}]>>]
           Bad == {n \in Nat : ~ \E h \in [UpTo(n) -> A] : Follows(h, n)}
<1>1. \A s \in SUBSET S : IsFiniteSet(s) /\ Cardinality(s) \in Nat /\ Cardinality(s) <= Cardinality(S)
  BY FS_Subset, FS_CardinalityType
<1>2. \A s \in SUBSET S : Cardinality(s) = 0 <=> s = {}
  BY <1>1, FS_EmptySet
<1>3. \A s \in SUBSET S : s # {} => /\ s \ {pick[s]} \in SUBSET S
                                    /\ Cardinality(s \ {pick[s]}) = Cardinality(s) - 1
  BY <1>1, FS_RemoveElement DEF Picks
<1>4. Bad = {}
  <2> SUFFICES ASSUME Bad # {} PROVE FALSE
    OBVIOUS
  <2>1. PICK m \in Bad : \A k \in Bad : ~(<<k, m>> \in OpToRel(<, Nat))
    <3> HIDE DEF Bad
    <3>1. Bad \subseteq Nat
      BY DEF Bad
    <3> QED BY <3>1, NatLessThanWellFounded, WFMin
  <2>2. CASE m = 0
    <3> DEFINE h0 == [s \in UpTo(0) |-> base]
    <3>1. \A s \in UpTo(0) : s = {}
      BY <1>1, <1>2
    <3>2. h0 \in [UpTo(0) -> A] /\ Follows(h0, 0)
      BY <3>1
    <3> QED BY <2>2, <3>2
  <2>3. CASE m # 0
    <3> DEFINE k == m - 1
    <3>1. k \in Nat /\ k < m /\ m = k + 1
      BY <2>3
    <3>2. k \notin Bad
      BY <2>1, <3>1 DEF OpToRel
    <3>3. PICK h \in [UpTo(k) -> A] : Follows(h, k)
      BY <3>1, <3>2
    <3> DEFINE up == [s \in UpTo(m) |->
                        IF s \in UpTo(k) THEN h[s] ELSE step[<<pick[s], h[s \ {pick[s]}]>>]]
    <3> HIDE DEF k
    <3>4. UpTo(k) \subseteq UpTo(m)
      BY <1>1, <3>1
    <3>5. \A s \in UpTo(m) : s # {} => pick[s] \in S /\ s \ {pick[s]} \in UpTo(k)
      BY <1>1, <1>3, <3>1
    <3>6. {} \in UpTo(k)
      BY <1>1, <1>2, <3>1
    <3>7. \A s \in UpTo(k) : s # {} => s \ {pick[s]} \in UpTo(k)
      BY <3>4, <3>5
    <3> HIDE DEF UpTo
    <3>8. up \in [UpTo(m) -> A]
      <4> SUFFICES ASSUME NEW s \in UpTo(m), s \notin UpTo(k)
                   PROVE step[<<pick[s], h[s \ {pick[s]}]>>] \in A
        OBVIOUS
      <4>1. pick[s] \in S /\ h[s \ {pick[s]}] \in A
        BY <3>5, <3>6
      <4> QED BY <4>1
    <3>9. Follows(up, m)
      <4> SUFFICES ASSUME NEW s \in UpTo(m)
                   PROVE up[s] = IF s = {} THEN base ELSE step[<<pick[s], up[s \ {pick[s]}]>>]
        OBVIOUS
      <4>1. CASE s \in UpTo(k)
        <5>1. up[s] = h[s] /\ (s # {} => up[s \ {pick[s]}] = h[s \ {pick[s]}])
          BY <4>1, <3>4, <3>7
        <5>2. h[s] = IF s = {} THEN base ELSE step[<<pick[s], h[s \ {pick[s]}]>>]
          BY <4>1, <3>3
        <5> HIDE DEF up
        <5> QED BY <5>1, <5>2
      <4>2. CASE s \notin UpTo(k)
        <5>1. s # {} /\ up[s \ {pick[s]}] = h[s \ {pick[s]}]
          BY <4>2, <3>4, <3>5, <3>6
        <5>2. up[s] = step[<<pick[s], h[s \ {pick[s]}]>>]
          BY <4>2
        <5> HIDE DEF up
        <5> QED BY <5>1, <5>2
      <4> QED BY <4>1, <4>2
    <3> HIDE DEF up, Follows
    <3> QED BY <3>8, <3>9
  <2> QED BY <2>2, <2>3
<1>5. Cardinality(S) \in Nat /\ UpTo(Cardinality(S)) = SUBSET S
  BY <1>1, FS_CardinalityType
<1>6. PICK h \in [UpTo(Cardinality(S)) -> A] : Follows(h, Cardinality(S))
  <2> HIDE DEF UpTo, Follows
  <2> QED BY <1>4, <1>5
<1> QED BY <1>5, <1>6 DEF Loops

\* What the loop leaves after any of its elements stays within the set.
StepsWithin(g, S, A, step, pick) ==
  /\ g[{}] \in A
  /\ \A s \in SUBSET S : s # {} /\ g[s \ {pick[s]}] \in A => g[s] = step[<<pick[s], g[s \ {pick[s]}]>>]

LEMMA LoopStays ==
  ASSUME NEW S, IsFiniteSet(S), NEW A, NEW step, step \in [S \X A -> A], NEW pick, Picks(pick, S),
         NEW g, StepsWithin(g, S, A, step, pick)
  PROVE  g[S] \in A
<1> DEFINE Bad == {n \in Nat : \E s \in SUBSET S : Cardinality(s) = n /\ g[s] \notin A}
<1>1. Bad = {}
  <2> SUFFICES ASSUME Bad # {} PROVE FALSE
    OBVIOUS
  <2>1. PICK m \in Bad : \A k \in Bad : ~(<<k, m>> \in OpToRel(<, Nat))
    <3> HIDE DEF Bad
    <3>1. Bad \subseteq Nat
      BY DEF Bad
    <3> QED BY <3>1, NatLessThanWellFounded, WFMin
  <2>2. PICK s \in SUBSET S : Cardinality(s) = m /\ g[s] \notin A
    OBVIOUS
  <2>3. s # {}
    BY <2>2 DEF StepsWithin
  <2> DEFINE less == s \ {pick[s]}
             k == Cardinality(less)
  <2>4. pick[s] \in s /\ pick[s] \in S /\ IsFiniteSet(s) /\ less \in SUBSET S
    BY <2>3, FS_Subset DEF Picks
  <2>5. k \in Nat /\ k < m
    <3>1. Cardinality(less) = Cardinality(s) - 1 /\ IsFiniteSet(less)
      BY <2>4, FS_RemoveElement
    <3>2. Cardinality(less) \in Nat /\ Cardinality(s) \in Nat
      BY <2>4, <3>1, FS_CardinalityType
    <3> HIDE DEF less
    <3> QED BY <2>2, <3>1, <3>2
  <2>6. k \notin Bad
    <3> HIDE DEF k, Bad
    <3>1. m \in Nat
      BY DEF Bad
    <3> QED BY <2>1, <2>5, <3>1 DEF OpToRel
  <2>7. g[less] \in A
    BY <2>4, <2>5, <2>6
  <2>8. g[s] = step[<<pick[s], g[less]>>]
    BY <2>3, <2>7 DEF StepsWithin
  <2> HIDE DEF less
  <2> QED BY <2>2, <2>4, <2>7, <2>8
<1>2. Cardinality(S) \in Nat
  BY FS_CardinalityType
<1> QED BY <1>1, <1>2

\* A set of naturals has a greatest one, and Max is it.
LEMMA MaxIsThere ==
  ASSUME NEW S \in SUBSET Nat, IsFiniteSet(S), S # {}
  PROVE  Max(S) \in S
<1> DEFINE Greatest(s) == \E x \in s : \A y \in s : x >= y
           Bad == {n \in Nat : \E s \in SUBSET Nat : IsFiniteSet(s) /\ s # {} /\ Cardinality(s) = n /\ ~Greatest(s)}
<1>1. Bad = {}
  <2> SUFFICES ASSUME Bad # {} PROVE FALSE
    OBVIOUS
  <2>1. PICK m \in Bad : \A k \in Bad : ~(<<k, m>> \in OpToRel(<, Nat))
    <3> HIDE DEF Bad
    <3>1. Bad \subseteq Nat
      BY DEF Bad
    <3> QED BY <3>1, NatLessThanWellFounded, WFMin
  <2>2. PICK s \in SUBSET Nat : IsFiniteSet(s) /\ s # {} /\ Cardinality(s) = m /\ ~Greatest(s)
    OBVIOUS
  <2>3. PICK x \in s : TRUE
    BY <2>2
  <2> DEFINE rest == s \ {x}
  <2>4. IsFiniteSet(rest) /\ Cardinality(rest) = m - 1 /\ Cardinality(rest) \in Nat /\ rest \in SUBSET Nat
    BY <2>2, <2>3, FS_RemoveElement, FS_CardinalityType
  <2>5. rest # {}
    <3> SUFFICES ASSUME rest = {} PROVE FALSE
      OBVIOUS
    <3>1. s = {x}
      BY <2>3
    <3> QED BY <2>2, <3>1
  <2>6. m - 1 \notin Bad
    <3> DEFINE k == m - 1
    <3>1. k \in Nat /\ k < m
      BY <2>4
    <3>2. k \notin Bad
      <4> HIDE DEF k
      <4> QED BY <2>1, <3>1 DEF OpToRel
    <3> QED BY <3>2
  <2>7. PICK y \in rest : \A z \in rest : y >= z
    <3> HIDE DEF rest
    <3> QED BY <2>4, <2>5, <2>6
  <2>8. x \in Nat /\ y \in Nat /\ s \subseteq Nat /\ y \in s
    BY <2>2, <2>3
  <2>9. CASE x >= y
    <3>1. \A z \in s : x >= z
      BY <2>7, <2>8, <2>9
    <3> QED BY <2>2, <3>1
  <2>10. CASE y >= x
    <3>1. \A z \in s : y >= z
      BY <2>7, <2>8, <2>10
    <3> QED BY <2>2, <2>8, <3>1
  <2> QED BY <2>8, <2>9, <2>10
<1>2. Cardinality(S) \in Nat
  BY FS_CardinalityType
<1>3. \E x \in S : \A y \in S : x >= y
  BY <1>1, <1>2
<1> QED BY <1>3 DEF Max

-----------------------------------------------------------------------------
(* Departments.  A spelling places only who has no department, and the      *)
(* copy loses a department by a merge only, whatever list it is brought.    *)

NamesGiven == Spellings \cup {Nowhere}
DepartmentRows == [there : BOOLEAN, name : NamesGiven, link : SmartttIds \cup {Nowhere}]
StaffRows == [spelling : NamesGiven, department : DepartmentIds \cup {Nowhere}]
Doings == {"nothing", "sync", "create", "edit", "send", "place", "move", "merge", "insert", "link", "rename"}
CallRows == [does : Doings, one : DepartmentIds \cup Staff \cup {Nowhere},
             other : DepartmentIds \cup SmartttIds \cup {Nowhere},
             name : NamesGiven, list : [SmartttIds -> NamesGiven]]

DepartmentsTypeOK ==
  /\ listed \in [SmartttIds -> NamesGiven]
  /\ department \in [DepartmentIds -> DepartmentRows]
  /\ alias \in [Keys -> DepartmentIds \cup {Nowhere}]
  /\ lecturer \in [Staff -> StaffRows]
  /\ handling \in [Callers -> CallRows]

NamedIn(rows) == \A d \in DepartmentIds : rows[d].there => rows[d].name \in Spellings

\* What a request has read is what it goes on to write.
CallSound(c) ==
  /\ c.does \in {"create", "edit", "send", "insert", "rename"} => c.name \in Spellings
  /\ c.does \in {"edit", "send", "rename", "link", "merge"} => c.one \in DepartmentIds
  /\ c.does \in {"place", "move", "merge"} => c.other \in DepartmentIds
  /\ c.does = "merge" => c.one # c.other
  /\ c.does = "edit" => c.other \in SmartttIds \cup {Nowhere}
  /\ c.does \in {"insert", "link"} => c.other \in SmartttIds

DepartmentsInv ==
  /\ DepartmentsTypeOK
  /\ NamedIn(department)
  /\ \A r \in Callers : CallSound(handling[r])

\* What most steps leave in place.
DepartmentsStay == There(department) \subseteq There(department')
PlacedStay ==
  \A l \in Staff : lecturer[l].department # Nowhere => lecturer'[l].department = lecturer[l].department

-----------------------------------------------------------------------------
\* Of the departments of a canonical name, the first by name is one.
LEMMA FirstByName ==
  ASSUME DepartmentsAssumption, NEW rows, NamedIn(rows), NEW s, SameKey(rows, s) # {}
  PROVE  (CHOOSE d \in SameKey(rows, s) : \A e \in SameKey(rows, s) : rows[d].name <= rows[e].name) \in SameKey(rows, s)
<1> DEFINE K == SameKey(rows, s)
           Names == {n \in Nat : \E d \in K : rows[d].name = n}
<1>1. \A d \in K : rows[d].name \in Nat
  BY DEF SameKey, There, NamedIn, DepartmentsAssumption
<1>2. Names # {} /\ Names \subseteq Nat
  BY <1>1
<1>3. PICK n \in Names : \A k \in Names : ~(<<k, n>> \in OpToRel(<, Nat))
  <2> HIDE DEF Names
  <2> QED BY <1>2, NatLessThanWellFounded, WFMin
<1>4. PICK d \in K : rows[d].name = n
  OBVIOUS
<1>5. \A e \in K : rows[d].name <= rows[e].name
  <2> SUFFICES ASSUME NEW e \in K PROVE rows[d].name <= rows[e].name
    OBVIOUS
  <2>1. rows[e].name \in Names /\ rows[e].name \in Nat /\ n \in Nat
    BY <1>1
  <2>2. ~(rows[e].name < n)
    BY <1>3, <2>1 DEF OpToRel
  <2> QED BY <1>4, <2>1, <2>2
<1> HIDE DEF K
<1>6. (CHOOSE x \in K : \A e \in K : rows[x].name <= rows[e].name) \in K
  BY <1>5
<1> QED BY <1>6 DEF K

LEMMA MeaningType ==
  ASSUME DepartmentsAssumption, DepartmentsInv, NEW s \in NamesGiven
  PROVE  Meaning(s) \in DepartmentIds \cup {Nowhere}
<1>1. s # Nowhere => KeyOf[s] \in Keys
  BY DEF NamesGiven, Keys
<1>2. SameKey(department, s) \subseteq DepartmentIds
  BY DEF SameKey, There
<1>3. alias \in [Keys -> DepartmentIds \cup {Nowhere}] /\ NamedIn(department)
  BY DEF DepartmentsInv, DepartmentsTypeOK
<1>4. CASE SameKey(department, s) # {}
  BY <1>2, <1>3, <1>4, FirstByName DEF Meaning, MeaningIn
<1> QED BY <1>1, <1>3, <1>4 DEF Meaning, MeaningIn

\* A copy that has lost no department, and nobody their department.
Copies ==
  {copy \in [rows : [DepartmentIds -> DepartmentRows], staff : [Staff -> StaffRows]] :
     /\ NamedIn(copy.rows)
     /\ There(department) \subseteq There(copy.rows)
     /\ \A l \in Staff : lecturer[l].department # Nowhere => copy.staff[l].department = lecturer[l].department}

LEMMA CopyOf ==
  ASSUME NEW rows \in [DepartmentIds -> DepartmentRows], NEW staff \in [Staff -> StaffRows],
         NamedIn(rows), There(department) \subseteq There(rows),
         \A l \in Staff : lecturer[l].department # Nowhere => staff[l].department = lecturer[l].department
  PROVE  [rows |-> rows, staff |-> staff] \in Copies
BY DEF Copies

LEMMA CopyHas ==
  ASSUME NEW copy \in Copies
  PROVE  /\ copy = [rows |-> copy.rows, staff |-> copy.staff]
         /\ copy.rows \in [DepartmentIds -> DepartmentRows]
         /\ copy.staff \in [Staff -> StaffRows]
         /\ NamedIn(copy.rows)
         /\ There(department) \subseteq There(copy.rows)
         /\ \A l \in Staff : lecturer[l].department # Nowhere => copy.staff[l].department = lecturer[l].department
BY DEF Copies

LEMMA PlacedInType ==
  ASSUME DepartmentsAssumption, NEW staff \in [Staff -> StaffRows], NEW d \in DepartmentIds, NEW rows, NEW aliases
  PROVE  /\ PlacedIn(d, rows, aliases, staff) \in [Staff -> StaffRows]
         /\ \A l \in Staff : staff[l].department # Nowhere => PlacedIn(d, rows, aliases, staff)[l] = staff[l]
<1>1. ASSUME NEW l \in Staff PROVE [staff[l] EXCEPT !.department = d] \in StaffRows
  BY DEF StaffRows
<1>2. \A l \in Staff : staff[l] \in StaffRows
  OBVIOUS
<1> DEFINE new(l) == IF Waiting(staff[l]) /\ MeaningIn(rows, aliases, staff[l].spelling) = d
                     THEN [staff[l] EXCEPT !.department = d] ELSE staff[l]
<1>3. \A l \in Staff : new(l) \in StaffRows
  BY <1>1, <1>2
<1>4. PlacedIn(d, rows, aliases, staff) = [l \in Staff |-> new(l)]
  BY DEF PlacedIn
<1>5. \A l \in Staff : staff[l].department # Nowhere => new(l) = staff[l]
  BY DEF Waiting
<1> HIDE DEF new
<1> QED BY <1>3, <1>4, <1>5

LEMMA InsertedCopy ==
  ASSUME DepartmentsAssumption, NEW copy \in Copies, NEW name \in Spellings, NEW i \in SmartttIds
  PROVE  Inserted(copy, name, i) \in Copies
<1>1. CASE Unused(copy.rows) = {}
  BY <1>1 DEF Inserted
<1>2. CASE Unused(copy.rows) # {}
  <2> DEFINE d == CHOOSE n \in Unused(copy.rows) : TRUE
             row == [there |-> TRUE, name |-> name, link |-> i]
             rows == [copy.rows EXCEPT ![d] = row]
             staff == PlacedIn(d, rows, alias, copy.staff)
  <2>1. d \in DepartmentIds
    BY <1>2 DEF Unused
  <2>2. row \in DepartmentRows /\ row.there /\ row.name \in Spellings
    BY DEF DepartmentRows, NamesGiven
  <2> HIDE DEF d, row
  <2>3. /\ rows \in [DepartmentIds -> DepartmentRows]
        /\ \A e \in DepartmentIds : rows[e] = IF e = d THEN row ELSE copy.rows[e]
    BY <2>1, <2>2, CopyHas
  <2> HIDE DEF rows
  <2>4. NamedIn(rows) /\ There(department) \subseteq There(rows)
    BY <2>2, <2>3, CopyHas DEF NamedIn, There
  <2>5. /\ staff \in [Staff -> StaffRows]
        /\ \A l \in Staff : copy.staff[l].department # Nowhere => staff[l] = copy.staff[l]
    BY <2>1, CopyHas, PlacedInType
  <2> HIDE DEF staff
  <2>6. [rows |-> rows, staff |-> staff] \in Copies
    BY <2>3, <2>4, <2>5, CopyHas, CopyOf
  <2> QED BY <1>2, <2>6 DEF Inserted, d, row, rows, staff
<1> QED BY <1>1, <1>2

LEMMA RenamedRows ==
  ASSUME NEW rows \in [DepartmentIds -> DepartmentRows], NamedIn(rows), NEW name \in Spellings, NEW which
  PROVE  /\ Renamed(rows, which, name) \in [DepartmentIds -> DepartmentRows]
         /\ NamedIn(Renamed(rows, which, name)) /\ There(rows) = There(Renamed(rows, which, name))
<1> DEFINE new(d) == IF d \in which THEN [rows[d] EXCEPT !.name = name] ELSE rows[d]
<1>1. ASSUME NEW d \in DepartmentIds
      PROVE  new(d) \in DepartmentRows /\ new(d).there = rows[d].there /\ (new(d).there => new(d).name \in Spellings)
  <2>1. rows[d] \in DepartmentRows
    OBVIOUS
  <2>2. [rows[d] EXCEPT !.name = name] \in DepartmentRows
    BY <2>1 DEF DepartmentRows, NamesGiven
  <2>3. [rows[d] EXCEPT !.name = name].there = rows[d].there /\ [rows[d] EXCEPT !.name = name].name = name
    BY <2>1 DEF DepartmentRows
  <2> QED BY <2>1, <2>2, <2>3 DEF NamedIn
<1>2. Renamed(rows, which, name) = [d \in DepartmentIds |-> new(d)]
  BY DEF Renamed
<1> HIDE DEF new
<1> QED BY <1>1, <1>2 DEF NamedIn, There

LEMMA LinkedRows ==
  ASSUME NEW rows \in [DepartmentIds -> DepartmentRows], NamedIn(rows), NEW i \in SmartttIds, NEW which
  PROVE  /\ Linked(rows, which, i) \in [DepartmentIds -> DepartmentRows]
         /\ NamedIn(Linked(rows, which, i)) /\ There(rows) = There(Linked(rows, which, i))
<1> DEFINE new(d) == IF d \in which /\ rows[d].link = Nowhere THEN [rows[d] EXCEPT !.link = i] ELSE rows[d]
<1>1. ASSUME NEW d \in DepartmentIds
      PROVE  new(d) \in DepartmentRows /\ new(d).there = rows[d].there /\ (new(d).there => new(d).name \in Spellings)
  <2>1. rows[d] \in DepartmentRows
    OBVIOUS
  <2>2. [rows[d] EXCEPT !.link = i] \in DepartmentRows
    BY <2>1 DEF DepartmentRows
  <2>3. [rows[d] EXCEPT !.link = i].there = rows[d].there /\ [rows[d] EXCEPT !.link = i].name = rows[d].name
    BY <2>1 DEF DepartmentRows
  <2> QED BY <2>1, <2>2, <2>3 DEF NamedIn
<1>2. Linked(rows, which, i) = [d \in DepartmentIds |-> new(d)]
  BY DEF Linked
<1> HIDE DEF new
<1> QED BY <1>1, <1>2 DEF NamedIn, There

\* One department of the list leaves such a copy.
LEMMA BroughtInCopy ==
  ASSUME DepartmentsAssumption, NEW copy \in Copies, NEW i \in SmartttIds, NEW name \in NamesGiven
  PROVE  BroughtIn(copy, i, name) \in Copies
<1> DEFINE mine == {d \in There(copy.rows) : copy.rows[d].link = i}
           same == NamedSo(copy.rows, name)
<1> HIDE DEF mine, same
<1>1. BroughtIn(copy, i, name) =
         IF name = Nowhere \/ (mine # {} /\ ~(same \subseteq mine)) THEN copy
         ELSE IF mine # {} THEN [copy EXCEPT !.rows = Renamed(copy.rows, mine, name)]
         ELSE IF same # {} THEN [copy EXCEPT !.rows = Linked(copy.rows, same, i)]
         ELSE Inserted(copy, name, i)
  BY DEF BroughtIn, mine, same
<1>2. CASE name = Nowhere
  BY <1>1, <1>2
<1>3. CASE name # Nowhere
  <2>1. name \in Spellings
    BY <1>3 DEF NamesGiven
  <2>2. [copy EXCEPT !.rows = Renamed(copy.rows, mine, name)] \in Copies
    <3>1. [copy EXCEPT !.rows = Renamed(copy.rows, mine, name)] = [rows |-> Renamed(copy.rows, mine, name), staff |-> copy.staff]
      BY CopyHas
    <3> QED BY <2>1, <3>1, CopyHas, CopyOf, RenamedRows
  <2>3. [copy EXCEPT !.rows = Linked(copy.rows, same, i)] \in Copies
    <3>1. [copy EXCEPT !.rows = Linked(copy.rows, same, i)] = [rows |-> Linked(copy.rows, same, i), staff |-> copy.staff]
      BY CopyHas
    <3> QED BY <3>1, CopyHas, CopyOf, LinkedRows
  <2>4. Inserted(copy, name, i) \in Copies
    BY <2>1, InsertedCopy
  <2> QED BY <1>1, <1>3, <2>2, <2>3, <2>4
<1> QED BY <1>2, <1>3

\* And so does the whole list, in the order of its ids.
LEMMA BroughtCopy ==
  ASSUME DepartmentsAssumption, DepartmentsInv, NEW list \in [SmartttIds -> NamesGiven]
  PROVE  Brought(list) \in Copies
<1> DEFINE base == [rows |-> department, staff |-> lecturer]
           step == [x \in SmartttIds \X Copies |-> BroughtIn(x[2], x[1], list[x[1]])]
           pick == [s \in SUBSET SmartttIds |-> Max(s)]
           Rec(h) == h = [s \in SUBSET SmartttIds |->
                            IF s = {} THEN base ELSE BroughtIn(h[s \ {Max(s)}], Max(s), list[Max(s)])]
<1>1. base \in Copies
  BY CopyOf DEF DepartmentsInv, DepartmentsTypeOK
<1>2. step \in [SmartttIds \X Copies -> Copies]
  BY BroughtInCopy
<1>3. Picks(pick, SmartttIds) /\ \A s \in SUBSET SmartttIds : s # {} => pick[s] \in s
  BY MaxIsThere, FS_Subset DEF DepartmentsAssumption, Picks
<1>4. PICK h \in [SUBSET SmartttIds -> Copies] : Loops(h, SmartttIds, base, step, pick)
  <2>1. IsFiniteSet(SmartttIds)
    BY DEF DepartmentsAssumption
  <2> HIDE DEF base, step, pick
  <2> QED BY ONLY <1>1, <1>2, <1>3, <2>1, LoopExists
<1>5. ASSUME NEW s \in SUBSET SmartttIds
      PROVE  h[s] = IF s = {} THEN base ELSE BroughtIn(h[s \ {Max(s)}], Max(s), list[Max(s)])
  <2>1. CASE s # {}
    <3>1. Max(s) \in SmartttIds /\ s \ {Max(s)} \in SUBSET SmartttIds /\ pick[s] = Max(s)
      BY <1>3, <2>1
    <3>2. step[<<Max(s), h[s \ {Max(s)}]>>] = BroughtIn(h[s \ {Max(s)}], Max(s), list[Max(s)])
      BY <3>1
    <3> HIDE DEF step, base, pick
    <3> QED BY <1>4, <2>1, <3>1, <3>2 DEF Loops
  <2> HIDE DEF step, base, pick
  <2> QED BY <1>4, <2>1 DEF Loops
<1>6. Rec(h)
  <2>1. h = [s \in SUBSET SmartttIds |-> h[s]]
    OBVIOUS
  <2> HIDE DEF base, step, pick
  <2> QED BY <1>5, <2>1
<1> DEFINE chosen == CHOOSE g : Rec(g)
<1>7. Rec(chosen)
  <2> HIDE DEF Rec
  <2> QED BY <1>6
<1>8. Brought(list) = chosen[SmartttIds]
  BY DEF Brought, MapThenFoldSet
<1> HIDE DEF chosen
<1>9. chosen[{}] = base /\ \A s \in SUBSET SmartttIds :
        s # {} => chosen[s] = BroughtIn(chosen[s \ {Max(s)}], Max(s), list[Max(s)])
  <2> HIDE DEF base
  <2> QED BY <1>7
<1>10. \A s \in SUBSET SmartttIds : s # {} /\ chosen[s \ {pick[s]}] \in Copies =>
         chosen[s] = step[<<pick[s], chosen[s \ {pick[s]}]>>]
  <2> SUFFICES ASSUME NEW s \in SUBSET SmartttIds, s # {}, chosen[s \ {pick[s]}] \in Copies
               PROVE  chosen[s] = step[<<pick[s], chosen[s \ {pick[s]}]>>]
    OBVIOUS
  <2>1. pick[s] = Max(s) /\ pick[s] \in SmartttIds
    BY <1>3
  <2>2. step[<<pick[s], chosen[s \ {pick[s]}]>>] = BroughtIn(chosen[s \ {pick[s]}], pick[s], list[pick[s]])
    BY <2>1
  <2> HIDE DEF pick, step
  <2> QED BY <1>9, <2>1, <2>2
<1>11. chosen[SmartttIds] \in Copies
  <2>1. IsFiniteSet(SmartttIds)
    BY DEF DepartmentsAssumption
  <2>2. StepsWithin(chosen, SmartttIds, Copies, step, pick)
    BY <1>1, <1>9, <1>10 DEF StepsWithin
  <2> HIDE DEF base, step, pick
  <2> QED BY ONLY <1>2, <1>3, <2>1, <2>2, LoopStays
<1> QED BY <1>8, <1>11

-----------------------------------------------------------------------------
\* A request reads what it sends and what it writes.
LEMMA RequestTyped ==
  ASSUME DepartmentsAssumption, DepartmentsInv
  PROVE  /\ NoCall \in CallRows
         /\ \A r \in Callers : handling[r] \in CallRows /\ CallSound(handling[r])
         /\ \A d \in DepartmentIds : department[d] \in DepartmentRows
         /\ \A l \in Staff : lecturer[l] \in StaffRows
         /\ \A d \in There(department) : d \in DepartmentIds /\ department[d].name \in Spellings
<1>1. NoCall \in CallRows
  BY DEF NoCall, CallRows, Doings, NamesGiven
<1> QED BY <1>1 DEF DepartmentsInv, DepartmentsTypeOK, NamedIn, There

\* A step that changes one request only, or the rows as well.
LEMMA RequestGoesOn ==
  ASSUME DepartmentsAssumption, DepartmentsInv, NEW r \in Callers, NEW new \in CallRows, CallSound(new),
         handling' = [handling EXCEPT ![r] = new]
  PROVE  handling' \in [Callers -> CallRows] /\ \A q \in Callers : CallSound(handling'[q])
BY RequestTyped DEF DepartmentsInv, DepartmentsTypeOK

LEMMA RequestEnds ==
  ASSUME DepartmentsAssumption, DepartmentsInv, NEW r \in Callers, Ended(r)
  PROVE  handling' \in [Callers -> CallRows] /\ \A q \in Callers : CallSound(handling'[q])
<1>1. CallSound(NoCall)
  BY DEF CallSound, NoCall
<1> HIDE DEF DepartmentsInv
<1> QED BY <1>1, RequestTyped, RequestGoesOn DEF Ended

LEMMA DepartmentsInitInv == ASSUME DepartmentsAssumption, DepartmentsInit PROVE DepartmentsInv
<1>1. listed \in [SmartttIds -> NamesGiven]
  BY DEF DepartmentsInit, DepartmentsAssumption, NamesGiven
<1>2. PICK names \in FirstNames :
         department = [d \in DepartmentIds |->
                         IF d <= Len(names) THEN [there |-> TRUE, name |-> names[d], link |-> Nowhere] ELSE NoDepartmentRow]
  BY DEF DepartmentsInit
<1>3. names \in Seq(Spellings)
  BY DEF DepartmentsAssumption
<1>4. ASSUME NEW d \in DepartmentIds
      PROVE  department[d] \in DepartmentRows /\ (department[d].there => department[d].name \in Spellings)
  <2>1. CASE d <= Len(names)
    <3>1. names[d] \in Spellings
      BY <1>3, <2>1 DEF DepartmentIds
    <3>2. department[d] = [there |-> TRUE, name |-> names[d], link |-> Nowhere]
      BY <1>2, <2>1
    <3> QED BY <3>1, <3>2 DEF DepartmentRows, NamesGiven
  <2>2. CASE ~(d <= Len(names))
    BY <1>2, <2>2 DEF DepartmentRows, NoDepartmentRow, NamesGiven
  <2> QED BY <2>1, <2>2
<1>5. department \in [DepartmentIds -> DepartmentRows]
  BY <1>2, <1>4
<1>6. lecturer \in [Staff -> StaffRows]
  BY DEF DepartmentsInit, StaffRows, NamesGiven
<1>7. NoCall \in CallRows /\ CallSound(NoCall)
  BY DEF NoCall, CallRows, Doings, NamesGiven, CallSound
<1>8. handling \in [Callers -> CallRows] /\ \A r \in Callers : handling[r] = NoCall
  BY <1>7 DEF DepartmentsInit
<1>9. alias \in [Keys -> DepartmentIds \cup {Nowhere}]
  BY DEF DepartmentsInit
<1> QED BY <1>1, <1>4, <1>5, <1>6, <1>7, <1>8, <1>9 DEF DepartmentsInv, DepartmentsTypeOK, NamedIn

\* Steps that leave the departments and everybody's placement alone.
ElsewhereStep ==
  \/ \E i \in SmartttIds : SmartttChanges(i)
  \/ \E l \in Staff : UnitIsAdded(l)
  \/ \E r \in Callers : RequestArrives(r) \/ Asked(r)
  \/ \E k \in Keys : ForgetSpelling(k)

LEMMA RequestArrivesSound ==
  ASSUME DepartmentsAssumption, DepartmentsInv, NEW r \in Callers, RequestArrives(r)
  PROVE  /\ handling' \in [Callers -> CallRows] /\ \A q \in Callers : CallSound(handling'[q])
         /\ UNCHANGED <<listed, department, alias, lecturer>>
<1>0. listed \in [SmartttIds -> NamesGiven]
  BY DEF DepartmentsInv, DepartmentsTypeOK
<1>1. ASSUME NEW new \in CallRows, CallSound(new), Begin(r, new)
      PROVE  /\ handling' \in [Callers -> CallRows] /\ \A q \in Callers : CallSound(handling'[q])
             /\ UNCHANGED <<listed, department, alias, lecturer>>
  BY <1>1, RequestGoesOn DEF Begin
<1>2. NoCall \in CallRows
  BY RequestTyped
<1>3. CASE Begin(r, [NoCall EXCEPT !.does = "sync", !.list = listed])
  <2> DEFINE new == [NoCall EXCEPT !.does = "sync", !.list = listed]
  <2>1. new \in CallRows /\ CallSound(new)
    BY <1>0, <1>2 DEF CallRows, Doings, CallSound, NoCall
  <2> HIDE DEF new
  <2>2. Begin(r, new)
    BY <1>3 DEF new
  <2> QED BY <1>1, <2>1, <2>2
<1>4. ASSUME NEW s \in Spellings, Begin(r, [NoCall EXCEPT !.does = "create", !.name = s])
      PROVE  \E new \in CallRows : CallSound(new) /\ Begin(r, new)
  <2> DEFINE new == [NoCall EXCEPT !.does = "create", !.name = s]
  <2>1. new \in CallRows /\ CallSound(new)
    BY <1>2 DEF CallRows, Doings, CallSound, NoCall, NamesGiven
  <2> HIDE DEF new
  <2> QED BY <1>4, <2>1 DEF new
<1>5. ASSUME NEW d \in There(department), NEW s \in Spellings,
             Begin(r, [NoCall EXCEPT !.does = "edit", !.one = d, !.other = department[d].link, !.name = s])
      PROVE  \E new \in CallRows : CallSound(new) /\ Begin(r, new)
  <2> DEFINE new == [NoCall EXCEPT !.does = "edit", !.one = d, !.other = department[d].link, !.name = s]
  <2>0. d \in DepartmentIds /\ department[d].link \in SmartttIds \cup {Nowhere}
    BY RequestTyped DEF DepartmentRows
  <2>1. new \in CallRows /\ CallSound(new)
    BY <1>2, <2>0 DEF CallRows, Doings, CallSound, NoCall, NamesGiven
  <2> HIDE DEF new
  <2> QED BY <1>5, <2>1 DEF new
<1>6. ASSUME NEW d \in There(department), Begin(r, [NoCall EXCEPT !.does = "send", !.one = d, !.name = department[d].name])
      PROVE  \E new \in CallRows : CallSound(new) /\ Begin(r, new)
  <2> DEFINE new == [NoCall EXCEPT !.does = "send", !.one = d, !.name = department[d].name]
  <2>0. d \in DepartmentIds /\ department[d].name \in Spellings
    BY RequestTyped
  <2>1. new \in CallRows /\ CallSound(new)
    BY <1>2, <2>0 DEF CallRows, Doings, CallSound, NoCall, NamesGiven
  <2> HIDE DEF new
  <2> QED BY <1>6, <2>1 DEF new
<1>7. ASSUME NEW l \in Staff, NEW d \in There(department),
             Begin(r, [NoCall EXCEPT !.does = IF Waiting(lecturer[l]) THEN "place" ELSE "move",
                                     !.one = l, !.other = d, !.name = lecturer[l].spelling])
      PROVE  \E new \in CallRows : CallSound(new) /\ Begin(r, new)
  <2> DEFINE what == IF Waiting(lecturer[l]) THEN "place" ELSE "move"
             new == [NoCall EXCEPT !.does = what, !.one = l, !.other = d, !.name = lecturer[l].spelling]
  <2>0. d \in DepartmentIds /\ lecturer[l].spelling \in NamesGiven
    BY RequestTyped DEF StaffRows
  <2>a. what \in {"place", "move"}
    OBVIOUS
  <2>b. Begin(r, new)
    BY <1>7
  <2> HIDE DEF what
  <2>1. new \in CallRows /\ CallSound(new)
    BY <1>2, <2>0, <2>a DEF CallRows, Doings, CallSound, NoCall, NamesGiven
  <2> HIDE DEF new
  <2> QED BY <2>1, <2>b
<1>8. ASSUME NEW d \in There(department), NEW e \in There(department), d # e,
             Begin(r, [NoCall EXCEPT !.does = "merge", !.one = d, !.other = e])
      PROVE  \E new \in CallRows : CallSound(new) /\ Begin(r, new)
  <2> DEFINE new == [NoCall EXCEPT !.does = "merge", !.one = d, !.other = e]
  <2>0. d \in DepartmentIds /\ e \in DepartmentIds /\ d # e
    BY <1>8, RequestTyped
  <2>1. new \in CallRows /\ CallSound(new)
    BY <1>2, <2>0 DEF CallRows, Doings, CallSound, NoCall, NamesGiven
  <2> HIDE DEF new
  <2> QED BY <1>8, <2>1 DEF new
<1> QED BY <1>1, <1>3, <1>4, <1>5, <1>6, <1>7, <1>8 DEF RequestArrives

LEMMA AskedSound ==
  ASSUME DepartmentsAssumption, DepartmentsInv, NEW r \in Callers, Asked(r)
  PROVE  /\ handling' \in [Callers -> CallRows] /\ \A q \in Callers : CallSound(handling'[q])
         /\ listed' \in [SmartttIds -> NamesGiven]
         /\ UNCHANGED <<department, alias, lecturer>>
<1> DEFINE c == handling[r]
           holder == {i \in SmartttIds : listed[i] = c.name}
<1>0. listed \in [SmartttIds -> NamesGiven] /\ UNCHANGED <<department, alias, lecturer>>
  BY DEF DepartmentsInv, DepartmentsTypeOK, Asked
<1>1. c \in CallRows /\ CallSound(c) /\ NoCall \in CallRows
  BY RequestTyped
<1>2. c.name \in NamesGiven
  BY <1>1 DEF CallRows
<1>3. \A i \in SmartttIds : [listed EXCEPT ![i] = c.name] \in [SmartttIds -> NamesGiven]
  BY <1>0, <1>2
<1>4. ASSUME NEW i \in SmartttIds, c.does = "create"
      PROVE  /\ [c EXCEPT !.does = "insert", !.other = i] \in CallRows
             /\ CallSound([c EXCEPT !.does = "insert", !.other = i])
  BY <1>1, <1>4 DEF CallRows, Doings, CallSound
<1>4a. ASSUME NEW i \in SmartttIds, c.does = "send"
       PROVE  /\ [c EXCEPT !.does = "link", !.other = i] \in CallRows
              /\ CallSound([c EXCEPT !.does = "link", !.other = i])
  BY <1>1, <1>4a DEF CallRows, Doings, CallSound
<1>5. ASSUME c.does = "edit"
      PROVE  [c EXCEPT !.does = "rename"] \in CallRows /\ CallSound([c EXCEPT !.does = "rename"])
  BY <1>1, <1>5 DEF CallRows, Doings, CallSound
<1>6. /\ [NoCall EXCEPT !.does = "sync", !.list = listed] \in CallRows
      /\ CallSound([NoCall EXCEPT !.does = "sync", !.list = listed])
  BY <1>0, <1>1 DEF CallRows, Doings, CallSound, NoCall
<1>7. handling \in [Callers -> CallRows]
  BY DEF DepartmentsInv, DepartmentsTypeOK
<1> HIDE DEF holder
<1>8. CASE /\ c.does = "create" /\ holder = {}
           /\ \E i \in SmartttIds :
                /\ listed[i] = Nowhere
                /\ listed' = [listed EXCEPT ![i] = c.name]
                /\ handling' = [handling EXCEPT ![r].does = "insert", ![r].other = i]
  <2>1. PICK i \in SmartttIds : /\ listed' = [listed EXCEPT ![i] = c.name]
                                /\ handling' = [handling EXCEPT ![r].does = "insert", ![r].other = i]
    BY <1>8
  <2> DEFINE new == [c EXCEPT !.does = "insert", !.other = i]
  <2>2. handling' = [handling EXCEPT ![r] = new]
    BY <1>7, <2>1
  <2>3. new \in CallRows /\ CallSound(new)
    BY <1>4, <1>8
  <2> HIDE DEF new
  <2> QED BY <1>0, <1>3, <2>1, <2>2, <2>3, RequestGoesOn
<1>9. CASE /\ handling' = [handling EXCEPT ![r] = [NoCall EXCEPT !.does = "sync", !.list = listed]]
           /\ UNCHANGED listed
  <2> DEFINE new == [NoCall EXCEPT !.does = "sync", !.list = listed]
  <2>1. handling' = [handling EXCEPT ![r] = new] /\ new \in CallRows /\ CallSound(new)
    BY <1>6, <1>9
  <2> HIDE DEF new
  <2> QED BY <1>0, <1>9, <2>1, RequestGoesOn
<1>10. ASSUME c.does = "send", NEW i \in SmartttIds,
              handling' = [handling EXCEPT ![r].does = "link", ![r].other = i],
              UNCHANGED listed \/ listed' = [listed EXCEPT ![i] = c.name]
       PROVE  /\ handling' \in [Callers -> CallRows] /\ \A q \in Callers : CallSound(handling'[q])
              /\ listed' \in [SmartttIds -> NamesGiven]
  <2> DEFINE new == [c EXCEPT !.does = "link", !.other = i]
  <2>2. handling' = [handling EXCEPT ![r] = new]
    BY <1>7, <1>10
  <2>3. new \in CallRows /\ CallSound(new)
    BY <1>4a, <1>10
  <2>4. listed' \in [SmartttIds -> NamesGiven]
    BY <1>0, <1>3, <1>10
  <2> HIDE DEF new
  <2> QED BY <2>2, <2>3, <2>4, RequestGoesOn
<1>11. ASSUME c.does = "edit", handling' = [handling EXCEPT ![r].does = "rename"]
       PROVE  handling' \in [Callers -> CallRows] /\ \A q \in Callers : CallSound(handling'[q])
  <2> DEFINE new == [c EXCEPT !.does = "rename"]
  <2>2. handling' = [handling EXCEPT ![r] = new]
    BY <1>7, <1>11
  <2>3. new \in CallRows /\ CallSound(new)
    BY <1>5, <1>11
  <2> HIDE DEF new
  <2> QED BY <2>2, <2>3, RequestGoesOn
<1>12. CASE /\ c.does = "send" /\ holder # {}
            /\ handling' = [handling EXCEPT ![r].does = "link", ![r].other = CHOOSE i \in holder : TRUE]
            /\ UNCHANGED listed
  <2>1. (CHOOSE i \in holder : TRUE) \in SmartttIds
    BY <1>12 DEF holder
  <2> QED BY <1>0, <1>10, <1>12, <2>1
<1>13. CASE /\ c.does = "send" /\ holder = {}
            /\ \E i \in SmartttIds :
                 /\ listed[i] = Nowhere
                 /\ listed' = [listed EXCEPT ![i] = c.name]
                 /\ handling' = [handling EXCEPT ![r].does = "link", ![r].other = i]
  BY <1>0, <1>10, <1>13
<1>14. CASE /\ c.does = "edit" /\ c.other # Nowhere /\ listed[c.other] # Nowhere /\ holder \subseteq {c.other}
            /\ listed' = [listed EXCEPT ![c.other] = c.name]
            /\ handling' = [handling EXCEPT ![r].does = "rename"]
  <2>1. c.other \in SmartttIds
    BY <1>1, <1>14 DEF CallSound
  <2> QED BY <1>0, <1>3, <1>11, <1>14, <2>1
<1>15. CASE /\ c.does = "edit" /\ c.other = Nowhere
            /\ handling' = [handling EXCEPT ![r].does = "rename"]
            /\ UNCHANGED listed
  BY <1>0, <1>11, <1>15
<1>16. CASE c.does \in {"create", "send", "edit"} /\ Ended(r) /\ UNCHANGED listed
  BY <1>0, <1>16, RequestEnds
<1> QED BY <1>8, <1>9, <1>12, <1>13, <1>14, <1>15, <1>16 DEF Asked, holder

LEMMA ElsewhereSound ==
  ASSUME DepartmentsAssumption, DepartmentsInv, ElsewhereStep
  PROVE  DepartmentsInv' /\ UNCHANGED <<department, lecturer>>
<1>0. /\ listed \in [SmartttIds -> NamesGiven]
      /\ alias \in [Keys -> DepartmentIds \cup {Nowhere}]
      /\ handling \in [Callers -> CallRows] /\ \A r \in Callers : CallSound(handling[r])
  BY DEF DepartmentsInv, DepartmentsTypeOK
<1>1. /\ UNCHANGED <<department, lecturer>>
      /\ listed' \in [SmartttIds -> NamesGiven]
      /\ alias' \in [Keys -> DepartmentIds \cup {Nowhere}]
      /\ handling' \in [Callers -> CallRows] /\ \A r \in Callers : CallSound(handling'[r])
  <2>1. ASSUME NEW i \in SmartttIds, SmartttChanges(i) PROVE <1>1!:
    BY <1>0, <2>1 DEF SmartttChanges, NamesGiven
  <2>2. ASSUME NEW l \in Staff, UnitIsAdded(l) PROVE <1>1!:
    BY <1>0, <2>2 DEF UnitIsAdded
  <2>3. ASSUME NEW k \in Keys, ForgetSpelling(k) PROVE <1>1!:
    BY <1>0, <2>3 DEF ForgetSpelling
  <2>4. ASSUME NEW r \in Callers, RequestArrives(r) PROVE <1>1!:
    BY <1>0, <2>4, RequestArrivesSound
  <2>5. ASSUME NEW r \in Callers, Asked(r) PROVE <1>1!:
    BY <1>0, <2>5, AskedSound
  <2> QED BY <2>1, <2>2, <2>3, <2>4, <2>5 DEF ElsewhereStep
<1> QED BY <1>1 DEF DepartmentsInv, DepartmentsTypeOK, NamedIn

LEMMA CopyWritten ==
  ASSUME DepartmentsAssumption, DepartmentsInv, NEW r \in Callers, Ended(r), UNCHANGED listed,
         NEW copy \in Copies, department' = copy.rows, lecturer' = copy.staff, UNCHANGED alias
  PROVE  DepartmentsInv' /\ DepartmentsStay /\ PlacedStay
<1>1. handling' \in [Callers -> CallRows] /\ \A q \in Callers : CallSound(handling'[q])
  BY RequestEnds
<1>2. /\ department' \in [DepartmentIds -> DepartmentRows] /\ NamedIn(department') /\ DepartmentsStay
      /\ lecturer' \in [Staff -> StaffRows] /\ PlacedStay
  BY CopyHas DEF DepartmentsStay, PlacedStay
<1>3. listed' \in [SmartttIds -> NamesGiven] /\ alias' \in [Keys -> DepartmentIds \cup {Nowhere}]
  BY DEF DepartmentsInv, DepartmentsTypeOK
<1> QED BY <1>1, <1>2, <1>3 DEF DepartmentsInv, DepartmentsTypeOK, NamedIn

\* Rows that keep every department and every placement are such a copy.
LEMMA SyncSound ==
  ASSUME DepartmentsAssumption, DepartmentsInv, NEW r \in Callers, Sync(r)
  PROVE  DepartmentsInv' /\ DepartmentsStay /\ PlacedStay
<1>1. handling[r].list \in [SmartttIds -> NamesGiven]
  BY RequestTyped DEF CallRows
<1>2. Brought(handling[r].list) \in Copies
  BY <1>1, BroughtCopy
<1>3. /\ department' = Brought(handling[r].list).rows /\ lecturer' = Brought(handling[r].list).staff
      /\ Ended(r) /\ UNCHANGED <<listed, alias>>
  BY DEF Sync, Place
<1> QED BY <1>2, <1>3, CopyWritten

LEMMA InsertSound ==
  ASSUME DepartmentsAssumption, DepartmentsInv, NEW r \in Callers, Insert(r)
  PROVE  DepartmentsInv' /\ DepartmentsStay /\ PlacedStay
<1> DEFINE c == handling[r]
           same == NamedSo(department, c.name)
           base == [rows |-> department, staff |-> lecturer]
           copy == Inserted(base, c.name, c.other)
<1>0. Ended(r) /\ UNCHANGED <<listed, alias>> /\ c.name \in Spellings /\ c.other \in SmartttIds
  <2>1. c.does = "insert"
    BY DEF Insert
  <2> QED BY <2>1, RequestTyped DEF Insert, CallSound
<1>1. /\ department \in [DepartmentIds -> DepartmentRows] /\ NamedIn(department)
      /\ lecturer \in [Staff -> StaffRows]
  BY DEF DepartmentsInv, DepartmentsTypeOK
<1>2. base \in Copies
  BY <1>1, CopyOf
<1>3. CASE UNCHANGED <<department, lecturer>>
  BY <1>0, <1>2, <1>3, CopyWritten
<1>4. CASE department' = copy.rows /\ lecturer' = copy.staff
  <2>1. copy \in Copies
    BY <1>0, <1>2, InsertedCopy
  <2> HIDE DEF copy
  <2> QED BY <1>0, <1>4, <2>1, CopyWritten
<1>5. CASE department' = Linked(department, same, c.other) /\ UNCHANGED lecturer
  <2> DEFINE new == [rows |-> Linked(department, same, c.other), staff |-> lecturer]
  <2>1. new \in Copies
    BY <1>0, <1>1, LinkedRows, CopyOf
  <2>2. new.rows = Linked(department, same, c.other) /\ new.staff = lecturer
    OBVIOUS
  <2> HIDE DEF new
  <2> QED BY <1>0, <1>5, <2>1, <2>2, CopyWritten
<1> HIDE DEF c, same, copy, base
<1> QED BY <1>3, <1>4, <1>5 DEF Insert, Place, c, same, copy, base

LEMMA CorrectSound ==
  ASSUME DepartmentsAssumption, DepartmentsInv, NEW r \in Callers, Correct(r)
  PROVE  DepartmentsInv' /\ DepartmentsStay /\ PlacedStay
<1> DEFINE c == handling[r]
           new == IF c.does = "rename" THEN [department[c.one] EXCEPT !.name = c.name]
                  ELSE [department[c.one] EXCEPT !.link = c.other]
<1>0. Ended(r) /\ UNCHANGED <<listed, alias, lecturer>> /\ c.does \in {"rename", "link"}
  BY DEF Correct
<1>1. /\ c.one \in DepartmentIds /\ (c.does = "rename" => c.name \in Spellings)
      /\ (c.does = "link" => c.other \in SmartttIds)
  BY <1>0, RequestTyped DEF CallSound
<1>2. /\ department \in [DepartmentIds -> DepartmentRows] /\ NamedIn(department)
      /\ lecturer \in [Staff -> StaffRows]
  BY DEF DepartmentsInv, DepartmentsTypeOK
<1>3. department[c.one] \in DepartmentRows
  BY <1>1, <1>2
<1>4. ASSUME department[c.one].there
      PROVE  new \in DepartmentRows /\ new.there /\ new.name \in Spellings
  <2>1. department[c.one].name \in Spellings
    BY <1>1, <1>2, <1>4 DEF NamedIn
  <2>2. CASE c.does = "rename"
    <3>1. new = [department[c.one] EXCEPT !.name = c.name] /\ c.name \in Spellings
      BY <1>1, <2>2
    <3> HIDE DEF new, c
    <3> QED BY <1>3, <1>4, <3>1 DEF DepartmentRows, NamesGiven
  <2>3. CASE c.does = "link"
    <3>1. new = [department[c.one] EXCEPT !.link = c.other] /\ c.other \in SmartttIds
      BY <1>1, <2>3
    <3> HIDE DEF new, c
    <3> QED BY <1>3, <1>4, <2>1, <3>1 DEF DepartmentRows
  <2> QED BY <1>0, <2>2, <2>3
<1>5. department' = department \/ (department[c.one].there /\ department' = [department EXCEPT ![c.one] = new])
  BY DEF Correct
<1> HIDE DEF new, c
<1> DEFINE copy == [rows |-> department', staff |-> lecturer']
<1>6. CASE department' = department
  <2>1. copy \in Copies
    BY <1>0, <1>2, <1>6, CopyOf
  <2>2. department' = copy.rows /\ lecturer' = copy.staff
    OBVIOUS
  <2> HIDE DEF copy
  <2> QED BY <1>0, <2>1, <2>2, CopyWritten
<1>7. CASE department[c.one].there /\ department' = [department EXCEPT ![c.one] = new]
  <2>1. /\ department' \in [DepartmentIds -> DepartmentRows]
        /\ \A d \in DepartmentIds : department'[d] = IF d = c.one THEN new ELSE department[d]
    BY <1>1, <1>2, <1>4, <1>7
  <2>2. NamedIn(department') /\ There(department) \subseteq There(department')
    BY <1>2, <1>4, <1>7, <2>1 DEF NamedIn, There
  <2>3. copy \in Copies
    BY <1>0, <1>2, <2>1, <2>2, CopyOf
  <2>4. department' = copy.rows /\ lecturer' = copy.staff
    OBVIOUS
  <2> HIDE DEF copy
  <2> QED BY <1>0, <2>3, <2>4, CopyWritten
<1> QED BY <1>5, <1>6, <1>7

LEMMA SignsInSound ==
  ASSUME DepartmentsAssumption, DepartmentsInv, NEW l \in Staff, LecturerSignsIn(l)
  PROVE  DepartmentsInv' /\ DepartmentsStay /\ PlacedStay
<1>1. PICK s \in Spellings :
        lecturer' = [lecturer EXCEPT ![l] = [spelling |-> s,
           department |-> IF Waiting(lecturer[l]) THEN Meaning(s) ELSE lecturer[l].department]]
  BY DEF LecturerSignsIn, Place
<1> DEFINE here == IF Waiting(lecturer[l]) THEN Meaning(s) ELSE lecturer[l].department
<1>2. lecturer \in [Staff -> StaffRows] /\ UNCHANGED <<listed, department, alias, handling>>
  BY DEF DepartmentsInv, DepartmentsTypeOK, LecturerSignsIn
<1>3. here \in DepartmentIds \cup {Nowhere} /\ (lecturer[l].department # Nowhere => here = lecturer[l].department)
  BY <1>2, MeaningType DEF StaffRows, NamesGiven, Waiting
<1>4. lecturer' = [lecturer EXCEPT ![l] = [spelling |-> s, department |-> here]]
  BY <1>1
<1> HIDE DEF here
<1>5. [spelling |-> s, department |-> here] \in StaffRows
  BY <1>3 DEF StaffRows, NamesGiven
<1>6. lecturer' \in [Staff -> StaffRows] /\ PlacedStay
  BY <1>2, <1>3, <1>4, <1>5 DEF PlacedStay
<1> QED BY <1>2, <1>6 DEF DepartmentsInv, DepartmentsTypeOK, NamedIn, DepartmentsStay

\* Nobody's department changes but by the request that moves them.
LEMMA MoveSound ==
  ASSUME DepartmentsAssumption, DepartmentsInv, NEW r \in Callers, Move(r)
  PROVE  /\ DepartmentsInv' /\ DepartmentsStay
         /\ handling[r].does \in {"place", "move"}
         /\ \A l \in Staff : lecturer[l].department # Nowhere /\ lecturer'[l].department # lecturer[l].department =>
              handling[r].one = l /\ handling[r].other = lecturer'[l].department
<1> DEFINE c == handling[r]
           moved == [lecturer EXCEPT ![c.one].department = c.other]
           taught == [alias EXCEPT ![KeyOf[c.name]] = c.other]
<1>0. Ended(r) /\ UNCHANGED <<listed, department>> /\ c.does \in {"place", "move"}
  BY DEF Move
<1>1. c.other \in DepartmentIds /\ c.name \in NamesGiven
  BY <1>0, RequestTyped DEF CallSound, CallRows
<1>2. /\ lecturer \in [Staff -> StaffRows] /\ alias \in [Keys -> DepartmentIds \cup {Nowhere}]
  BY DEF DepartmentsInv, DepartmentsTypeOK
<1>3. /\ moved \in [Staff -> StaffRows]
      /\ \A l \in Staff : moved[l].department = IF l = c.one THEN c.other ELSE lecturer[l].department
  <2>1. \A l \in Staff : lecturer[l] \in StaffRows
    BY <1>2
  <2>2. ASSUME NEW l \in Staff
        PROVE  [lecturer[l] EXCEPT !.department = c.other] \in StaffRows
               /\ [lecturer[l] EXCEPT !.department = c.other].department = c.other
    BY <1>1, <2>1 DEF StaffRows
  <2> QED BY <1>2, <2>1, <2>2
<1>4. taught \in [Keys -> DepartmentIds \cup {Nowhere}]
  BY <1>1, <1>2
<1>5. Nowhere \notin DepartmentIds
  BY DEF DepartmentsAssumption
<1>6. \/ UNCHANGED <<alias, lecturer>>
      \/ alias' = taught /\ lecturer' = PlacedIn(c.other, department, taught, moved)
      \/ lecturer' = moved /\ UNCHANGED alias
  BY DEF Move, Place
<1> HIDE DEF c, moved, taught
<1>7. /\ alias' \in [Keys -> DepartmentIds \cup {Nowhere}]
      /\ lecturer' \in [Staff -> StaffRows]
      /\ lecturer' = lecturer \/ \A l \in Staff : moved[l].department # Nowhere => lecturer'[l] = moved[l]
  <2>1. CASE UNCHANGED <<alias, lecturer>>
    BY <1>2, <2>1
  <2>2. CASE alias' = taught /\ lecturer' = PlacedIn(c.other, department, taught, moved)
    BY <1>1, <1>3, <1>4, <2>2, PlacedInType
  <2>3. CASE lecturer' = moved /\ UNCHANGED alias
    BY <1>2, <1>3, <2>3
  <2> QED BY <1>6, <2>1, <2>2, <2>3
<1>8. \A l \in Staff : lecturer[l].department # Nowhere /\ lecturer'[l].department # lecturer[l].department =>
         c.one = l /\ c.other = lecturer'[l].department
  BY <1>1, <1>3, <1>5, <1>7
<1>9. handling' \in [Callers -> CallRows] /\ \A q \in Callers : CallSound(handling'[q])
  BY <1>0, RequestEnds
<1>10. DepartmentsInv' /\ DepartmentsStay
  BY <1>0, <1>7, <1>9 DEF DepartmentsInv, DepartmentsTypeOK, NamedIn, DepartmentsStay
<1> QED BY <1>0, <1>8, <1>10 DEF c

LEMMA MergeSound ==
  ASSUME DepartmentsAssumption, DepartmentsInv, NEW r \in Callers, Merge(r)
  PROVE  /\ DepartmentsInv'
         /\ handling[r].does = "merge"
         /\ \A l \in Staff : lecturer'[l].department =
              IF lecturer'[l].department # lecturer[l].department THEN handling[r].other ELSE lecturer[l].department
         /\ \A l \in Staff : lecturer'[l].department # lecturer[l].department => lecturer[l].department = handling[r].one
<1> DEFINE dup == handling[r].one
           keep == handling[r].other
<1>0. Ended(r) /\ UNCHANGED listed /\ handling[r].does = "merge"
  BY DEF Merge
<1>1. dup \in DepartmentIds /\ keep \in DepartmentIds
  BY <1>0, RequestTyped DEF CallSound
<1>2. /\ lecturer \in [Staff -> StaffRows] /\ alias \in [Keys -> DepartmentIds \cup {Nowhere}]
      /\ department \in [DepartmentIds -> DepartmentRows] /\ NamedIn(department)
  BY DEF DepartmentsInv, DepartmentsTypeOK
<1>3. handling' \in [Callers -> CallRows] /\ \A q \in Callers : CallSound(handling'[q])
  BY <1>0, RequestEnds
<1>4. CASE UNCHANGED <<lecturer, alias, department>>
  BY <1>0, <1>2, <1>3, <1>4 DEF DepartmentsInv, DepartmentsTypeOK, NamedIn
<1>5. CASE /\ lecturer' = [l \in Staff |-> IF lecturer[l].department = dup THEN [lecturer[l] EXCEPT !.department = keep] ELSE lecturer[l]]
           /\ alias' = MergedAliases(dup, keep)
           /\ department' = [department EXCEPT ![dup].there = FALSE, ![dup].link = Nowhere]
  <2>1. ASSUME NEW l \in Staff
        PROVE  [lecturer[l] EXCEPT !.department = keep] \in StaffRows
               /\ [lecturer[l] EXCEPT !.department = keep].department = keep
    BY <1>1, <1>2 DEF StaffRows
  <2>2. \A l \in Staff : /\ lecturer'[l] \in StaffRows
                         /\ lecturer'[l].department = IF lecturer[l].department = dup THEN keep ELSE lecturer[l].department
    BY <1>2, <1>5, <2>1
  <2>3. lecturer' \in [Staff -> StaffRows]
    BY <1>5, <2>2
  <2>4. alias' \in [Keys -> DepartmentIds \cup {Nowhere}]
    BY <1>1, <1>2, <1>5 DEF MergedAliases
  <2> DEFINE new == [department[dup] EXCEPT !.there = FALSE, !.link = Nowhere]
  <2>5. department' = [department EXCEPT ![dup] = new]
    BY <1>1, <1>2, <1>5
  <2>6. new \in DepartmentRows /\ ~new.there
    BY <1>1, <1>2 DEF DepartmentRows
  <2> HIDE DEF new, dup, keep
  <2>7. department' \in [DepartmentIds -> DepartmentRows] /\ NamedIn(department')
    BY <1>1, <1>2, <2>5, <2>6 DEF NamedIn
  <2>8. DepartmentsInv'
    BY <1>0, <1>2, <1>3, <2>3, <2>4, <2>7 DEF DepartmentsInv, DepartmentsTypeOK, NamedIn
  <2> QED BY <1>0, <2>2, <2>8 DEF dup, keep
<1> QED BY <1>4, <1>5 DEF Merge

LEMMA DepartmentsInductive ==
  ASSUME DepartmentsAssumption, DepartmentsInv, [DepartmentsNext]_departmentsVars
  PROVE  DepartmentsInv' /\ PlacementStandsStep
<1>1. CASE ElsewhereStep
  BY <1>1, ElsewhereSound DEF PlacementStandsStep
<1>2. ASSUME DepartmentsInv', PlacedStay PROVE DepartmentsInv' /\ PlacementStandsStep
  BY <1>2 DEF PlacedStay, PlacementStandsStep
<1>3. ASSUME NEW l \in Staff, LecturerSignsIn(l) PROVE DepartmentsInv' /\ PlacedStay
  BY <1>3, SignsInSound
<1>4. ASSUME NEW r \in Callers, Sync(r) \/ Insert(r) \/ Correct(r) PROVE DepartmentsInv' /\ PlacedStay
  BY <1>4, SyncSound, InsertSound, CorrectSound
<1>5. ASSUME NEW r \in Callers, Move(r) PROVE DepartmentsInv' /\ PlacementStandsStep
  BY <1>5, MoveSound DEF PlacementStandsStep
<1>6. ASSUME NEW r \in Callers, Merge(r) PROVE DepartmentsInv' /\ PlacementStandsStep
  BY <1>6, MergeSound DEF PlacementStandsStep
<1>7. ASSUME UNCHANGED departmentsVars PROVE DepartmentsInv' /\ PlacedStay
  BY <1>7 DEF departmentsVars, DepartmentsInv, DepartmentsTypeOK, NamedIn, CallSound, PlacedStay, There
<1> QED BY <1>1, <1>2, <1>3, <1>4, <1>5, <1>6, <1>7 DEF DepartmentsNext, ElsewhereStep

-----------------------------------------------------------------------------
\* What a merge does to the spellings of the department merged away.
LEMMA MergedSpellings ==
  ASSUME DepartmentsAssumption, DepartmentsInv, NEW r \in Callers, Merge(r),
         NEW d \in There(department) \ There(department'), NEW s \in Spellings, Meaning(s) = d
  PROVE  handling[r].one = d /\ Meaning(s)' \in {handling[r].other} \cup (SameKey(department, s) \ {d})
<1> DEFINE keep == handling[r].other
<1>0. handling[r].one \in DepartmentIds /\ keep \in DepartmentIds /\ keep # handling[r].one
  <2>1. handling[r].does = "merge"
    BY DEF Merge
  <2> QED BY <2>1, RequestTyped DEF CallSound
<1>1. /\ {handling[r].one, keep} \subseteq There(department)
      /\ alias' = MergedAliases(handling[r].one, keep)
      /\ department' = [department EXCEPT ![handling[r].one].there = FALSE, ![handling[r].one].link = Nowhere]
  BY DEF Merge
<1>2. /\ department \in [DepartmentIds -> DepartmentRows] /\ NamedIn(department)
      /\ alias \in [Keys -> DepartmentIds \cup {Nowhere}] /\ NamedIn(department')
  BY MergeSound DEF DepartmentsInv, DepartmentsTypeOK
<1>3. /\ \A e \in DepartmentIds : e # handling[r].one => department'[e] = department[e]
      /\ ~department'[handling[r].one].there
  BY <1>0, <1>1, <1>2 DEF DepartmentRows
<1>4. handling[r].one = d /\ There(department') = There(department) \ {d}
  BY <1>0, <1>3 DEF There
<1>5. SameKey(department', s) = SameKey(department, s) \ {d}
  BY <1>3, <1>4 DEF SameKey, There
<1>6. s # Nowhere /\ Nowhere \notin DepartmentIds /\ d \in DepartmentIds
  BY DEF DepartmentsAssumption, There
<1>7. Meaning(s)' = IF SameKey(department', s) = {} THEN alias'[KeyOf[s]]
                    ELSE CHOOSE e \in SameKey(department', s) : \A f \in SameKey(department', s) : department'[e].name <= department'[f].name
  BY <1>6 DEF Meaning, MeaningIn
<1>8. CASE SameKey(department', s) # {}
  <2>1. Meaning(s)' \in SameKey(department', s)
    BY <1>2, <1>7, <1>8, FirstByName
  <2> QED BY <1>4, <1>5, <2>1
<1>9. CASE SameKey(department', s) = {}
  <2>1. KeyOf[s] \in Keys
    BY DEF Keys
  <2>2. alias[KeyOf[s]] = d \/ (KeyOf[s] = KeyOf[department[d].name] /\ KeyOf[s] # KeyOf[department[keep].name])
    <3>1. CASE SameKey(department, s) = {}
      BY <1>6, <3>1 DEF Meaning, MeaningIn
    <3>2. CASE SameKey(department, s) # {}
      <4>1. d \in SameKey(department, s)
        BY <1>2, <1>6, <3>2, FirstByName DEF Meaning, MeaningIn
      <4>2. KeyOf[s] = KeyOf[department[d].name]
        BY <4>1 DEF SameKey
      <4>3. keep \notin SameKey(department, s)
        BY <1>0, <1>4, <1>5, <1>9
      <4>4. KeyOf[s] # KeyOf[department[keep].name]
        BY <1>1, <4>3 DEF SameKey
      <4> QED BY <4>2, <4>4
    <3> QED BY <3>1, <3>2
  <2>3. alias'[KeyOf[s]] = keep
    BY <1>1, <1>4, <2>1, <2>2 DEF MergedAliases
  <2> QED BY <1>4, <1>7, <1>9, <2>3
<1> QED BY <1>8, <1>9

LEMMA MergedSpellingsStep ==
  ASSUME DepartmentsAssumption, DepartmentsInv, [DepartmentsNext]_departmentsVars
  PROVE  MergedSpellingsFollowStep
<1>1. CASE ElsewhereStep
  BY <1>1, ElsewhereSound DEF MergedSpellingsFollowStep, There
<1>2. ASSUME DepartmentsStay PROVE MergedSpellingsFollowStep
  BY <1>2 DEF DepartmentsStay, MergedSpellingsFollowStep
<1>3. ASSUME NEW l \in Staff, LecturerSignsIn(l) PROVE DepartmentsStay
  BY <1>3, SignsInSound
<1>4. ASSUME NEW r \in Callers, Sync(r) \/ Insert(r) \/ Correct(r) \/ Move(r) PROVE DepartmentsStay
  BY <1>4, SyncSound, InsertSound, CorrectSound, MoveSound
<1>5. ASSUME NEW r \in Callers, Merge(r) PROVE MergedSpellingsFollowStep
  BY <1>5, MergedSpellings DEF MergedSpellingsFollowStep
<1>6. ASSUME UNCHANGED departmentsVars PROVE DepartmentsStay
  BY <1>6 DEF departmentsVars, DepartmentsStay, There
<1> QED BY <1>1, <1>2, <1>3, <1>4, <1>5, <1>6 DEF DepartmentsNext, ElsewhereStep

-----------------------------------------------------------------------------
(* Teaching lists.  A department writes only what is its own or nobody's,   *)
(* so what another has published stays as it was published.                 *)

Divided == UNION {[cs -> Nat] : cs \in SUBSET Courses}
GroupRows == [lecturer : Lecturers \cup {NoLecturer}, members : Divided]
Groupings == UNION {[ls -> GroupRows] : ls \in SUBSET (Labels \cup {Whole})}
UnitRecords == [dept : Departments \cup {NoDepartment}, courses : SUBSET Courses, groups : Groupings]
CourseRecords == [dept : Departments \cup {NoDepartment}, students : Nat]
LecturerRecords == [there : BOOLEAN, staff : BOOLEAN, active : BOOLEAN]
Terms == [course : [Courses -> CourseRecords], unit : [Units -> UnitRecords], lecturer : [Lecturers -> LecturerRecords]]
Listings == [Departments -> [standing : BOOLEAN, number : Nat]]

\* What department d sees of its own is the same in both.
SameFor(d, t, new) ==
  /\ \A u \in Units : /\ new.unit[u].dept = d <=> t.unit[u].dept = d
                      /\ t.unit[u].dept = d => new.unit[u] = t.unit[u]
  /\ \A c \in Courses : /\ new.course[c].dept = d <=> t.course[c].dept = d
                        /\ t.course[c].dept = d => new.course[c] = t.course[c]

\* What a department may write, and the other departments do not see.
WrittenBy(d, t) == {new \in Terms : \A e \in Departments \ {d} : SameFor(e, t, new)}
SeenByNobody(t) == {new \in Terms : \A e \in Departments : SameFor(e, t, new)}

\* A department's list has nothing to put right that a later write of another could undo.
Complete(t, d) ==
  /\ OwnUnits(t, d) # {}
  /\ \A u \in OwnUnits(t, d) :
       /\ NoLecturer \notin NamedFor(t, u)
       /\ \A c \in t.unit[u].courses :
            /\ Having(t.unit[u].groups, c) # {}
            /\ t.course[c].dept = d =>
                 PlacedOf(t.unit[u].groups, c, t.course[c].students) = t.course[c].students

\* Table n of the import says of department d what the term says.
TableAgrees(n, x, t, d) ==
  /\ n = 1 => \A c \in OwnCourses(t, d) : x[c] = t.course[c].students
  /\ n = 2 => {u \in Units : x[u] = d} = OwnUnits(t, d)
  /\ n = 3 => \A u \in OwnUnits(t, d) : x[u] = t.unit[u].courses
  /\ n = 4 => \A u \in OwnUnits(t, d) : x[u] = [l \in DOMAIN t.unit[u].groups |-> t.unit[u].groups[l].lecturer]
  /\ n = 5 => \A u \in OwnUnits(t, d) : x[u] = [l \in DOMAIN t.unit[u].groups |-> t.unit[u].groups[l].members]
  /\ n = 6 => \A u \in OwnUnits(t, d) : NamedFor(t, u) \ {NoLecturer} \subseteq x

TablesAgree(tables, t, d) == \A n \in 1 .. Len(tables) : TableAgrees(n, tables[n], t, d)

\* The department published once more since the first read, or what was read of it stands.
ReadAsPublished(then, tables, t, list) ==
  \A d \in Departments :
    /\ then[d].number <= list[d].number
    /\ then[d].standing /\ list[d] = then[d] => TablesAgree(tables, t, d)

TableValues == {TableOf(t, n) : t \in Terms, n \in 1 .. 6}

Reading ==
  /\ director = [meanwhile |-> director.meanwhile, then |-> director.then,
                 tables |-> director.tables, list |-> director.list]
  /\ director.tables \in Seq(TableValues)
  /\ director.then = Unread => director.tables = <<>>

TeachingInv ==
  /\ term \in Terms
  /\ listing \in Listings
  /\ Reading
  /\ \A d \in Departments : listing[d].standing => Complete(term, d)
  /\ director.then # Unread => /\ director.then[1] \in Listings
                               /\ ReadAsPublished(director.then[1], director.tables, term, listing)

-----------------------------------------------------------------------------
(* Rows of the term, one changed at a time.                                 *)

LEMMA UnitChanged ==
  ASSUME NEW t \in Terms, NEW u \in Units, NEW row \in UnitRecords
  PROVE  /\ [t EXCEPT !.unit[u] = row] \in Terms
         /\ [t EXCEPT !.unit[u] = row].course = t.course
         /\ [t EXCEPT !.unit[u] = row].lecturer = t.lecturer
         /\ \A v \in Units : [t EXCEPT !.unit[u] = row].unit[v] = IF v = u THEN row ELSE t.unit[v]
<1>1. t.unit \in [Units -> UnitRecords]
  BY DEF Terms
<1>2. [t.unit EXCEPT ![u] = row] \in [Units -> UnitRecords]
  BY <1>1
<1>3. [t EXCEPT !.unit[u] = row] = [t EXCEPT !.unit = [t.unit EXCEPT ![u] = row]]
  BY DEF Terms
<1> DEFINE f == [t.unit EXCEPT ![u] = row]
<1>4. \A v \in Units : f[v] = IF v = u THEN row ELSE t.unit[v]
  BY <1>1
<1>5. /\ [t EXCEPT !.unit = f] \in Terms /\ [t EXCEPT !.unit = f].course = t.course
      /\ [t EXCEPT !.unit = f].lecturer = t.lecturer /\ [t EXCEPT !.unit = f].unit = f
  <2>1. f \in [Units -> UnitRecords]
    BY <1>2
  <2> HIDE DEF f
  <2> QED BY <2>1 DEF Terms
<1> HIDE DEF f
<1> QED BY <1>3, <1>4, <1>5 DEF f

LEMMA CourseChanged ==
  ASSUME NEW t \in Terms, NEW c \in Courses, NEW row \in CourseRecords
  PROVE  /\ [t EXCEPT !.course[c] = row] \in Terms
         /\ [t EXCEPT !.course[c] = row].unit = t.unit
         /\ \A b \in Courses : [t EXCEPT !.course[c] = row].course[b] = IF b = c THEN row ELSE t.course[b]
<1>1. t.course \in [Courses -> CourseRecords]
  BY DEF Terms
<1>3. [t EXCEPT !.course[c] = row] = [t EXCEPT !.course = [t.course EXCEPT ![c] = row]]
  BY DEF Terms
<1> DEFINE f == [t.course EXCEPT ![c] = row]
<1>4. \A b \in Courses : f[b] = IF b = c THEN row ELSE t.course[b]
  BY <1>1
<1>5. /\ [t EXCEPT !.course = f] \in Terms /\ [t EXCEPT !.course = f].unit = t.unit
      /\ [t EXCEPT !.course = f].course = f
  <2>1. f \in [Courses -> CourseRecords]
    BY <1>1
  <2> HIDE DEF f
  <2> QED BY <2>1 DEF Terms
<1> HIDE DEF f
<1> QED BY <1>3, <1>4, <1>5 DEF f

LEMMA LecturerChanged ==
  ASSUME NEW t \in Terms, NEW k \in Lecturers, NEW row \in LecturerRecords
  PROVE  /\ [t EXCEPT !.lecturer[k] = row] \in Terms
         /\ [t EXCEPT !.lecturer[k] = row].unit = t.unit
         /\ [t EXCEPT !.lecturer[k] = row].course = t.course
<1>1. t.lecturer \in [Lecturers -> LecturerRecords]
  BY DEF Terms
<1>3. [t EXCEPT !.lecturer[k] = row] = [t EXCEPT !.lecturer = [t.lecturer EXCEPT ![k] = row]]
  BY DEF Terms
<1> DEFINE f == [t.lecturer EXCEPT ![k] = row]
<1>5. /\ [t EXCEPT !.lecturer = f] \in Terms /\ [t EXCEPT !.lecturer = f].unit = t.unit
      /\ [t EXCEPT !.lecturer = f].course = t.course
  <2>1. f \in [Lecturers -> LecturerRecords]
    BY <1>1
  <2> HIDE DEF f
  <2> QED BY <2>1 DEF Terms
<1> HIDE DEF f
<1> QED BY <1>3, <1>5 DEF f

LEMMA TermHas ==
  ASSUME NEW t \in Terms
  PROVE  /\ \A u \in Units : /\ t.unit[u] \in UnitRecords /\ t.unit[u].dept \in Departments \cup {NoDepartment}
                             /\ t.unit[u].courses \in SUBSET Courses /\ t.unit[u].groups \in Groupings
         /\ \A c \in Courses : /\ t.course[c] \in CourseRecords /\ t.course[c].dept \in Departments \cup {NoDepartment}
                               /\ t.course[c].students \in Nat
         /\ \A k \in Lecturers : t.lecturer[k] \in LecturerRecords
BY DEF Terms, UnitRecords, CourseRecords

\* A write of d's own row, or of nobody's, that leaves it d's or nobody's.
LEMMA UnitWritten ==
  ASSUME TeachingAssumption, NEW d \in Departments, NEW t \in Terms, NEW u \in Units, NEW row \in UnitRecords,
         t.unit[u].dept \in {d, NoDepartment}, row.dept \in {d, NoDepartment}
  PROVE  [t EXCEPT !.unit[u] = row] \in WrittenBy(d, t)
<1> DEFINE new == [t EXCEPT !.unit[u] = row]
<1>1. /\ new \in Terms /\ new.course = t.course
      /\ \A v \in Units : new.unit[v] = IF v = u THEN row ELSE t.unit[v]
  BY UnitChanged
<1> HIDE DEF new
<1>2. \A e \in Departments : e # NoDepartment
  BY DEF TeachingAssumption
<1>3. \A e \in Departments \ {d} : SameFor(e, t, new)
  BY <1>1, <1>2 DEF SameFor
<1> QED BY <1>1, <1>3 DEF WrittenBy, new

LEMMA CourseWritten ==
  ASSUME TeachingAssumption, NEW d \in Departments, NEW t \in Terms, NEW c \in Courses, NEW row \in CourseRecords,
         t.course[c].dept \in {d, NoDepartment}, row.dept \in {d, NoDepartment}
  PROVE  [t EXCEPT !.course[c] = row] \in WrittenBy(d, t)
<1> DEFINE new == [t EXCEPT !.course[c] = row]
<1>1. /\ new \in Terms /\ new.unit = t.unit
      /\ \A b \in Courses : new.course[b] = IF b = c THEN row ELSE t.course[b]
  BY CourseChanged
<1> HIDE DEF new
<1>2. \A e \in Departments : e # NoDepartment
  BY DEF TeachingAssumption
<1>3. \A e \in Departments \ {d} : SameFor(e, t, new)
  BY <1>1, <1>2 DEF SameFor
<1> QED BY <1>1, <1>3 DEF WrittenBy, new

LEMMA LecturerWritten ==
  ASSUME NEW t \in Terms, NEW k \in Lecturers, NEW row \in LecturerRecords
  PROVE  [t EXCEPT !.lecturer[k] = row] \in SeenByNobody(t)
<1> DEFINE new == [t EXCEPT !.lecturer[k] = row]
<1>1. new \in Terms /\ new.course = t.course /\ new.unit = t.unit
  BY LecturerChanged
<1> HIDE DEF new
<1>2. \A e \in Departments : SameFor(e, t, new)
  BY <1>1 DEF SameFor
<1> QED BY <1>1, <1>2 DEF SeenByNobody, new

LEMMA WrittenOn ==
  ASSUME NEW d, NEW t, NEW now \in WrittenBy(d, t), NEW new \in WrittenBy(d, now)
  PROVE  new \in WrittenBy(d, t)
BY DEF WrittenBy, SameFor

LEMMA SeenOn ==
  ASSUME NEW t, NEW now \in SeenByNobody(t), NEW new \in SeenByNobody(now)
  PROVE  new \in SeenByNobody(t)
BY DEF SeenByNobody, SameFor

LEMMA Unwritten ==
  ASSUME NEW d, NEW t \in Terms
  PROVE  t \in WrittenBy(d, t) /\ t \in SeenByNobody(t) /\ SeenByNobody(t) \subseteq WrittenBy(d, t)
BY DEF WrittenBy, SeenByNobody, SameFor

-----------------------------------------------------------------------------
(* The writes.                                                              *)

LEMMA CourseWrites ==
  ASSUME TeachingAssumption, NEW d \in Departments, NEW t \in Terms, NEW c \in Courses
  PROVE  /\ \A n \in Nat : CanSaveCourse(t, d, c) => SaveCourse(t, d, c, n) \in WrittenBy(d, t)
         /\ CanDeleteCourse(t, d, c) => DeleteCourse(t, c) \in WrittenBy(d, t)
<1>1. \A n \in Nat : [dept |-> d, students |-> n] \in CourseRecords /\ [dept |-> NoDepartment, students |-> 0] \in CourseRecords
  BY DEF CourseRecords
<1>2. ASSUME NEW n \in Nat, CanSaveCourse(t, d, c) PROVE SaveCourse(t, d, c, n) \in WrittenBy(d, t)
  <2> DEFINE row == [dept |-> d, students |-> n]
  <2>1. row \in CourseRecords /\ row.dept \in {d, NoDepartment}
    BY <1>1
  <2>2. t.course[c].dept \in {d, NoDepartment}
    BY <1>2 DEF CanSaveCourse
  <2>3. SaveCourse(t, d, c, n) = [t EXCEPT !.course[c] = row]
    BY DEF SaveCourse
  <2> HIDE DEF row
  <2> QED BY <2>1, <2>2, <2>3, CourseWritten
<1>3. ASSUME CanDeleteCourse(t, d, c) PROVE DeleteCourse(t, c) \in WrittenBy(d, t)
  <2> DEFINE row == [dept |-> NoDepartment, students |-> 0]
  <2>1. row \in CourseRecords /\ row.dept \in {d, NoDepartment}
    BY <1>1
  <2>2. t.course[c].dept \in {d, NoDepartment}
    BY <1>3 DEF CanDeleteCourse
  <2>3. DeleteCourse(t, c) = [t EXCEPT !.course[c] = row]
    BY DEF DeleteCourse
  <2> HIDE DEF row
  <2> QED BY <2>1, <2>2, <2>3, CourseWritten
<1> QED BY <1>2, <1>3

LEMMA GroupingIs ==
  ASSUME NEW ls \in SUBSET (Labels \cup {Whole}), NEW row(_), \A l \in ls : row(l) \in GroupRows
  PROVE  [l \in ls |-> row(l)] \in Groupings
BY DEF Groupings

LEMMA GroupingHas ==
  ASSUME NEW groups \in Groupings
  PROVE  /\ DOMAIN groups \in SUBSET (Labels \cup {Whole})
         /\ \A l \in DOMAIN groups : /\ groups[l] \in GroupRows
                                     /\ groups[l].lecturer \in Lecturers \cup {NoLecturer}
                                     /\ groups[l].members \in Divided
BY DEF Groupings, GroupRows

LEMMA GroupIs ==
  ASSUME NEW k \in Lecturers \cup {NoLecturer}, NEW members \in Divided
  PROVE  Group(k, members) \in GroupRows
BY DEF Group, GroupRows

LEMMA SharesHas ==
  ASSUME NEW f \in Divided
  PROVE  DOMAIN f \in SUBSET Courses /\ (\A c \in DOMAIN f : f[c] \in Nat) /\ f = [c \in DOMAIN f |-> f[c]]
BY DEF Divided

LEMMA WholeClassIs ==
  ASSUME NEW courses \in SUBSET Courses
  PROVE  WholeClass(courses) \in Groupings
<1> DEFINE all == [c \in courses |-> 0]
           row == Group(NoLecturer, all)
<1>1. all \in Divided
  BY DEF Divided
<1>2. row \in GroupRows
  <2> HIDE DEF all
  <2> QED BY <1>1, GroupIs
<1> HIDE DEF row
<1>3. WholeClass(courses) = [l \in {Whole} |-> row]
  BY DEF WholeClass, row
<1>4. [l \in {Whole} |-> row] \in [{Whole} -> GroupRows] /\ {Whole} \in SUBSET (Labels \cup {Whole})
  BY <1>2
<1> QED BY <1>3, <1>4 DEF Groupings

LEMMA PrunedIs ==
  ASSUME NEW entry \in UnitRecords, NEW courses \in SUBSET Courses
  PROVE  Pruned(entry, courses) \in Groupings
<1> DEFINE kept(g) == Restrict(g.members, DOMAIN g.members \cap courses)
           gained(g) == [c \in courses |-> IF c \in DOMAIN g.members THEN g.members[c] ELSE 0]
           members(l) == IF DOMAIN entry.groups = {Whole} THEN gained(entry.groups[l]) ELSE kept(entry.groups[l])
           row(l) == Group(entry.groups[l].lecturer, members(l))
<1>1. entry.groups \in Groupings
  BY DEF UnitRecords
<1>2. ASSUME NEW l \in DOMAIN entry.groups PROVE row(l) \in GroupRows
  <2> DEFINE g == entry.groups[l]
  <2>1. g.lecturer \in Lecturers \cup {NoLecturer} /\ g.members \in Divided
    BY <1>1, GroupingHas
  <2> HIDE DEF g
  <2>2. kept(g) \in Divided
    <3>1. /\ DOMAIN g.members \cap courses \in SUBSET Courses
          /\ \A c \in DOMAIN g.members \cap courses : g.members[c] \in Nat
      BY <2>1, SharesHas
    <3>2. [c \in DOMAIN g.members \cap courses |-> g.members[c]] \in [DOMAIN g.members \cap courses -> Nat]
      BY <3>1
    <3> QED BY <3>1, <3>2 DEF Divided, Restrict
  <2>3. gained(g) \in Divided
    <3>1. \A c \in courses : (IF c \in DOMAIN g.members THEN g.members[c] ELSE 0) \in Nat
      BY <2>1, SharesHas
    <3>2. gained(g) \in [courses -> Nat]
      BY <3>1
    <3> HIDE DEF gained
    <3> QED BY <3>2 DEF Divided
  <2>4. members(l) \in Divided
    BY <2>2, <2>3 DEF g
  <2> HIDE DEF members
  <2> QED BY <2>1, <2>4, GroupIs DEF g
<1>3. Pruned(entry, courses) = [l \in DOMAIN entry.groups |-> row(l)]
  BY DEF Pruned
<1> HIDE DEF row
<1>4. [l \in DOMAIN entry.groups |-> row(l)] \in [DOMAIN entry.groups -> GroupRows]
  BY <1>2
<1>5. DOMAIN entry.groups \in SUBSET (Labels \cup {Whole})
  BY <1>1, GroupingHas
<1> QED BY <1>3, <1>4, <1>5 DEF Groupings

LEMMA UnitWrites ==
  ASSUME TeachingAssumption, NEW d \in Departments, NEW t \in Terms, NEW u \in Units
  PROVE  /\ \A cs \in SUBSET Courses : CanCreateUnit(t, u, cs) => CreateUnit(t, d, u, cs) \in WrittenBy(d, t)
         /\ \A cs \in SUBSET Courses : CanUpdateUnit(t, d, u, cs) => UpdateUnit(t, u, cs) \in WrittenBy(d, t)
         /\ CanDeleteUnit(t, d, u) => DeleteUnit(t, u) \in WrittenBy(d, t)
<1>1. ASSUME NEW cs \in SUBSET Courses, CanCreateUnit(t, u, cs) PROVE CreateUnit(t, d, u, cs) \in WrittenBy(d, t)
  <2> DEFINE row == [dept |-> d, courses |-> cs, groups |-> WholeClass(cs)]
  <2>1. row \in UnitRecords /\ row.dept \in {d, NoDepartment}
    BY WholeClassIs DEF UnitRecords
  <2>2. t.unit[u].dept \in {d, NoDepartment}
    BY <1>1 DEF CanCreateUnit
  <2>3. CreateUnit(t, d, u, cs) = [t EXCEPT !.unit[u] = row]
    BY DEF CreateUnit
  <2> HIDE DEF row
  <2> QED BY <2>1, <2>2, <2>3, UnitWritten
<1>2. ASSUME NEW cs \in SUBSET Courses, CanUpdateUnit(t, d, u, cs) PROVE UpdateUnit(t, u, cs) \in WrittenBy(d, t)
  <2> DEFINE row == [dept |-> t.unit[u].dept, courses |-> cs, groups |-> Pruned(t.unit[u], cs)]
  <2>0. t.unit[u] \in UnitRecords /\ t.unit[u].dept = d
    BY <1>2, TermHas DEF CanUpdateUnit
  <2>1. row \in UnitRecords /\ row.dept \in {d, NoDepartment}
    BY <2>0, PrunedIs DEF UnitRecords
  <2>3. UpdateUnit(t, u, cs) = [t EXCEPT !.unit[u] = row]
    BY DEF UpdateUnit
  <2> HIDE DEF row
  <2> QED BY <2>0, <2>1, <2>3, UnitWritten
<1>3. ASSUME CanDeleteUnit(t, d, u) PROVE DeleteUnit(t, u) \in WrittenBy(d, t)
  <2>1. NoUnit \in UnitRecords /\ NoUnit.dept \in {d, NoDepartment}
    <3>1. <<>> \in [{} -> GroupRows]
      OBVIOUS
    <3>2. <<>> \in Groupings
      BY <3>1 DEF Groupings
    <3> QED BY <3>2 DEF UnitRecords, NoUnit
  <2>2. t.unit[u].dept \in {d, NoDepartment}
    BY <1>3 DEF CanDeleteUnit
  <2>3. DeleteUnit(t, u) = [t EXCEPT !.unit[u] = NoUnit]
    BY DEF DeleteUnit
  <2> QED BY <2>1, <2>2, <2>3, UnitWritten
<1> QED BY <1>1, <1>2, <1>3

LEMMA GroupsChanged ==
  ASSUME TeachingAssumption, NEW d \in Departments, NEW t \in Terms, NEW u \in Units, t.unit[u].dept = d,
         NEW groups \in Groupings
  PROVE  /\ [t EXCEPT !.unit[u].groups = groups] \in WrittenBy(d, t)
         /\ [t EXCEPT !.unit[u].groups = groups].unit[u].dept = d
<1> DEFINE row == [dept |-> t.unit[u].dept, courses |-> t.unit[u].courses, groups |-> groups]
<1>1. t.unit[u] \in UnitRecords
  BY TermHas
<1>2. row \in UnitRecords /\ row.dept = d /\ [t.unit[u] EXCEPT !.groups = groups] = row
  BY <1>1 DEF UnitRecords
<1> DEFINE new == [t EXCEPT !.unit[u] = row]
<1>3. [t EXCEPT !.unit[u].groups = groups] = new
  <2>1. [t EXCEPT !.unit[u].groups = groups] = [t EXCEPT !.unit[u] = [t.unit[u] EXCEPT !.groups = groups]]
    BY DEF Terms
  <2> QED BY <1>2, <2>1
<1> HIDE DEF row
<1>4. new \in WrittenBy(d, t) /\ new.unit[u] = row
  BY <1>2, UnitChanged, UnitWritten
<1> HIDE DEF new
<1> QED BY <1>2, <1>3, <1>4

\* A split names groups and gives each the shares of some courses.
Split(split) ==
  DOMAIN split \in SUBSET (Labels \cup {Whole}) /\ \A l \in DOMAIN split : split[l] \in Divided

LEMMA SplitsAre ==
  ASSUME TeachingAssumption, term \in Terms, NEW u \in Units, NEW split \in Splits(u)
  PROVE  Split(split)
<1> DEFINE Of == UNION {[cs -> 0 .. MaxStudents] : cs \in SUBSET term.unit[u].courses}
<1>1. Of \subseteq Divided
  <2> SUFFICES ASSUME NEW cs \in SUBSET term.unit[u].courses, NEW f \in [cs -> 0 .. MaxStudents] PROVE f \in Divided
    OBVIOUS
  <2>1. cs \in SUBSET Courses
    BY TermHas
  <2>2. f \in [cs -> Nat]
    OBVIOUS
  <2> QED BY <2>1, <2>2 DEF Divided
<1>a. Splits(u) = UNION {[ls -> Of] : ls \in {{Whole}} \cup SUBSET Labels}
  BY DEF Splits
<1> HIDE DEF Of
<1>2. PICK ls \in {{Whole}} \cup SUBSET Labels : split \in [ls -> Of]
  BY <1>a
<1>3. DOMAIN split = ls /\ ls \subseteq Labels \cup {Whole}
  BY <1>2
<1> QED BY <1>1, <1>2, <1>3 DEF Split

LEMMA GroupWrites ==
  ASSUME TeachingAssumption, NEW d \in Departments, NEW t \in Terms, NEW u \in Units, NEW split, Split(split)
  PROVE  /\ CanSetGroups(t, d, u, split) => /\ SetGroups(t, u, split) \in WrittenBy(d, t)
                                            /\ SetGroups(t, u, split).unit[u].dept = d
         /\ \A k \in Lecturers \cup {NoLecturer}, l \in DOMAIN t.unit[u].groups :
              CanUpdateGroup(t, d, u, l, k) => UpdateGroup(t, u, l, k) \in WrittenBy(d, t)
<1> DEFINE old == t.unit[u].groups
<1>0. old \in Groupings
  BY TermHas
<1>1. ASSUME CanSetGroups(t, d, u, split)
      PROVE  SetGroups(t, u, split) \in WrittenBy(d, t) /\ SetGroups(t, u, split).unit[u].dept = d
  <2> DEFINE row(l) == Group(IF l \in DOMAIN old THEN old[l].lecturer ELSE NoLecturer, split[l])
             groups == [l \in DOMAIN split |-> row(l)]
  <2> HIDE DEF old
  <2>1. ASSUME NEW l \in DOMAIN split PROVE row(l) \in GroupRows
    <3>1. (IF l \in DOMAIN old THEN old[l].lecturer ELSE NoLecturer) \in Lecturers \cup {NoLecturer} /\ split[l] \in Divided
      BY <1>0, GroupingHas DEF Split
    <3> QED BY <3>1, GroupIs
  <2>2. groups \in Groupings
    <3> HIDE DEF row
    <3>1. groups \in [DOMAIN split -> GroupRows]
      BY <2>1
    <3> HIDE DEF groups
    <3> QED BY <3>1 DEF Groupings, Split
  <2>3. SetGroups(t, u, split) = [t EXCEPT !.unit[u].groups = groups]
    BY DEF SetGroups, old
  <2> HIDE DEF groups
  <2> QED BY <1>1, <2>2, <2>3, GroupsChanged DEF CanSetGroups
<1>2. ASSUME NEW k \in Lecturers \cup {NoLecturer}, NEW l \in DOMAIN t.unit[u].groups, CanUpdateGroup(t, d, u, l, k)
      PROVE  UpdateGroup(t, u, l, k) \in WrittenBy(d, t)
  <2> DEFINE group == [old[l] EXCEPT !.lecturer = k]
             groups == [old EXCEPT ![l] = group]
  <2>1. group \in GroupRows
    <3>1. old[l] \in GroupRows
      BY <1>0, GroupingHas
    <3> HIDE DEF old
    <3> QED BY <3>1 DEF GroupRows
  <2>2. groups \in Groupings
    <3> HIDE DEF group, old
    <3> QED BY <1>0, <2>1 DEF Groupings
  <2>3. UpdateGroup(t, u, l, k) = [t EXCEPT !.unit[u].groups = groups]
    <3>1. \A g : [t EXCEPT !.unit[u].groups = g] = [t EXCEPT !.unit = [t.unit EXCEPT ![u] = [t.unit[u] EXCEPT !.groups = g]]]
      BY DEF Terms
    <3> QED BY <3>1 DEF UpdateGroup, Terms
  <2> HIDE DEF groups
  <2> QED BY <1>2, <2>2, <2>3, GroupsChanged DEF CanUpdateGroup
<1> QED BY <1>1, <1>2

LEMMA LecturerWrites ==
  ASSUME NEW t \in Terms, NEW k \in Lecturers
  PROVE  /\ \A staff, active \in BOOLEAN : SaveLecturer(t, k, staff, active) \in SeenByNobody(t)
         /\ DeleteLecturer(t, k) \in SeenByNobody(t)
         /\ \A d \in Departments : LecturerRow(t, d, k) \in SeenByNobody(t)
<1>1. \A there, staff, active \in BOOLEAN : [there |-> there, staff |-> staff, active |-> active] \in LecturerRecords
  BY DEF LecturerRecords
<1>2. ASSUME NEW there \in BOOLEAN, NEW staff \in BOOLEAN, NEW active \in BOOLEAN
      PROVE  [t EXCEPT !.lecturer[k] = [there |-> there, staff |-> staff, active |-> active]] \in SeenByNobody(t)
  <2> DEFINE row == [there |-> there, staff |-> staff, active |-> active]
  <2>1. row \in LecturerRecords
    BY <1>1
  <2> HIDE DEF row
  <2>2. [t EXCEPT !.lecturer[k] = row] \in SeenByNobody(t)
    BY <2>1, LecturerWritten
  <2> QED BY <2>2 DEF row
<1>3. \A staff, active \in BOOLEAN : SaveLecturer(t, k, staff, active) \in SeenByNobody(t)
  BY <1>2 DEF SaveLecturer
<1>4. DeleteLecturer(t, k) \in SeenByNobody(t)
  BY <1>2 DEF DeleteLecturer
<1>5. ASSUME NEW d \in Departments PROVE LecturerRow(t, d, k) \in SeenByNobody(t)
  <2> DEFINE active == t.lecturer[k].there => t.lecturer[k].active
  <2>1. active \in BOOLEAN
    OBVIOUS
  <2>2. LecturerRow(t, d, k) = IF CanSaveLecturer(t, d, k, TRUE) THEN SaveLecturer(t, k, TRUE, active) ELSE t
    BY DEF LecturerRow
  <2> HIDE DEF active
  <2> QED BY <1>3, <2>1, <2>2, Unwritten
<1> QED BY <1>3, <1>4, <1>5

LEMMA GroupsPasted ==
  ASSUME TeachingAssumption, NEW d \in Departments, NEW t \in Terms, NEW u \in Units, NEW split, Split(split),
         NEW k \in Lecturers
  PROVE  PasteGroups(t, d, u, split, k) \in WrittenBy(d, t)
<1> DEFINE added == IF t.lecturer[k].there THEN t ELSE SaveLecturer(t, k, CanSaveLecturer(t, d, k, TRUE), TRUE)
           set == SetGroups(added, u, split)
           groups == [l \in DOMAIN split |-> Group(k, split[l])]
<1>1. added \in WrittenBy(d, t) /\ added \in Terms
  <2>1. CanSaveLecturer(t, d, k, TRUE) \in BOOLEAN
    BY DEF CanSaveLecturer
  <2>2. SaveLecturer(t, k, CanSaveLecturer(t, d, k, TRUE), TRUE) \in SeenByNobody(t)
    BY <2>1, LecturerWrites
  <2> QED BY <2>2, Unwritten DEF WrittenBy
<1> HIDE DEF added
<1>2. ASSUME CanSetGroups(added, d, u, split)
      PROVE  set \in WrittenBy(d, added) /\ set \in Terms /\ set.unit[u].dept = d
  BY <1>1, <1>2, GroupWrites DEF WrittenBy
<1> HIDE DEF set
<1>3. groups \in Groupings
  <2>1. ASSUME NEW l \in DOMAIN split PROVE Group(k, split[l]) \in GroupRows
    BY GroupIs DEF Split
  <2>2. groups \in [DOMAIN split -> GroupRows]
    BY <2>1
  <2> HIDE DEF groups
  <2> QED BY <2>2 DEF Groupings, Split
<1>4. ASSUME CanSetGroups(added, d, u, split)
      PROVE  [set EXCEPT !.unit[u].groups = groups] \in WrittenBy(d, t)
  <2> HIDE DEF groups
  <2>1. [set EXCEPT !.unit[u].groups = groups] \in WrittenBy(d, set)
    BY <1>2, <1>3, <1>4, GroupsChanged
  <2> QED BY <1>1, <1>2, <1>4, <2>1, WrittenOn
<1>5. PasteGroups(t, d, u, split, k) =
        IF ListOf[k] = d /\ MayTeach(added, d, k) /\ CanSetGroups(added, d, u, split)
        THEN [set EXCEPT !.unit[u].groups = groups] ELSE t
  BY DEF PasteGroups, added, set
<1> HIDE DEF groups
<1> QED BY <1>4, <1>5, Unwritten

LEMMA CourseRowWritten ==
  ASSUME TeachingAssumption, NEW d \in Departments, NEW t \in Terms, NEW c \in Courses, NEW n \in Nat
  PROVE  CourseRow(t, d, <<c, n>>) \in WrittenBy(d, t)
<1>1. CourseRow(t, d, <<c, n>>) = IF CanSaveCourse(t, d, c) THEN SaveCourse(t, d, c, n) ELSE t
  BY DEF CourseRow
<1> QED BY <1>1, CourseWrites, Unwritten

LEMMA UnitRowWritten ==
  ASSUME TeachingAssumption, NEW d \in Departments, NEW t \in Terms, NEW u \in Units, NEW cs \in SUBSET Courses
  PROVE  UnitRow(t, d, <<u, cs>>) \in WrittenBy(d, t)
<1>1. UnitRow(t, d, <<u, cs>>) =
        IF CanUpdateUnit(t, d, u, cs) THEN UpdateUnit(t, u, cs)
        ELSE IF CanCreateUnit(t, u, cs) THEN CreateUnit(t, d, u, cs) ELSE t
  BY DEF UnitRow
<1> QED BY <1>1, UnitWrites, Unwritten

\* However many rows are pasted, the other departments see none of them.
LEMMA CoursesPasted ==
  ASSUME TeachingAssumption, NEW d \in Departments, NEW t \in Terms, NEW n \in Nat,
         NEW rows, DOMAIN rows = 1 .. n, \A i \in 1 .. n : \E c \in Courses, m \in Nat : rows[i] = <<c, m>>
  PROVE  PasteCourses(t, d, rows) \in WrittenBy(d, t)
<1> DEFINE A == WrittenBy(d, t)
           S == 1 .. n
           step == [x \in S \X A |-> CourseRow(x[2], d, rows[x[1]])]
           pick == [s \in SUBSET S |-> Max(s)]
           Rec(h) == h = [s \in SUBSET S |-> IF s = {} THEN t ELSE CourseRow(h[s \ {Max(s)}], d, rows[Max(s)])]
<1>1. t \in A /\ \A a \in A : a \in Terms
  BY Unwritten DEF WrittenBy
<1>2. ASSUME NEW i \in S, NEW a \in A PROVE CourseRow(a, d, rows[i]) \in A
  <2>1. PICK c \in Courses, m \in Nat : rows[i] = <<c, m>>
    OBVIOUS
  <2>2. CourseRow(a, d, rows[i]) \in WrittenBy(d, a)
    BY <1>1, <2>1, CourseRowWritten
  <2> QED BY <2>2, WrittenOn
<1>3. step \in [S \X A -> A]
  <2> HIDE DEF A
  <2> QED BY <1>2
<1>4. IsFiniteSet(S) /\ S \in SUBSET Nat
  BY FS_Interval
<1>5. Picks(pick, S) /\ \A s \in SUBSET S : s # {} => pick[s] \in s
  <2> HIDE DEF S
  <2> QED BY <1>4, MaxIsThere, FS_Subset DEF Picks
<1> HIDE DEF A, S
<1>6. PICK h \in [SUBSET S -> A] : Loops(h, S, t, step, pick)
  <2> HIDE DEF step, pick
  <2> QED BY ONLY <1>1, <1>3, <1>4, <1>5, LoopExists
<1>7. ASSUME NEW s \in SUBSET S, NEW g, s # {}, g[s \ {pick[s]}] \in A
      PROVE  step[<<pick[s], g[s \ {pick[s]}]>>] = CourseRow(g[s \ {Max(s)}], d, rows[Max(s)]) /\ pick[s] = Max(s)
  <2>1. pick[s] = Max(s) /\ pick[s] \in S
    BY <1>5, <1>7
  <2> HIDE DEF pick
  <2> QED BY <1>7, <2>1
<1>8. Rec(h)
  <2>1. ASSUME NEW s \in SUBSET S
        PROVE  h[s] = IF s = {} THEN t ELSE CourseRow(h[s \ {Max(s)}], d, rows[Max(s)])
    <3>1. s \ {pick[s]} \in SUBSET S
      OBVIOUS
    <3> HIDE DEF step, pick
    <3> QED BY <1>6, <1>7, <3>1 DEF Loops
  <2>2. h = [s \in SUBSET S |-> h[s]]
    OBVIOUS
  <2> HIDE DEF step, pick
  <2> QED BY <2>1, <2>2
<1> DEFINE chosen == CHOOSE g : Rec(g)
<1>9. Rec(chosen)
  <2> HIDE DEF Rec
  <2> QED BY <1>8
<1>10. PasteCourses(t, d, rows) = chosen[S]
  BY DEF PasteCourses, FoldLeft, MapThenFoldSet, S
<1> HIDE DEF chosen
<1>11. StepsWithin(chosen, S, A, step, pick)
  <2>1. chosen[{}] \in A
    BY <1>1, <1>9
  <2>2. ASSUME NEW s \in SUBSET S, s # {}, chosen[s \ {pick[s]}] \in A
        PROVE  chosen[s] = step[<<pick[s], chosen[s \ {pick[s]}]>>]
    <3>1. chosen[s] = CourseRow(chosen[s \ {Max(s)}], d, rows[Max(s)])
      BY <1>9, <2>2
    <3> HIDE DEF step, pick, Rec
    <3> QED BY <1>7, <2>2, <3>1
  <2> HIDE DEF step, pick, Rec
  <2> QED BY <2>1, <2>2 DEF StepsWithin
<1>12. chosen[S] \in A
  <2> HIDE DEF step, pick, Rec
  <2> QED BY ONLY <1>3, <1>4, <1>5, <1>11, LoopStays
<1> QED BY <1>10, <1>12 DEF A
LEMMA UnitsPasted ==
  ASSUME TeachingAssumption, NEW d \in Departments, NEW t \in Terms, NEW n \in Nat,
         NEW rows, DOMAIN rows = 1 .. n, \A i \in 1 .. n : \E u \in Units, cs \in SUBSET Courses : rows[i] = <<u, cs>>
  PROVE  PasteUnits(t, d, rows) \in WrittenBy(d, t)
<1> DEFINE A == WrittenBy(d, t)
           S == 1 .. n
           step == [x \in S \X A |-> UnitRow(x[2], d, rows[x[1]])]
           pick == [s \in SUBSET S |-> Max(s)]
           Rec(h) == h = [s \in SUBSET S |-> IF s = {} THEN t ELSE UnitRow(h[s \ {Max(s)}], d, rows[Max(s)])]
<1>1. t \in A /\ \A a \in A : a \in Terms
  BY Unwritten DEF WrittenBy
<1>2. ASSUME NEW i \in S, NEW a \in A PROVE UnitRow(a, d, rows[i]) \in A
  <2>1. PICK u \in Units, cs \in SUBSET Courses : rows[i] = <<u, cs>>
    OBVIOUS
  <2>2. UnitRow(a, d, rows[i]) \in WrittenBy(d, a)
    BY <1>1, <2>1, UnitRowWritten
  <2> QED BY <2>2, WrittenOn
<1>3. step \in [S \X A -> A]
  <2> HIDE DEF A
  <2> QED BY <1>2
<1>4. IsFiniteSet(S) /\ S \in SUBSET Nat
  BY FS_Interval
<1>5. Picks(pick, S) /\ \A s \in SUBSET S : s # {} => pick[s] \in s
  <2> HIDE DEF S
  <2> QED BY <1>4, MaxIsThere, FS_Subset DEF Picks
<1> HIDE DEF A, S
<1>6. PICK h \in [SUBSET S -> A] : Loops(h, S, t, step, pick)
  <2> HIDE DEF step, pick
  <2> QED BY ONLY <1>1, <1>3, <1>4, <1>5, LoopExists
<1>7. ASSUME NEW s \in SUBSET S, NEW g, s # {}, g[s \ {pick[s]}] \in A
      PROVE  step[<<pick[s], g[s \ {pick[s]}]>>] = UnitRow(g[s \ {Max(s)}], d, rows[Max(s)]) /\ pick[s] = Max(s)
  <2>1. pick[s] = Max(s) /\ pick[s] \in S
    BY <1>5, <1>7
  <2> HIDE DEF pick
  <2> QED BY <1>7, <2>1
<1>8. Rec(h)
  <2>1. ASSUME NEW s \in SUBSET S
        PROVE  h[s] = IF s = {} THEN t ELSE UnitRow(h[s \ {Max(s)}], d, rows[Max(s)])
    <3>1. s \ {pick[s]} \in SUBSET S
      OBVIOUS
    <3> HIDE DEF step, pick
    <3> QED BY <1>6, <1>7, <3>1 DEF Loops
  <2>2. h = [s \in SUBSET S |-> h[s]]
    OBVIOUS
  <2> HIDE DEF step, pick
  <2> QED BY <2>1, <2>2
<1> DEFINE chosen == CHOOSE g : Rec(g)
<1>9. Rec(chosen)
  <2> HIDE DEF Rec
  <2> QED BY <1>8
<1>10. PasteUnits(t, d, rows) = chosen[S]
  BY DEF PasteUnits, FoldLeft, MapThenFoldSet, S
<1> HIDE DEF chosen
<1>11. StepsWithin(chosen, S, A, step, pick)
  <2>1. chosen[{}] \in A
    BY <1>1, <1>9
  <2>2. ASSUME NEW s \in SUBSET S, s # {}, chosen[s \ {pick[s]}] \in A
        PROVE  chosen[s] = step[<<pick[s], chosen[s \ {pick[s]}]>>]
    <3>1. chosen[s] = UnitRow(chosen[s \ {Max(s)}], d, rows[Max(s)])
      BY <1>9, <2>2
    <3> HIDE DEF step, pick, Rec
    <3> QED BY <1>7, <2>2, <3>1
  <2> HIDE DEF step, pick, Rec
  <2> QED BY <2>1, <2>2 DEF StepsWithin
<1>12. chosen[S] \in A
  <2> HIDE DEF step, pick, Rec
  <2> QED BY ONLY <1>3, <1>4, <1>5, <1>11, LoopStays
<1> QED BY <1>10, <1>12 DEF A
LEMMA LecturersPasted ==
  ASSUME TeachingAssumption, NEW d \in Departments, NEW t \in Terms, NEW rows \in SUBSET Lecturers
  PROVE  PasteLecturers(t, d, rows) \in SeenByNobody(t)
<1> DEFINE TakenLast(s) == CHOOSE k \in s : TRUE
           A == SeenByNobody(t)
           S == rows
           step == [x \in S \X A |-> LecturerRow(x[2], d, x[1])]
           pick == [s \in SUBSET S |-> TakenLast(s)]
           Rec(h) == h = [s \in SUBSET S |-> IF s = {} THEN t ELSE LecturerRow(h[s \ {TakenLast(s)}], d, TakenLast(s))]
<1>1. t \in A /\ \A a \in A : a \in Terms
  BY Unwritten DEF SeenByNobody
<1>2. ASSUME NEW i \in S, NEW a \in A PROVE LecturerRow(a, d, i) \in A
  <2>1. LecturerRow(a, d, i) \in SeenByNobody(a)
    BY <1>1, LecturerWrites
  <2> QED BY <2>1, SeenOn
<1>3. step \in [S \X A -> A]
  <2> HIDE DEF A
  <2> QED BY <1>2
<1>4. IsFiniteSet(S)
  BY FS_Subset DEF TeachingAssumption
<1>5. Picks(pick, S) /\ \A s \in SUBSET S : s # {} => pick[s] \in s
  <2> HIDE DEF S
  <2> QED BY DEF Picks
<1> HIDE DEF A, S
<1>6. PICK h \in [SUBSET S -> A] : Loops(h, S, t, step, pick)
  <2> HIDE DEF step, pick
  <2> QED BY ONLY <1>1, <1>3, <1>4, <1>5, LoopExists
<1>7. ASSUME NEW s \in SUBSET S, NEW g, s # {}, g[s \ {pick[s]}] \in A
      PROVE  step[<<pick[s], g[s \ {pick[s]}]>>] = LecturerRow(g[s \ {TakenLast(s)}], d, TakenLast(s)) /\ pick[s] = TakenLast(s)
  <2>1. pick[s] = TakenLast(s) /\ pick[s] \in S
    BY <1>5, <1>7
  <2> HIDE DEF pick
  <2> QED BY <1>7, <2>1
<1>8. Rec(h)
  <2>1. ASSUME NEW s \in SUBSET S
        PROVE  h[s] = IF s = {} THEN t ELSE LecturerRow(h[s \ {TakenLast(s)}], d, TakenLast(s))
    <3>1. s \ {pick[s]} \in SUBSET S
      OBVIOUS
    <3> HIDE DEF step, pick
    <3> QED BY <1>6, <1>7, <3>1 DEF Loops
  <2>2. h = [s \in SUBSET S |-> h[s]]
    OBVIOUS
  <2> HIDE DEF step, pick
  <2> QED BY <2>1, <2>2
<1> DEFINE chosen == CHOOSE g : Rec(g)
<1>9. Rec(chosen)
  <2> HIDE DEF Rec
  <2> QED BY <1>8
<1>10. PasteLecturers(t, d, rows) = chosen[S]
  BY DEF PasteLecturers, FoldSet, MapThenFoldSet, S
<1> HIDE DEF chosen
<1>11. StepsWithin(chosen, S, A, step, pick)
  <2>1. chosen[{}] \in A
    BY <1>1, <1>9
  <2>2. ASSUME NEW s \in SUBSET S, s # {}, chosen[s \ {pick[s]}] \in A
        PROVE  chosen[s] = step[<<pick[s], chosen[s \ {pick[s]}]>>]
    <3>1. chosen[s] = LecturerRow(chosen[s \ {TakenLast(s)}], d, TakenLast(s))
      BY <1>9, <2>2
    <3> HIDE DEF step, pick, Rec
    <3> QED BY <1>7, <2>2, <3>1
  <2> HIDE DEF step, pick, Rec
  <2> QED BY <2>1, <2>2 DEF StepsWithin
<1>12. chosen[S] \in A
  <2> HIDE DEF step, pick, Rec
  <2> QED BY ONLY <1>3, <1>4, <1>5, <1>11, LoopStays
<1> QED BY <1>10, <1>12 DEF A
-----------------------------------------------------------------------------
(* What another department's write leaves as it was published.              *)

LEMMA SameOwn ==
  ASSUME NEW d, NEW t, NEW new, SameFor(d, t, new)
  PROVE  /\ OwnUnits(new, d) = OwnUnits(t, d)
         /\ \A u \in OwnUnits(t, d) : new.unit[u] = t.unit[u]
         /\ OwnCourses(new, d) = OwnCourses(t, d)
         /\ \A c \in OwnCourses(t, d) : new.course[c] = t.course[c]
BY DEF SameFor, OwnUnits, OwnCourses

LEMMA StillAgrees ==
  ASSUME NEW d, NEW t, NEW new, SameFor(d, t, new), NEW tables, TablesAgree(tables, t, d)
  PROVE  TablesAgree(tables, new, d)
<1>1. ASSUME NEW n, NEW x, TableAgrees(n, x, t, d) PROVE TableAgrees(n, x, new, d)
  <2>1. \A u \in OwnUnits(t, d) : NamedFor(new, u) = NamedFor(t, u)
    BY SameOwn DEF NamedFor
  <2>2. n = 1 => \A c \in OwnCourses(new, d) : x[c] = new.course[c].students
    BY <1>1, SameOwn DEF TableAgrees
  <2>3. n = 2 => {u \in Units : x[u] = d} = OwnUnits(new, d)
    BY <1>1, SameOwn DEF TableAgrees
  <2>4. n = 3 => \A u \in OwnUnits(new, d) : x[u] = new.unit[u].courses
    BY <1>1, SameOwn DEF TableAgrees
  <2>5. n = 4 => \A u \in OwnUnits(new, d) :
                   x[u] = [l \in DOMAIN new.unit[u].groups |-> new.unit[u].groups[l].lecturer]
    <3> SUFFICES ASSUME n = 4, NEW u \in OwnUnits(t, d)
                 PROVE  x[u] = [l \in DOMAIN new.unit[u].groups |-> new.unit[u].groups[l].lecturer]
      BY SameOwn
    <3>1. new.unit[u] = t.unit[u]
      BY SameOwn
    <3>2. x[u] = [l \in DOMAIN t.unit[u].groups |-> t.unit[u].groups[l].lecturer]
      BY <1>1 DEF TableAgrees
    <3> QED BY <3>1, <3>2
  <2>6. n = 5 => \A u \in OwnUnits(new, d) :
                   x[u] = [l \in DOMAIN new.unit[u].groups |-> new.unit[u].groups[l].members]
    <3> SUFFICES ASSUME n = 5, NEW u \in OwnUnits(t, d)
                 PROVE  x[u] = [l \in DOMAIN new.unit[u].groups |-> new.unit[u].groups[l].members]
      BY SameOwn
    <3>1. new.unit[u] = t.unit[u]
      BY SameOwn
    <3>2. x[u] = [l \in DOMAIN t.unit[u].groups |-> t.unit[u].groups[l].members]
      BY <1>1 DEF TableAgrees
    <3> QED BY <3>1, <3>2
  <2>7. n = 6 => \A u \in OwnUnits(new, d) : NamedFor(new, u) \ {NoLecturer} \subseteq x
    BY <1>1, <2>1, SameOwn DEF TableAgrees
  <2> QED BY <2>2, <2>3, <2>4, <2>5, <2>6, <2>7 DEF TableAgrees
<1> QED BY <1>1 DEF TablesAgree

\* What is read now agrees with what stands now.
LEMMA TableNow ==
  ASSUME NEW t, NEW d, NEW n \in 1 .. 6
  PROVE  TableAgrees(n, TableOf(t, n), t, d)
<1>1. CASE n = 1
  BY <1>1 DEF TableAgrees, TableOf, OwnCourses
<1>2. CASE n = 2
  BY <1>2 DEF TableAgrees, TableOf, OwnUnits
<1>3. CASE n = 3
  BY <1>3 DEF TableAgrees, TableOf, OwnUnits
<1>4. CASE n = 4
  <2> DEFINE row(u) == [l \in DOMAIN t.unit[u].groups |-> t.unit[u].groups[l].lecturer]
  <2>1. TableOf(t, n) = [u \in Units |-> row(u)]
    BY <1>4 DEF TableOf
  <2> HIDE DEF row
  <2>2. \A u \in OwnUnits(t, d) : TableOf(t, n)[u] = row(u)
    BY <2>1 DEF OwnUnits
  <2> QED BY <1>4, <2>2 DEF TableAgrees, row
<1>5. CASE n = 5
  <2> DEFINE row(u) == [l \in DOMAIN t.unit[u].groups |-> t.unit[u].groups[l].members]
  <2>1. TableOf(t, n) = [u \in Units |-> row(u)]
    BY <1>5 DEF TableOf
  <2> HIDE DEF row
  <2>2. \A u \in OwnUnits(t, d) : TableOf(t, n)[u] = row(u)
    BY <2>1 DEF OwnUnits
  <2> QED BY <1>5, <2>2 DEF TableAgrees, row
<1>6. CASE n = 6
  <2>1. TableOf(t, n) = LecturersNamed(t)
    <3> DEFINE a == [c \in Courses |-> t.course[c].students]
               b == [u \in Units |-> t.unit[u].dept]
               e == [u \in Units |-> t.unit[u].courses]
               f == [u \in Units |-> [l \in DOMAIN t.unit[u].groups |-> t.unit[u].groups[l].lecturer]]
               g == [u \in Units |-> [l \in DOMAIN t.unit[u].groups |-> t.unit[u].groups[l].members]]
    <3>1. TableOf(t, n) = CASE n = 1 -> a [] n = 2 -> b [] n = 3 -> e [] n = 4 -> f [] n = 5 -> g [] n = 6 -> LecturersNamed(t)
      BY ONLY DEF TableOf
    <3> HIDE DEF a, b, e, f, g
    <3> QED BY <1>6, <3>1
  <2>2. \A u \in OwnUnits(t, d) : NamedFor(t, u) \ {NoLecturer} \subseteq LecturersNamed(t)
    <3> SUFFICES ASSUME NEW v \in Units, NEW k \in NamedFor(t, v) \ {NoLecturer} PROVE k \in LecturersNamed(t)
      BY DEF OwnUnits
    <3> DEFINE Sets == {NamedFor(t, u) : u \in Units}
               All == UNION Sets
    <3>1. NamedFor(t, v) \in Sets
      OBVIOUS
    <3>2. LecturersNamed(t) = All \ {NoLecturer}
      BY DEF LecturersNamed
    <3> HIDE DEF Sets
    <3>3. k \in All /\ k # NoLecturer
      BY <3>1
    <3> HIDE DEF All
    <3> QED BY <3>2, <3>3
  <2> QED BY <1>6, <2>1, <2>2 DEF TableAgrees
<1> QED BY <1>1, <1>2, <1>3, <1>4, <1>5, <1>6

LEMMA StaysComplete ==
  ASSUME NEW d, NEW t \in Terms, NEW new, SameFor(d, t, new), Complete(t, d)
  PROVE  Complete(new, d)
<1>1. OwnUnits(new, d) = OwnUnits(t, d)
  BY SameOwn
<1>2. ASSUME NEW u \in OwnUnits(t, d)
      PROVE  /\ NoLecturer \notin NamedFor(new, u)
             /\ \A c \in new.unit[u].courses :
                  /\ Having(new.unit[u].groups, c) # {}
                  /\ new.course[c].dept = d =>
                       PlacedOf(new.unit[u].groups, c, new.course[c].students) = new.course[c].students
  <2>1. u \in Units /\ new.unit[u] = t.unit[u]
    BY DEF SameFor, OwnUnits
  <2>2. NoLecturer \notin NamedFor(new, u)
    BY <2>1 DEF Complete, NamedFor
  <2>3. ASSUME NEW c \in new.unit[u].courses
        PROVE  /\ Having(new.unit[u].groups, c) # {}
               /\ new.course[c].dept = d =>
                    PlacedOf(new.unit[u].groups, c, new.course[c].students) = new.course[c].students
    <3>1. c \in t.unit[u].courses /\ c \in Courses
      BY <2>1, TermHas
    <3>2. new.course[c].dept = d => new.course[c] = t.course[c]
      BY <3>1 DEF SameFor
    <3>3. /\ Having(t.unit[u].groups, c) # {}
          /\ t.course[c].dept = d => PlacedOf(t.unit[u].groups, c, t.course[c].students) = t.course[c].students
      BY <3>1 DEF Complete
    <3> QED BY <2>1, <3>2, <3>3
  <2> QED BY <2>2, <2>3
<1>3. OwnUnits(new, d) # {}
  BY <1>1 DEF Complete
<1> QED BY <1>1, <1>2, <1>3 DEF Complete

\* A list without problems is complete.
LEMMA PublishedComplete ==
  ASSUME NEW d, NEW t, ~Problems(t, d)
  PROVE  Complete(t, d)
<1>1. OwnUnits(t, d) # {} /\ \A u \in OwnUnits(t, d) : UnitReady(t, u)
  BY DEF Problems
<1>2. ASSUME NEW u, UnitReady(t, u) PROVE NoLecturer \notin NamedFor(t, u)
  BY <1>2 DEF UnitReady, NamedFor
<1>3. ASSUME NEW u, UnitReady(t, u), NEW c \in t.unit[u].courses
      PROVE  Having(t.unit[u].groups, c) # {} /\ PlacedOf(t.unit[u].groups, c, t.course[c].students) = t.course[c].students
  BY <1>3 DEF UnitReady
<1> QED BY <1>1, <1>2, <1>3 DEF Complete

\* A department's step leaves what the Director has read.
LEMMA MeanwhileReads ==
  ASSUME Reading, Meanwhile
  PROVE  Reading' /\ director'.then = director.then /\ director'.tables = director.tables
<1> DEFINE count == IF director.then = Unread THEN 0 ELSE director.meanwhile + 1
<1>1. director' = [director EXCEPT !.meanwhile = count]
  BY DEF Meanwhile
<1> HIDE DEF count
<1>2. director' = [meanwhile |-> count, then |-> director.then, tables |-> director.tables, list |-> director.list]
  BY <1>1 DEF Reading
<1> QED BY <1>2 DEF Reading

\* A write of d's leaves published lists alone, if d's own is not published.
LEMMA WriteSound ==
  ASSUME TeachingAssumption, TeachingInv, NEW d \in Departments,
         \/ ~listing[d].standing /\ term' \in WrittenBy(d, term)
         \/ term' \in SeenByNobody(term),
         Meanwhile, UNCHANGED listing
  PROVE  TeachingInv'
<1>1. term \in Terms /\ term' \in Terms /\ listing \in Listings
  BY DEF TeachingInv, WrittenBy, SeenByNobody
<1>2. \A e \in Departments : listing[e].standing => SameFor(e, term, term')
  BY DEF WrittenBy, SeenByNobody
<1>3. \A e \in Departments : listing'[e].standing => Complete(term', e)
  BY <1>1, <1>2, StaysComplete DEF TeachingInv
<1>4. ASSUME director.then # Unread
      PROVE  director.then[1] \in Listings /\ ReadAsPublished(director.then[1], director.tables, term', listing)
  <2>1. director.then[1] \in Listings /\ ReadAsPublished(director.then[1], director.tables, term, listing)
    BY <1>4 DEF TeachingInv
  <2>2. PICK then, tables : then = director.then[1] /\ tables = director.tables
    OBVIOUS
  <2>3. ASSUME NEW e \in Departments, then[e].standing, listing[e] = then[e]
        PROVE  TablesAgree(tables, term', e)
    <3>1. SameFor(e, term, term')
      BY <1>2, <2>3
    <3>2. TablesAgree(tables, term, e)
      BY <2>1, <2>2, <2>3 DEF ReadAsPublished
    <3> QED BY <3>1, <3>2, StillAgrees
  <2>4. ReadAsPublished(then, tables, term', listing)
    BY <2>1, <2>2, <2>3 DEF ReadAsPublished
  <2> QED BY <2>1, <2>2, <2>4
<1>5. Reading' /\ director'.then = director.then /\ director'.tables = director.tables
  BY MeanwhileReads DEF TeachingInv
<1> QED BY <1>1, <1>3, <1>4, <1>5 DEF TeachingInv

LEMMA WriteIs ==
  ASSUME NEW d \in Departments, NEW new, Write(d, new)
  PROVE  ~listing[d].standing /\ term' = new /\ Meanwhile /\ UNCHANGED listing
BY DEF Write, WriteWhilePublished, Open

LEMMA EditSound ==
  ASSUME TeachingAssumption, TeachingInv, NEW d \in Departments,
         EditCourse(d) \/ EditUnit(d) \/ EditGroups(d) \/ EditLecturer(d)
  PROVE  TeachingInv'
<1>0. term \in Terms
  BY DEF TeachingInv
<1>1. ASSUME NEW new \in WrittenBy(d, term), Write(d, new) PROVE TeachingInv'
  BY <1>1, WriteIs, WriteSound
<1>2. CASE EditCourse(d)
  BY <1>0, <1>1, <1>2, CourseWrites DEF EditCourse
<1>3. CASE EditUnit(d)
  BY <1>0, <1>1, <1>3, UnitWrites DEF EditUnit
<1>4. CASE EditGroups(d)
  <2>1. PICK u \in Units :
          \/ \E split \in Splits(u) : CanSetGroups(term, d, u, split) /\ Write(d, SetGroups(term, u, split))
          \/ \E l \in DOMAIN term.unit[u].groups, k \in Lecturers \cup {NoLecturer} :
               CanUpdateGroup(term, d, u, l, k) /\ Write(d, UpdateGroup(term, u, l, k))
    BY <1>4 DEF EditGroups, OwnUnits
  <2>2. ASSUME NEW split \in Splits(u), CanSetGroups(term, d, u, split), Write(d, SetGroups(term, u, split))
        PROVE  TeachingInv'
    BY <1>0, <1>1, <2>2, SplitsAre, GroupWrites
  <2>3. ASSUME NEW l \in DOMAIN term.unit[u].groups, NEW k \in Lecturers \cup {NoLecturer},
               CanUpdateGroup(term, d, u, l, k), Write(d, UpdateGroup(term, u, l, k))
        PROVE  TeachingInv'
    <3>1. Split([l0 \in {} |-> 0])
      BY DEF Split
    <3>2. UpdateGroup(term, u, l, k) \in WrittenBy(d, term)
      BY <1>0, <2>3, <3>1, GroupWrites
    <3> QED BY <1>1, <2>3, <3>2
  <2> QED BY <2>1, <2>2, <2>3
<1>5. CASE EditLecturer(d)
  <2>1. PICK k \in Lecturers :
          \/ \E staff, active \in BOOLEAN : WriteWhilePublished(SaveLecturer(term, k, staff, active))
          \/ WriteWhilePublished(DeleteLecturer(term, k))
    BY <1>5 DEF EditLecturer
  <2>2. term' \in SeenByNobody(term) /\ Meanwhile /\ UNCHANGED listing
    BY <1>0, <2>1, LecturerWrites DEF WriteWhilePublished
  <2> QED BY <2>2, WriteSound
<1> QED BY <1>2, <1>3, <1>4, <1>5

LEMMA PasteSound ==
  ASSUME TeachingAssumption, TeachingInv, NEW d \in Departments, Paste(d)
  PROVE  TeachingInv'
<1>0. term \in Terms /\ MaxStudents \in Nat
  BY DEF TeachingInv, TeachingAssumption
<1>1. ASSUME NEW new \in WrittenBy(d, term), Write(d, new) PROVE TeachingInv'
  BY <1>1, WriteIs, WriteSound
<1>2. ASSUME NEW c1 \in Courses, NEW c2 \in Courses, Write(d, PasteCourses(term, d, <<<<c1, 1>>, <<c2, MaxStudents>>>>))
      PROVE  TeachingInv'
  <2> DEFINE rows == <<<<c1, 1>>, <<c2, MaxStudents>>>>
  <2>1. DOMAIN rows = 1 .. 2 /\ \A i \in 1 .. 2 : \E c \in Courses, m \in Nat : rows[i] = <<c, m>>
    BY <1>0
  <2>2. Write(d, PasteCourses(term, d, rows))
    BY <1>2
  <2> HIDE DEF rows
  <2>3. PasteCourses(term, d, rows) \in WrittenBy(d, term)
    BY <1>0, <2>1, CoursesPasted
  <2> QED BY <1>1, <2>2, <2>3
<1>3. ASSUME NEW u1 \in Units, NEW u2 \in Units, NEW cs \in SUBSET Courses, Write(d, PasteUnits(term, d, <<<<u1, cs>>, <<u2, cs>>>>))
      PROVE  TeachingInv'
  <2> DEFINE rows == <<<<u1, cs>>, <<u2, cs>>>>
  <2>1. DOMAIN rows = 1 .. 2 /\ \A i \in 1 .. 2 : \E u \in Units, s \in SUBSET Courses : rows[i] = <<u, s>>
    OBVIOUS
  <2>2. Write(d, PasteUnits(term, d, rows))
    BY <1>3
  <2> HIDE DEF rows
  <2>3. PasteUnits(term, d, rows) \in WrittenBy(d, term)
    BY <1>0, <2>1, UnitsPasted
  <2> QED BY <1>1, <2>2, <2>3
<1>4. ASSUME NEW u \in OwnUnits(term, d), NEW k \in Lecturers, NEW split \in Splits(u), Write(d, PasteGroups(term, d, u, split, k))
      PROVE  TeachingInv'
  <2>1. u \in Units /\ Split(split)
    BY <1>0, SplitsAre DEF OwnUnits
  <2>2. PasteGroups(term, d, u, split, k) \in WrittenBy(d, term)
    BY <1>0, <2>1, GroupsPasted
  <2> QED BY <1>1, <1>4, <2>2
<1>5. ASSUME WriteWhilePublished(PasteLecturers(term, d, Lecturers)) PROVE TeachingInv'
  <2>1. PasteLecturers(term, d, Lecturers) \in SeenByNobody(term)
    BY <1>0, LecturersPasted
  <2>2. term' \in SeenByNobody(term) /\ Meanwhile /\ UNCHANGED listing
    BY <1>5, <2>1 DEF WriteWhilePublished
  <2> QED BY <2>2, WriteSound
<1> QED BY <1>2, <1>3, <1>4, <1>5 DEF Paste

LEMMA Unlisted ==
  ASSUME NEW r, NEW stands, NEW X, r \in [standing : X, number : Nat]
  PROVE  [r EXCEPT !.standing = stands] = [standing |-> stands, number |-> r.number]
OBVIOUS

LEMMA PublishSound ==
  ASSUME TeachingInv, NEW d \in Departments, Publish(d) \/ Reopen(d)
  PROVE  TeachingInv'
<1>0. term \in Terms /\ listing \in Listings /\ Reading /\ Meanwhile /\ UNCHANGED term
  BY DEF TeachingInv, Publish, Reopen
<1> DEFINE row == IF Publish(d) THEN [standing |-> TRUE, number |-> listing[d].number + 1]
                  ELSE [standing |-> FALSE, number |-> listing[d].number]
<1>1. listing[d] \in [standing : BOOLEAN, number : Nat]
  BY <1>0 DEF Listings
<1>2. row \in [standing : BOOLEAN, number : Nat]
  BY <1>1
<1>3. listing' = [listing EXCEPT ![d] = row]
  <2>1. CASE Publish(d)
    <3>1. listing' = [listing EXCEPT ![d] = [standing |-> TRUE, number |-> listing[d].number + 1]]
      BY <2>1 DEF Publish
    <3> QED BY <2>1, <3>1
  <2>2. CASE ~Publish(d)
    <3>1. listing' = [listing EXCEPT ![d].standing = FALSE]
      BY <2>2 DEF Reopen
    <3>2. [listing[d] EXCEPT !.standing = FALSE] = [standing |-> FALSE, number |-> listing[d].number]
      BY <1>1, Unlisted
    <3>3. listing' = [listing EXCEPT ![d] = [standing |-> FALSE, number |-> listing[d].number]]
      BY <3>1, <3>2, Zenon
    <3> QED BY <2>2, <3>3
  <2> QED BY <2>1, <2>2
<1>4. row.standing => ~Problems(term, d) /\ row.number = listing[d].number + 1
  BY DEF Publish
<1>5. row.number >= listing[d].number
  BY <1>1
<1> HIDE DEF row
<1>6. /\ listing' \in Listings
      /\ \A e \in Departments : listing'[e] = IF e = d THEN row ELSE listing[e]
  BY <1>0, <1>2, <1>3 DEF Listings
<1>7. \A e \in Departments : listing'[e].standing => Complete(term', e)
  BY <1>0, <1>4, <1>6, PublishedComplete DEF TeachingInv
<1>8. ASSUME director.then # Unread
      PROVE  director.then[1] \in Listings /\ ReadAsPublished(director.then[1], director.tables, term, listing')
  <2>1. PICK then, tables : then = director.then[1] /\ tables = director.tables
    OBVIOUS
  <2>2. then \in Listings /\ ReadAsPublished(then, tables, term, listing)
    BY <1>8, <2>1 DEF TeachingInv
  <2>3. \A e \in Departments : then[e].number \in Nat /\ listing[e].number \in Nat /\ row.number \in Nat
    BY <1>0, <1>2, <2>2 DEF Listings
  <2>4. \A e \in Departments : then[e].number <= listing'[e].number
    BY <1>5, <1>6, <2>2, <2>3 DEF ReadAsPublished
  <2>5. ASSUME NEW e \in Departments, then[e].standing, listing'[e] = then[e]
        PROVE  TablesAgree(tables, term, e)
    <3>1. CASE e = d
      <4>1. row.standing /\ row.number = then[d].number
        BY <1>6, <2>5, <3>1
      <4>2. then[d].number <= listing[d].number
        BY <2>2 DEF ReadAsPublished
      <4> QED BY <1>4, <2>3, <4>1, <4>2
    <3>2. CASE e # d
      BY <1>6, <2>2, <2>5, <3>2 DEF ReadAsPublished
    <3> QED BY <3>1, <3>2
  <2>6. ReadAsPublished(then, tables, term, listing')
    BY <2>4, <2>5 DEF ReadAsPublished
  <2> QED BY <2>1, <2>2, <2>6
<1>9. Reading' /\ director'.then = director.then /\ director'.tables = director.tables
  BY <1>0, MeanwhileReads
<1> QED BY <1>0, <1>6, <1>7, <1>8, <1>9 DEF TeachingInv

\* One more table, or the publications, as they stand.
LEMMA ImportSound ==
  ASSUME TeachingInv, ReadTable \/ ReadPublications
  PROVE  TeachingInv'
<1>0. UNCHANGED <<term, listing>> /\ Reading /\ listing \in Listings /\ term \in Terms
  BY DEF TeachingInv, ReadTable, ReadPublications
<1>1. PICK then, tables, list :
        /\ director' = [meanwhile |-> director.meanwhile, then |-> then, tables |-> tables, list |-> list]
        /\ then = IF director.then = Unread THEN <<listing>> ELSE director.then
        /\ \/ tables = director.tables
           \/ /\ Len(director.tables) < 6
              /\ tables = Append(director.tables, TableOf(term, Len(director.tables) + 1))
  <2>1. CASE ReadTable
    <3> DEFINE then == IF director.then = Unread THEN <<listing>> ELSE director.then
               tables == Append(director.tables, TableOf(term, Len(director.tables) + 1))
    <3>1. director' = [director EXCEPT !.then = then, !.tables = tables]
      BY <2>1 DEF ReadTable
    <3>2. Len(director.tables) < 6
      BY <2>1 DEF ReadTable
    <3> HIDE DEF then, tables
    <3>3. director' = [meanwhile |-> director.meanwhile, then |-> then, tables |-> tables, list |-> director.list]
      BY <1>0, <3>1 DEF Reading
    <3> QED BY <3>2, <3>3 DEF then, tables
  <2>2. CASE ReadPublications
    <3> DEFINE then == IF director.then = Unread THEN <<listing>> ELSE director.then
    <3>1. director' = [director EXCEPT !.then = then, !.list = <<listing>>]
      BY <2>2 DEF ReadPublications
    <3> HIDE DEF then
    <3>2. director' = [meanwhile |-> director.meanwhile, then |-> then, tables |-> director.tables, list |-> <<listing>>]
      BY <1>0, <3>1 DEF Reading
    <3> QED BY <3>2 DEF then
  <2> QED BY <2>1, <2>2
<1>2. director'.then = then /\ director'.tables = tables /\ then # Unread
  BY <1>1 DEF Unread
<1>3. director.tables \in Seq(TableValues) /\ Len(director.tables) \in Nat
  BY <1>0 DEF Reading
<1> DEFINE old == director.tables
           x == TableOf(term, Len(director.tables) + 1)
<1>4. CASE tables = old
  <2>1. Reading'
    BY <1>1, <1>2, <1>3, <1>4 DEF Reading
  <2>2. then[1] \in Listings /\ ReadAsPublished(then[1], tables, term, listing)
    <3>1. CASE director.then = Unread
      <4>1. then[1] = listing /\ tables = <<>>
        BY <1>0, <1>1, <1>4, <3>1 DEF Reading
      <4>2. \A d \in Departments : listing[d].number \in Nat
        BY <1>0 DEF Listings
      <4>3. Len(tables) = 0
        BY <4>1
      <4> QED BY <1>0, <4>1, <4>2, <4>3 DEF ReadAsPublished, TablesAgree
    <3>2. CASE director.then # Unread
      BY <1>1, <1>4, <3>2 DEF TeachingInv
    <3> QED BY <3>1, <3>2
  <2> QED BY <1>0, <1>2, <2>1, <2>2 DEF TeachingInv
<1>5. CASE tables # old
  <2>1. /\ Len(old) < 6 /\ tables = Append(old, x) /\ Len(old) + 1 \in 1 .. 6
    BY <1>1, <1>3, <1>5
  <2>2. x \in TableValues
    BY <1>0, <2>1 DEF TableValues
  <2>3. \A d : TableAgrees(Len(old) + 1, x, term, d)
    BY <2>1, TableNow
  <2> HIDE DEF x
  <2>4. /\ tables \in Seq(TableValues) /\ Len(tables) = Len(old) + 1 /\ tables[Len(old) + 1] = x
        /\ \A n \in 1 .. Len(old) : tables[n] = old[n]
    BY <1>3, <2>1, <2>2
  <2>5. Reading'
    BY <1>1, <1>2, <2>4 DEF Reading
  <2>6. ASSUME NEW d, TablesAgree(old, term, d) PROVE TablesAgree(tables, term, d)
    <3> SUFFICES ASSUME NEW n \in 1 .. Len(tables) PROVE TableAgrees(n, tables[n], term, d)
      BY DEF TablesAgree
    <3>1. n \in 1 .. Len(old) \/ n = Len(old) + 1
      BY <1>3, <2>4
    <3> QED BY <2>3, <2>4, <2>6, <3>1 DEF TablesAgree
  <2>7. then[1] \in Listings /\ ReadAsPublished(then[1], old, term, listing)
    <3>1. CASE director.then = Unread
      <4>1. then[1] = listing /\ old = <<>>
        BY <1>0, <1>1, <3>1 DEF Reading
      <4>2. \A d \in Departments : listing[d].number \in Nat
        BY <1>0 DEF Listings
      <4>3. Len(old) = 0
        BY <4>1
      <4> QED BY <1>0, <4>1, <4>2, <4>3 DEF ReadAsPublished, TablesAgree
    <3>2. CASE director.then # Unread
      BY <1>1, <3>2 DEF TeachingInv
    <3> QED BY <3>1, <3>2
  <2> HIDE DEF old
  <2>8. ReadAsPublished(then[1], tables, term, listing)
    BY <2>6, <2>7 DEF ReadAsPublished
  <2> QED BY <1>0, <1>2, <2>5, <2>7, <2>8 DEF TeachingInv
<1> QED BY <1>4, <1>5

LEMMA TeachingInitInv == ASSUME TeachingAssumption, TeachingInit PROVE TeachingInv
<1>1. NoUnit \in UnitRecords
  <2>1. <<>> \in [{} -> GroupRows]
    OBVIOUS
  <2>2. <<>> \in Groupings
    BY <2>1 DEF Groupings
  <2> QED BY <2>2 DEF UnitRecords, NoUnit
<1>2. term \in Terms
  <2>1. [c \in Courses |-> [dept |-> NoDepartment, students |-> 0]] \in [Courses -> CourseRecords]
    BY DEF CourseRecords
  <2>2. [k \in Lecturers |-> [there |-> FALSE, staff |-> FALSE, active |-> FALSE]] \in [Lecturers -> LecturerRecords]
    BY DEF LecturerRecords
  <2>3. [u \in Units |-> NoUnit] \in [Units -> UnitRecords]
    BY <1>1
  <2> QED BY <2>1, <2>2, <2>3 DEF TeachingInit, Terms
<1>3. listing \in Listings /\ \A d \in Departments : ~listing[d].standing
  BY DEF TeachingInit, Listings
<1>4. Reading /\ director.then = Unread
  BY DEF TeachingInit, Reading
<1> QED BY <1>2, <1>3, <1>4 DEF TeachingInv

LEMMA TeachingStepInv ==
  ASSUME TeachingAssumption, TeachingInv, [TeachingNext]_teachingVars
  PROVE  TeachingInv'
<1>1. CASE TeachingNext
  BY <1>1, EditSound, PasteSound, PublishSound, ImportSound DEF TeachingNext
<1>2. CASE UNCHANGED teachingVars
  <2>1. term' = term /\ listing' = listing /\ director' = director
    BY <1>2 DEF teachingVars
  <2> QED BY <2>1 DEF TeachingInv, Reading
<1> QED BY <1>1, <1>2

LEMMA CompleteAnywhere == ASSUME TeachingInv PROVE PublishedListComplete
BY DEF TeachingInv, Complete, PublishedListComplete

\* What the tables give of a unit, when they agree with a complete list.
LEMMA AgreedUnit ==
  ASSUME NEW t, NEW d, NEW tables, Len(tables) = 6, TablesAgree(tables, t, d), Complete(t, d), NEW u \in OwnUnits(t, d)
  PROVE  /\ DOMAIN Submitted(tables, d) = OwnUnits(t, d)
         /\ GivenUnit(Submitted(tables, d), t, d, u)
<1> DEFINE given == Submitted(tables, d)
           groups == t.unit[u].groups
           namedIn(l) == IF tables[4][u][l] \in tables[6] THEN tables[4][u][l] ELSE NoLecturer
           students(l) == IF l \notin DOMAIN tables[5][u] THEN <<>>
                          ELSE [c \in DOMAIN tables[5][u][l] |->
                                  IF tables[5][u][l][c] = 0 THEN tables[1][c] ELSE tables[5][u][l][c]]
<1>1. \A n \in 1 .. 6 : TableAgrees(n, tables[n], t, d)
  BY DEF TablesAgree
<1>2. /\ {v \in Units : tables[2][v] = d} = OwnUnits(t, d)
      /\ tables[3][u] = t.unit[u].courses
      /\ tables[4][u] = [l \in DOMAIN groups |-> groups[l].lecturer]
      /\ tables[5][u] = [l \in DOMAIN groups |-> groups[l].members]
      /\ NamedFor(t, u) \ {NoLecturer} \subseteq tables[6]
      /\ \A c \in OwnCourses(t, d) : tables[1][c] = t.course[c].students
  <2>1. TableAgrees(1, tables[1], t, d) /\ TableAgrees(2, tables[2], t, d) /\ TableAgrees(3, tables[3], t, d)
    BY <1>1
  <2>2. TableAgrees(4, tables[4], t, d) /\ TableAgrees(5, tables[5], t, d) /\ TableAgrees(6, tables[6], t, d)
    BY <1>1
  <2>3. {v \in Units : tables[2][v] = d} = OwnUnits(t, d)
    BY <2>1 DEF TableAgrees
  <2>4. tables[3][u] = t.unit[u].courses
    BY <2>1 DEF TableAgrees
  <2>5. tables[4][u] = [l \in DOMAIN groups |-> groups[l].lecturer]
    BY <2>2 DEF TableAgrees
  <2>6. tables[5][u] = [l \in DOMAIN groups |-> groups[l].members]
    BY <2>2 DEF TableAgrees
  <2>7. NamedFor(t, u) \ {NoLecturer} \subseteq tables[6]
    BY <2>2 DEF TableAgrees
  <2>8. \A c \in OwnCourses(t, d) : tables[1][c] = t.course[c].students
    BY <2>1 DEF TableAgrees
  <2> QED BY <2>3, <2>4, <2>5, <2>6, <2>7, <2>8
<1>3. u \in {v \in Units : tables[2][v] = d}
  BY <1>2
<1>4. DOMAIN given = OwnUnits(t, d)
  BY <1>2 DEF Submitted
<1>5. given[u] = [courses |-> tables[3][u],
                  groups |-> [l \in DOMAIN tables[4][u] |-> [lecturer |-> namedIn(l), students |-> students(l)]]]
  BY <1>3 DEF Submitted
<1> HIDE DEF given
<1>6. DOMAIN tables[4][u] = DOMAIN groups
  BY <1>2
<1>7. given[u].groups = [l \in DOMAIN groups |-> [lecturer |-> namedIn(l), students |-> students(l)]]
  <2> HIDE DEF namedIn, students
  <2> QED BY <1>5, <1>6
<1>8. given[u].courses = t.unit[u].courses /\ DOMAIN given[u].groups = DOMAIN groups
  <2>1. given[u].courses = tables[3][u]
    BY <1>5
  <2> HIDE DEF namedIn, students
  <2> QED BY <1>2, <1>7, <2>1
<1>9. ASSUME NEW l \in DOMAIN groups
      PROVE  /\ given[u].groups[l].lecturer = groups[l].lecturer
             /\ DOMAIN given[u].groups[l].students = DOMAIN groups[l].members
             /\ \A c \in DOMAIN groups[l].members :
                  groups[l].members[c] # 0 \/ c \in OwnCourses(t, d) =>
                    given[u].groups[l].students[c] = MemberStudents(groups[l], c, t.course[c].students)
  <2>1. given[u].groups[l].lecturer = namedIn(l) /\ given[u].groups[l].students = students(l)
    <3> HIDE DEF namedIn, students
    <3> QED BY <1>7
  <2>2. tables[4][u][l] = groups[l].lecturer /\ tables[5][u][l] = groups[l].members /\ l \in DOMAIN tables[5][u]
    BY <1>2
  <2>3. groups[l].lecturer \in NamedFor(t, u) \ {NoLecturer}
    BY DEF Complete, NamedFor
  <2>4. namedIn(l) = groups[l].lecturer
    BY <1>2, <2>2, <2>3
  <2>5. students(l) = [c \in DOMAIN groups[l].members |->
                         IF groups[l].members[c] = 0 THEN tables[1][c] ELSE groups[l].members[c]]
    BY <2>2
  <2> HIDE DEF namedIn, students
  <2> DEFINE D == DOMAIN groups[l].members
  <2>6. given[u].groups[l].lecturer = groups[l].lecturer
    BY <2>1, <2>4
  <2>7. given[u].groups[l].students = [c \in D |-> IF groups[l].members[c] = 0 THEN tables[1][c] ELSE groups[l].members[c]]
    BY <2>1, <2>5
  <2> HIDE DEF D
  <2>8. ASSUME NEW c \in D, groups[l].members[c] # 0 \/ c \in OwnCourses(t, d)
        PROVE  given[u].groups[l].students[c] = MemberStudents(groups[l], c, t.course[c].students)
    <3>1. given[u].groups[l].students[c] = IF groups[l].members[c] = 0 THEN tables[1][c] ELSE groups[l].members[c]
      BY <2>7
    <3>2. groups[l].members[c] = 0 => tables[1][c] = t.course[c].students
      BY <1>2, <2>8
    <3> QED BY <3>1, <3>2 DEF MemberStudents
  <2>9. DOMAIN given[u].groups[l].students = D
    BY <2>7
  <2> QED BY <2>6, <2>8, <2>9 DEF D
<1> QED BY <1>4, <1>8, <1>9 DEF given, GivenUnit

LEMMA ImportAnywhere == ASSUME TeachingInv PROVE ImportMatchesUnlessRepublished
<1> SUFFICES ASSUME Len(director.tables) = 6, director.list # Unread, NEW d \in Departments,
                    director.list[1][d].standing, director.then[1][d] = listing[d], director.list[1][d] = listing[d]
             PROVE  /\ DOMAIN Submitted(director.tables, d) = OwnUnits(term, d)
                    /\ \A u \in OwnUnits(term, d) : GivenUnit(Submitted(director.tables, d), term, d, u)
  BY DEF ImportMatchesUnlessRepublished
<1>0. Len(director.tables) = 6
  OBVIOUS
<1>1. director.then # Unread
  <2>1. director.then = Unread => director.tables = <<>>
    BY DEF TeachingInv, Reading
  <2>2. Len(<<>>) = 0
    OBVIOUS
  <2>3. ASSUME director.then = Unread PROVE FALSE
    <3>1. Len(director.tables) = 0
      BY ONLY <2>1, <2>2, <2>3
    <3> QED BY ONLY <1>0, <3>1
  <2> QED BY <2>3
<1>2. listing[d].standing /\ director.then[1][d].standing
  OBVIOUS
<1>3. TablesAgree(director.tables, term, d)
  BY <1>1, <1>2 DEF TeachingInv, ReadAsPublished
<1>4. Complete(term, d)
  BY <1>2 DEF TeachingInv
<1>5. OwnUnits(term, d) # {}
  BY <1>4 DEF Complete
<1>6. \A u \in OwnUnits(term, d) : /\ DOMAIN Submitted(director.tables, d) = OwnUnits(term, d)
                                   /\ GivenUnit(Submitted(director.tables, d), term, d, u)
  BY <1>3, <1>4, AgreedUnit
<1> QED BY <1>5, <1>6

-----------------------------------------------------------------------------
(* Audits, findings and corrective actions.                                 *)

USE QualityAuditsAssumption

-----------------------------------------------------------------------------
(* Types. *)

LEMMA AuditInitTypeOK == AuditInit => AuditTypeOK
<1> SUFFICES ASSUME AuditInit PROVE AuditTypeOK
  OBVIOUS
<1>1. audit \in AuditRow
  BY DEF AuditInit, AuditRow, AuditStatuses
<1>2. capa \in CapaRow
  BY DEF AuditInit, CapaRow, CapaStatuses
<1>3. auditCall \in [Auditors -> AuditCalls]
  BY DEF AuditInit, AuditCalls, Quiet
<1>4. item \in TemplateItemRows /\ findings \in FindingRows
  BY DEF AuditInit, TemplateItemRows, FindingRows
<1>5. QED
  BY <1>1, <1>2, <1>3, <1>4 DEF AuditInit, AuditTypeOK

LEMMA AnsweredTypeOK ==
  ASSUME AuditTypeOK, NEW o \in Auditors, Answered(o)
  PROVE  auditCall' \in [Auditors -> AuditCalls]
<1>1. Quiet \in AuditCalls
  BY DEF Quiet, AuditCalls
<1>2. QED
  BY <1>1 DEF AuditTypeOK, Answered

LEMMA AwaitTypeOK ==
  ASSUME AuditTypeOK, NEW o \in Auditors, NEW call \in AuditCalls, Await(o, call)
  PROVE  auditCall' \in [Auditors -> AuditCalls]
BY DEF AuditTypeOK, Await

LEMMA ChecklistTypeOK ==
  ASSUME AuditTypeOK, ChecklistRoutes
  PROVE  AuditTypeOK'
<1>1. ASSUME NEW i \in Items, NEW s \in Standards, CreateItem(i, s) \/ UpdateItem(i, s)
      PROVE  AuditTypeOK'
  BY <1>1 DEF AuditTypeOK, CreateItem, UpdateItem, TemplateItemRows
<1>2. ASSUME NEW o \in Auditors, NEW i \in Items, CheckItemUnused(o, i)
      PROVE  AuditTypeOK'
  <2>1. [op |-> "remove", item |-> i] \in AuditCalls
    BY DEF AuditCalls
  <2>2. auditCall' \in [Auditors -> AuditCalls]
    BY <1>2, <2>1, AwaitTypeOK DEF CheckItemUnused
  <2>3. QED
    BY <1>2, <2>2 DEF AuditTypeOK, CheckItemUnused
<1>3. ASSUME NEW o \in Auditors, DeleteItem(o)
      PROVE  AuditTypeOK'
  <2>1. auditCall' \in [Auditors -> AuditCalls]
    BY <1>3, AnsweredTypeOK DEF DeleteItem
  <2>2. item' \in TemplateItemRows
    BY <1>3 DEF DeleteItem, AuditTypeOK, TemplateItemRows
  <2>3. QED
    BY <1>3, <2>1, <2>2 DEF AuditTypeOK, DeleteItem
<1>4. QED
  BY <1>1, <1>2, <1>3 DEF ChecklistRoutes

LEMMA AuditRoutesTypeOK ==
  ASSUME AuditTypeOK, NEW o \in Auditors, AuditRoutes(o)
  PROVE  AuditTypeOK'
<1>0. auditCall[o] \in AuditCalls
  BY DEF AuditTypeOK
<1>1. ASSUME NEW to \in AuditStatuses, AskStatus(o, to)
      PROVE  AuditTypeOK'
  <2>1. to \in {"IN_PROGRESS", "COMPLETED"}
    BY <1>1 DEF AskStatus, CanTransitionAuditStatus
  <2>2. [op |-> "status", to |-> to, counted |-> FALSE] \in AuditCalls
    BY <2>1 DEF AuditCalls
  <2>3. auditCall' \in [Auditors -> AuditCalls]
    BY <1>1, <2>2, AwaitTypeOK DEF AskStatus
  <2>4. QED
    BY <1>1, <2>3 DEF AuditTypeOK, AskStatus
<1>2. CASE CountMissing(o)
  <2>1. [auditCall[o] EXCEPT !.counted = TRUE] \in AuditCalls
    BY <1>0, <1>2 DEF CountMissing, AuditCalls
  <2>2. auditCall' \in [Auditors -> AuditCalls]
    BY <1>2, <2>1, AwaitTypeOK, AnsweredTypeOK DEF CountMissing
  <2>3. QED
    BY <1>2, <2>2 DEF AuditTypeOK, CountMissing
<1>3. CASE WriteStatus(o)
  <2>1. auditCall[o].to \in AuditStatuses
    BY <1>0, <1>3 DEF WriteStatus, AuditCalls, AuditStatuses
  <2>2. audit' \in AuditRow /\ writes' \in Nat
    BY <1>3, <2>1 DEF WriteStatus, AuditTypeOK, StatusRow, AuditRow
  <2>3. auditCall' \in [Auditors -> AuditCalls]
    BY <1>3, AnsweredTypeOK DEF WriteStatus
  <2>4. QED
    BY <1>3, <2>2, <2>3 DEF AuditTypeOK, WriteStatus
<1>4. ASSUME NEW i \in Items, NEW r \in Ratings, AskFinding(o, i, r)
      PROVE  AuditTypeOK'
  <2>1. [op |-> "finding", item |-> i, rating |-> r] \in AuditCalls
    BY DEF AuditCalls
  <2>2. auditCall' \in [Auditors -> AuditCalls]
    BY <1>4, <2>1, AwaitTypeOK DEF AskFinding
  <2>3. QED
    BY <1>4, <2>2 DEF AuditTypeOK, AskFinding
<1>5. CASE WriteFinding(o)
  <2>1. auditCall[o].item \in Items /\ auditCall[o].rating \in Ratings
    BY <1>0, <1>5 DEF WriteFinding, AuditCalls
  <2>2. findings' \in FindingRows
    BY <1>5, <2>1 DEF WriteFinding, AuditTypeOK, FindingRows
  <2>3. auditCall' \in [Auditors -> AuditCalls]
    BY <1>5, AnsweredTypeOK DEF WriteFinding
  <2>4. QED
    BY <1>5, <2>2, <2>3 DEF AuditTypeOK, WriteFinding
<1>6. QED
  BY <1>1, <1>2, <1>3, <1>4, <1>5 DEF AuditRoutes

LEMMA VerificationForType ==
  ASSUME NEW to \in CapaStatuses, NEW o \in Auditors, NEW read \in CapaRow
  PROVE  VerificationFor(to, o, read) \in Auditors \cup {Nobody}
BY DEF VerificationFor, CapaRow

LEMMA CapaRoutesTypeOK ==
  ASSUME AuditTypeOK, NEW o \in Auditors, CapaRoutes(o)
  PROVE  AuditTypeOK'
<1>0. auditCall[o] \in AuditCalls
  BY DEF AuditTypeOK
<1>1. ASSUME NEW i \in Items, AskCapa(o, i)
      PROVE  AuditTypeOK'
  <2>1. [op |-> "raise", item |-> i] \in AuditCalls
    BY DEF AuditCalls
  <2>2. auditCall' \in [Auditors -> AuditCalls]
    BY <1>1, <2>1, AwaitTypeOK DEF AskCapa
  <2>3. QED
    BY <1>1, <2>2 DEF AuditTypeOK, AskCapa
<1>2. CASE CreateCapa(o)
  <2>1. auditCall[o].item \in Items
    BY <1>0, <1>2 DEF CreateCapa, AuditCalls
  <2>2. capa' \in CapaRow
    BY <1>2, <2>1 DEF CreateCapa, AuditTypeOK, CapaRow, CapaStatuses
  <2>3. auditCall' \in [Auditors -> AuditCalls]
    BY <1>2, AnsweredTypeOK DEF CreateCapa
  <2>4. QED
    BY <1>2, <2>2, <2>3 DEF AuditTypeOK, CreateCapa
<1>3. ASSUME NEW to \in CapaStatuses, AskCapaStatus(o, to)
      PROVE  AuditTypeOK'
  <2>1. capa \in CapaRow
    BY DEF AuditTypeOK
  <2>2. VerificationFor(to, o, capa) \in Auditors \cup {Nobody}
    BY <2>1, VerificationForType
  <2>3. [op |-> "capa", to |-> to, verifier |-> VerificationFor(to, o, capa)] \in AuditCalls
    BY <2>2 DEF AuditCalls
  <2>4. auditCall' \in [Auditors -> AuditCalls]
    BY <1>3, <2>3, AwaitTypeOK DEF AskCapaStatus
  <2>5. QED
    BY <1>3, <2>4 DEF AuditTypeOK, AskCapaStatus
<1>4. CASE WriteCapaStatus(o)
  <2>1. auditCall[o].to \in CapaStatuses /\ auditCall[o].verifier \in Auditors \cup {Nobody}
    BY <1>0, <1>4 DEF WriteCapaStatus, AuditCalls
  <2>2. capa' \in CapaRow
    BY <1>4, <2>1 DEF WriteCapaStatus, AuditTypeOK, CapaRow
  <2>3. auditCall' \in [Auditors -> AuditCalls]
    BY <1>4, AnsweredTypeOK DEF WriteCapaStatus
  <2>4. QED
    BY <1>4, <2>2, <2>3 DEF AuditTypeOK, WriteCapaStatus
<1>5. QED
  BY <1>1, <1>2, <1>3, <1>4 DEF CapaRoutes

LEMMA AuditNextTypeOK == AuditTypeOK /\ [AuditNext]_auditVars => AuditTypeOK'
<1> SUFFICES ASSUME AuditTypeOK, [AuditNext]_auditVars PROVE AuditTypeOK'
  OBVIOUS
<1>1. CASE CreateAudit
  BY <1>1 DEF AuditTypeOK, CreateAudit, AuditRow, AuditStatuses
<1>2. ASSUME NEW s \in Standards, UpdateStandard(s)
      PROVE  AuditTypeOK'
  BY <1>2 DEF AuditTypeOK, UpdateStandard
<1>3. CASE ChecklistRoutes
  BY <1>3, ChecklistTypeOK
<1>4. ASSUME NEW o \in Auditors, AuditRoutes(o) \/ CapaRoutes(o)
      PROVE  AuditTypeOK'
  BY <1>4, AuditRoutesTypeOK, CapaRoutesTypeOK
<1>5. CASE UNCHANGED auditVars
  BY <1>5 DEF auditVars, AuditTypeOK
<1>6. QED
  BY <1>1, <1>2, <1>3, <1>4, <1>5 DEF AuditNext

(* Every variable keeps its type: a request in flight carries what a        *)
(* request of its kind read, and a row has a status the code knows.         *)
THEOREM AuditTypes == AuditSpec => []AuditTypeOK
<1>1. QED
  BY AuditInitTypeOK, AuditNextTypeOK, PTL DEF AuditSpec

-----------------------------------------------------------------------------
(* The stamp of a corrective action. *)

\* What a request in flight will write fits together, like the row.
StampsCarried ==
  \A o \in Auditors : auditCall[o].op = "capa" =>
    ((auditCall[o].to \in {"VERIFIED", "CLOSED"}) <=> (auditCall[o].verifier # Nobody))

StampInv == AuditTypeOK /\ StampMatchesStatus /\ StampsCarried

LEMMA StampInvInit == AuditInit => StampInv
<1> SUFFICES ASSUME AuditInit PROVE StampInv
  OBVIOUS
<1>1. StampMatchesStatus
  BY DEF AuditInit, StampMatchesStatus
<1>2. StampsCarried
  BY DEF AuditInit, StampsCarried, Quiet
<1>3. QED
  BY <1>1, <1>2, AuditInitTypeOK DEF StampInv

\* A step that leaves the action alone and puts no status for it in flight.
LEMMA StampElsewhere ==
  ASSUME StampInv, NEW o \in Auditors, NEW call, call.op # "capa", Await(o, call), UNCHANGED capa
  PROVE  StampMatchesStatus' /\ StampsCarried'
<1>1. \A u \in Auditors : auditCall'[u] = IF u = o THEN call ELSE auditCall[u]
  BY DEF StampInv, AuditTypeOK, Await
<1>2. QED
  BY <1>1 DEF StampInv, StampMatchesStatus, StampsCarried

LEMMA StampAnswered ==
  ASSUME StampInv, NEW o \in Auditors, Answered(o), UNCHANGED capa
  PROVE  StampMatchesStatus' /\ StampsCarried'
<1>1. \A u \in Auditors : auditCall'[u] = IF u = o THEN Quiet ELSE auditCall[u]
  BY DEF StampInv, AuditTypeOK, Answered
<1>2. QED
  BY <1>1 DEF StampInv, StampMatchesStatus, StampsCarried, Quiet

LEMMA StampKeptByAudits ==
  ASSUME StampInv, NEW o \in Auditors, AuditRoutes(o)
  PROVE  StampMatchesStatus' /\ StampsCarried'
<1>1. ASSUME NEW to \in AuditStatuses, AskStatus(o, to)
      PROVE  StampMatchesStatus' /\ StampsCarried'
  BY <1>1, StampElsewhere DEF AskStatus
<1>2. CASE CountMissing(o)
  <2>1. auditCall[o] \in AuditCalls
    BY DEF StampInv, AuditTypeOK
  <2>2. [auditCall[o] EXCEPT !.counted = TRUE].op # "capa"
    BY <1>2, <2>1 DEF CountMissing, AuditCalls
  <2>3. QED
    BY <1>2, <2>2, StampElsewhere, StampAnswered DEF CountMissing
<1>3. CASE WriteStatus(o) \/ WriteFinding(o)
  BY <1>3, StampAnswered DEF WriteStatus, WriteFinding
<1>4. ASSUME NEW i \in Items, NEW r \in Ratings, AskFinding(o, i, r)
      PROVE  StampMatchesStatus' /\ StampsCarried'
  BY <1>4, StampElsewhere DEF AskFinding
<1>5. QED
  BY <1>1, <1>2, <1>3, <1>4 DEF AuditRoutes

LEMMA StampKeptByActions ==
  ASSUME StampInv, NEW o \in Auditors, CapaRoutes(o)
  PROVE  StampMatchesStatus' /\ StampsCarried'
<1>0. capa \in CapaRow /\ auditCall \in [Auditors -> AuditCalls]
  BY DEF StampInv, AuditTypeOK
<1>1. ASSUME NEW i \in Items, AskCapa(o, i)
      PROVE  StampMatchesStatus' /\ StampsCarried'
  BY <1>1, StampElsewhere DEF AskCapa
<1>2. CASE CreateCapa(o)
  <2>1. StampMatchesStatus'
    BY <1>2 DEF CreateCapa, StampInv, StampMatchesStatus
  <2>2. StampsCarried'
    BY <1>0, <1>2 DEF CreateCapa, Answered, Quiet, StampInv, StampsCarried
  <2>3. QED
    BY <2>1, <2>2
<1>3. ASSUME NEW to \in CapaStatuses, AskCapaStatus(o, to)
      PROVE  StampMatchesStatus' /\ StampsCarried'
  <2>1. (to \in {"VERIFIED", "CLOSED"}) <=> (VerificationFor(to, o, capa) # Nobody)
    BY <1>3 DEF AskCapaStatus, CanTransitionCapaStatus, VerificationFor, StampInv, StampMatchesStatus
  <2>2. \A u \in Auditors :
          auditCall'[u] = IF u = o THEN [op |-> "capa", to |-> to, verifier |-> VerificationFor(to, o, capa)]
                          ELSE auditCall[u]
    BY <1>0, <1>3 DEF AskCapaStatus, Await
  <2>3. StampsCarried'
    BY <2>1, <2>2 DEF StampInv, StampsCarried
  <2>4. QED
    BY <1>3, <2>3 DEF AskCapaStatus, StampInv, StampMatchesStatus
<1>4. CASE WriteCapaStatus(o)
  <2>1. (auditCall[o].to \in {"VERIFIED", "CLOSED"}) <=> (auditCall[o].verifier # Nobody)
    BY <1>4 DEF WriteCapaStatus, StampInv, StampsCarried
  <2>2. capa'.status = auditCall[o].to /\ capa'.verifier = auditCall[o].verifier
    BY <1>0, <1>4 DEF WriteCapaStatus, CapaRow
  <2>3. StampsCarried'
    BY <1>0, <1>4 DEF WriteCapaStatus, Answered, Quiet, StampInv, StampsCarried
  <2>4. QED
    BY <2>1, <2>2, <2>3 DEF StampMatchesStatus
<1>5. QED
  BY <1>1, <1>2, <1>3, <1>4 DEF CapaRoutes

LEMMA StampInvNext == StampInv /\ [AuditNext]_auditVars => StampInv'
<1> SUFFICES ASSUME StampInv, [AuditNext]_auditVars PROVE StampInv'
  OBVIOUS
<1>0. AuditTypeOK'
  BY AuditNextTypeOK DEF StampInv
<1>1. CASE CreateAudit \/ \E s \in Standards : UpdateStandard(s)
  BY <1>0, <1>1 DEF CreateAudit, UpdateStandard, StampInv, StampMatchesStatus, StampsCarried
<1>2. CASE ChecklistRoutes
  <2>1. ASSUME NEW i \in Items, NEW s \in Standards, CreateItem(i, s) \/ UpdateItem(i, s)
        PROVE  StampMatchesStatus' /\ StampsCarried'
    BY <2>1 DEF CreateItem, UpdateItem, StampInv, StampMatchesStatus, StampsCarried
  <2>2. ASSUME NEW o \in Auditors, NEW i \in Items, CheckItemUnused(o, i)
        PROVE  StampMatchesStatus' /\ StampsCarried'
    BY <2>2, StampElsewhere DEF CheckItemUnused
  <2>3. ASSUME NEW o \in Auditors, DeleteItem(o)
        PROVE  StampMatchesStatus' /\ StampsCarried'
    BY <2>3, StampAnswered DEF DeleteItem
  <2>4. QED
    BY <1>0, <1>2, <2>1, <2>2, <2>3 DEF ChecklistRoutes, StampInv
<1>3. ASSUME NEW o \in Auditors, AuditRoutes(o) \/ CapaRoutes(o)
      PROVE  StampInv'
  BY <1>0, <1>3, StampKeptByAudits, StampKeptByActions DEF StampInv
<1>4. CASE UNCHANGED auditVars
  BY <1>0, <1>4 DEF auditVars, StampInv, StampMatchesStatus, StampsCarried
<1>5. QED
  BY <1>1, <1>2, <1>3, <1>4 DEF AuditNext

(* A corrective action carries a verifier exactly when it is verified or    *)
(* closed, whatever overlaps: closing carries the stamp it read, and only a *)
(* request that read VERIFIED may close (capa.service.ts update).           *)
THEOREM StampAlwaysMatches == AuditSpec => []StampMatchesStatus
<1>1. StampInv => StampMatchesStatus
  BY DEF StampInv
<1>2. QED
  BY <1>1, StampInvInit, StampInvNext, PTL DEF AuditSpec

-----------------------------------------------------------------------------
(* The audit's history. *)

LEMMA StampsStayStep ==
  ASSUME AuditTypeOK, [AuditNext]_auditVars
  PROVE  /\ audit.started # 0 => audit'.started = audit.started
         /\ audit.completed # 0 => audit'.completed # 0
<1>1. CASE CreateAudit
  BY <1>1 DEF CreateAudit, AuditTypeOK, AuditRow
<1>2. ASSUME NEW o \in Auditors, WriteStatus(o)
      PROVE  /\ audit.started # 0 => audit'.started = audit.started
             /\ audit.completed # 0 => audit'.completed # 0
  <2>1. writes + 1 # 0
    BY DEF AuditTypeOK
  <2>2. QED
    BY <1>2, <2>1 DEF WriteStatus, StatusRow
<1>3. CASE UNCHANGED audit
  BY <1>3
<1>4. ChecklistRoutes => UNCHANGED audit
  BY DEF ChecklistRoutes, CreateItem, UpdateItem, CheckItemUnused, DeleteItem
<1>5. ASSUME NEW o \in Auditors, AuditRoutes(o) \/ CapaRoutes(o)
      PROVE  WriteStatus(o) \/ UNCHANGED audit
  BY <1>5 DEF AuditRoutes, AskStatus, CountMissing, AskFinding, WriteFinding,
              CapaRoutes, AskCapa, CreateCapa, AskCapaStatus, WriteCapaStatus
<1>6. QED
  BY <1>1, <1>2, <1>3, <1>4, <1>5 DEF AuditNext, UpdateStandard, auditVars

(* The first start of an audit never moves and its completion is never      *)
(* erased, however many status requests overlap: only WriteStatus writes    *)
(* the stamps, and it keeps them (audit.repository.ts updateStatus).        *)
THEOREM StampsAlwaysStay == AuditSpec => StampsStay
<1>1. AuditTypeOK /\ [AuditNext]_auditVars
        => [/\ audit.started # 0 => audit'.started = audit.started
            /\ audit.completed # 0 => audit'.completed # 0]_auditVars
  BY StampsStayStep
<1>2. QED
  BY <1>1, AuditTypes, PTL DEF AuditSpec, StampsStay

-----------------------------------------------------------------------------
(* A finding and its item. *)

LEMMA FindingsStep ==
  ASSUME AuditTypeOK, FindingsKeepTheirItem, [AuditNext]_auditVars
  PROVE  FindingsKeepTheirItem'
<1>0. item \in [Items -> Standards \cup {Nothing}] /\ findings \in [Items -> Ratings \cup {Nothing}]
  BY DEF AuditTypeOK, TemplateItemRows, FindingRows
<1>1. ASSUME NEW i \in Items, NEW s \in Standards, CreateItem(i, s) \/ UpdateItem(i, s)
      PROVE  FindingsKeepTheirItem'
  BY <1>0, <1>1 DEF CreateItem, UpdateItem, FindingsKeepTheirItem
<1>2. ASSUME NEW o \in Auditors, DeleteItem(o)
      PROVE  FindingsKeepTheirItem'
  BY <1>0, <1>2 DEF DeleteItem, ItemHasFindings, FindingsKeepTheirItem
<1>3. ASSUME NEW o \in Auditors, WriteFinding(o)
      PROVE  FindingsKeepTheirItem'
  BY <1>0, <1>3 DEF WriteFinding, FindingsKeepTheirItem
<1>4. CASE UNCHANGED <<item, findings>>
  BY <1>4 DEF FindingsKeepTheirItem
<1>5. ASSUME NEW o \in Auditors, NEW i \in Items, CheckItemUnused(o, i)
      PROVE  UNCHANGED <<item, findings>>
  BY <1>5 DEF CheckItemUnused
<1>6. ASSUME NEW o \in Auditors, AuditRoutes(o) \/ CapaRoutes(o)
      PROVE  WriteFinding(o) \/ UNCHANGED <<item, findings>>
  BY <1>6 DEF AuditRoutes, AskStatus, CountMissing, WriteStatus, AskFinding,
              CapaRoutes, AskCapa, CreateCapa, AskCapaStatus, WriteCapaStatus
<1>7. CASE ChecklistRoutes
  BY <1>1, <1>2, <1>4, <1>5, <1>7 DEF ChecklistRoutes
<1>8. CASE CreateAudit \/ (\E s \in Standards : UpdateStandard(s)) \/ UNCHANGED auditVars
  BY <1>4, <1>8 DEF CreateAudit, UpdateStandard, auditVars
<1>9. QED
  BY <1>3, <1>4, <1>6, <1>7, <1>8 DEF AuditNext

(* No finding outlives the checklist item it answers, although the removal  *)
(* checks for findings in a statement before the DELETE                     *)
(* (checklist.service.ts deleteItem).                                       *)
THEOREM FindingsAlwaysKeepTheirItem == AuditSpec => []FindingsKeepTheirItem
<1>1. AuditInit => FindingsKeepTheirItem
  BY DEF AuditInit, FindingsKeepTheirItem
<1>2. AuditTypeOK /\ FindingsKeepTheirItem /\ [AuditNext]_auditVars => FindingsKeepTheirItem'
  BY FindingsStep
<1>3. QED
  BY <1>1, <1>2, AuditTypes, PTL DEF AuditSpec

=============================================================================
