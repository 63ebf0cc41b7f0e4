---------------------------- MODULE SignInProofs ----------------------------
(* What holds of an account for any number of browsers, requests at a time, *)
(* passwords, links and sessions.                                           *)
EXTENDS SignIn, SequenceTheorems, TLAPS

USE SignInAssumption

-----------------------------------------------------------------------------
(* Rows that are only changed in place, and rows that are added.           *)

LEMMA LinkDomain ==
  ASSUME TypeOK
  PROVE  /\ Len(links) \in Nat /\ DOMAIN links = 1..Len(links)
         /\ DOMAIN links \subseteq LinkIds
         /\ \A l \in DOMAIN links : links[l] \in LinkRows
<1>1. links \in Seq(LinkRows) /\ Len(links) <= MaxLinks
  BY DEF TypeOK
<1>2. QED
  BY <1>1, LenProperties, ElementOfSeq DEF LinkIds

LEMMA SessionDomain ==
  ASSUME TypeOK
  PROVE  /\ Len(sessions) \in Nat /\ DOMAIN sessions = 1..Len(sessions)
         /\ DOMAIN sessions \subseteq SessionIds
         /\ \A s \in DOMAIN sessions : sessions[s] \in SessionRows
<1>1. sessions \in Seq(SessionRows) /\ Len(sessions) <= MaxSessions
  BY DEF TypeOK
<1>2. QED
  BY <1>1, LenProperties, ElementOfSeq DEF SessionIds

\* A sequence rewritten row by row is one of the same length.
LEMMA Rewritten ==
  ASSUME NEW Rows, NEW s \in Seq(Rows), NEW t \in [DOMAIN s -> Rows]
  PROVE  t \in Seq(Rows) /\ Len(t) = Len(s) /\ DOMAIN t = DOMAIN s
<1>1. Len(s) \in Nat /\ DOMAIN s = 1..Len(s)
  BY LenProperties
<1>2. t \in Seq(Rows)
  BY <1>1, IsASeq
<1>3. DOMAIN t = 1..Len(s) /\ DOMAIN t = 1..Len(t) /\ Len(t) \in Nat
  BY <1>1, <1>2, LenProperties
<1>4. QED
  BY <1>1, <1>3

LinksTyped == links' \in Seq(LinkRows) /\ Len(links') <= MaxLinks
SessionsTyped == sessions' \in Seq(SessionRows) /\ Len(sessions') <= MaxSessions

LEMMA LinksRewritten ==
  ASSUME TypeOK, links' \in [DOMAIN links -> LinkRows]
  PROVE  LinksTyped /\ DOMAIN links' = DOMAIN links
<1>1. links \in Seq(LinkRows) /\ Len(links) <= MaxLinks
  BY DEF TypeOK
<1>2. QED
  BY <1>1, Rewritten DEF LinksTyped

LEMMA SessionsRewritten ==
  ASSUME TypeOK, sessions' \in [DOMAIN sessions -> SessionRows]
  PROVE  SessionsTyped
<1>1. sessions \in Seq(SessionRows) /\ Len(sessions) <= MaxSessions
  BY DEF TypeOK
<1>2. QED
  BY <1>1, Rewritten DEF SessionsTyped

LEMMA EndedSessions ==
  ASSUME TypeOK, NEW ids, sessions' = EndSessions(ids)
  PROVE  SessionsTyped
<1>1. ASSUME NEW s \in DOMAIN sessions
      PROVE  [sessions[s] EXCEPT !.ended = TRUE] \in SessionRows /\ sessions[s] \in SessionRows
  BY SessionDomain DEF SessionRows
<1>2. sessions' \in [DOMAIN sessions -> SessionRows]
  BY <1>1 DEF EndSessions
<1>3. QED
  BY <1>2, SessionsRewritten

\* Withdrawing touches live and expired links only.
LEMMA WithdrawnLinks ==
  ASSUME TypeOK, NEW ids
  PROVE  /\ Withdrawn(ids) \in [DOMAIN links -> LinkRows]
         /\ \A l \in DOMAIN links :
              /\ Withdrawn(ids)[l].kind = links[l].kind
              /\ Withdrawn(ids)[l].term = links[l].term
              /\ Withdrawn(ids)[l].state = IF l \in ids /\ links[l].state # "used"
                                           THEN "dead" ELSE links[l].state
<1>1. ASSUME NEW l \in DOMAIN links
      PROVE  [links[l] EXCEPT !.state = "dead"] \in LinkRows /\ links[l] \in LinkRows
  BY LinkDomain DEF LinkRows
<1>2. QED
  BY <1>1 DEF Withdrawn, LinkRows

\* A link sent: those before it are withdrawn or left, and it comes last.
LEMMA LinkSent ==
  ASSUME TypeOK, NEW ids, NEW kind \in {"invite", "reset"}, Len(links) < MaxLinks,
         links' = Append(Withdrawn(ids), NewLink(kind))
  PROVE  /\ LinksTyped
         /\ DOMAIN links' = 1..(Len(links) + 1)
         /\ \A l \in DOMAIN links : links'[l] = Withdrawn(ids)[l]
         /\ links'[Len(links) + 1] = NewLink(kind)
<1>1. /\ links \in Seq(LinkRows) /\ Len(links) \in Nat /\ DOMAIN links = 1..Len(links)
      /\ MaxLinks \in Nat
  BY LinkDomain DEF TypeOK
<1>2. Withdrawn(ids) \in Seq(LinkRows) /\ Len(Withdrawn(ids)) = Len(links)
  BY <1>1, WithdrawnLinks, Rewritten
<1>3. NewLink(kind) \in LinkRows
  BY DEF NewLink, LinkRows, TypeOK
<1>4. /\ links' \in Seq(LinkRows) /\ Len(links') = Len(links) + 1
      /\ \A l \in 1..Len(links) : links'[l] = Withdrawn(ids)[l]
      /\ links'[Len(links) + 1] = NewLink(kind)
  BY <1>2, <1>3, AppendProperties
<1>5. DOMAIN links' = 1..(Len(links) + 1)
  BY <1>4, LenProperties
<1>6. QED
  BY <1>1, <1>4, <1>5 DEF LinksTyped

-----------------------------------------------------------------------------
(* Shapes.                                                                 *)

FramesTyped == calls' \in [Calls -> Frames]

\* What a frame holds goes by its operation.
LEMMA FrameOf ==
  ASSUME NEW f \in Frames
  PROVE  /\ f.op = "send" => f.kind \in {"invite", "reset"}
         /\ f.op \in {"invite", "reset"} => f.link \in LinkIds
         /\ f.op = "login" => f.browser \in Browsers /\ f.password \in 1..MaxPasswords
         /\ f.op = "refresh" =>
              f.browser \in Browsers /\ f.session \in SessionIds /\ f.version \in Nat
         /\ f.op \in {"change", "revoke"} => f \in [op : {"change", "revoke"}, session : SessionIds]
<1>1. CASE f \in {Idle} \cup [op : {"guess", "reopen"}]
  BY <1>1 DEF Idle
<1>2. CASE f \in [op : {"send"}, kind : {"invite", "reset"}, seen : SUBSET LinkIds]
  BY <1>2
<1>3. CASE f \in [op : {"invite", "reset"}, link : LinkIds]
  BY <1>3
<1>4. CASE f \in [op : {"login"}, browser : Browsers, password : 1..MaxPasswords]
  BY <1>4
<1>5. CASE f \in [op : {"refresh"}, browser : Browsers, session : SessionIds, version : Nat,
                 verdict : {"denied", "reused", "good"}]
  BY <1>5
<1>6. CASE f \in [op : {"change", "revoke"}, session : SessionIds]
  BY <1>6
<1>7. QED
  BY <1>1, <1>2, <1>3, <1>4, <1>5, <1>6 DEF Frames

\* A password somebody chose fits the row.
LEMMA ChosenTyped ==
  ASSUME TypeOK, chosen < MaxPasswords, NEW status \in {"PENDING", "ACTIVE", "DEACTIVATED"}
  PROVE  WithPassword(status) \in Users /\ chosen + 1 \in 1..MaxPasswords
BY DEF WithPassword, Users, TypeOK

LEMMA InitTypeOK == Init => TypeOK
<1> SUFFICES ASSUME Init PROVE TypeOK
  OBVIOUS
<1>1. user \in Users
  BY DEF Init, Invited, Users
<1>2. [kind |-> "invite", state |-> "live", term |-> 1] \in LinkRows
  BY DEF LinkRows
<1>3. links \in Seq(LinkRows) /\ Len(links) = 1
  BY <1>2 DEF Init
<1>4. sessions \in Seq(SessionRows) /\ Len(sessions) = 0
  BY EmptySeq DEF Init
<1>5. calls \in [Calls -> Frames]
  BY DEF Init, Frames
<1>6. cookie \in [Browsers -> {NoCookie} \cup [session : SessionIds, version : Nat]]
  BY DEF Init
<1>7. QED
  BY <1>1, <1>3, <1>4, <1>5, <1>6 DEF Init, TypeOK

LEMMA LinkStepTyped ==
  ASSUME TypeOK, NEW x \in Calls, LinkStep(x)
  PROVE  TypeOK'
<1> USE DEF TypeOK
<1>1. ASSUME NEW kind \in {"invite", "reset"}, ReadForLink(x, kind) PROVE TypeOK'
  <2>1. Outstanding(kind) \in SUBSET LinkIds
    BY LinkDomain DEF Outstanding
  <2>2. [op |-> "send", kind |-> kind, seen |-> Outstanding(kind)] \in Frames
    BY <2>1 DEF Frames
  <2>3. QED
    BY <1>1, <2>2 DEF ReadForLink, Start
<1>2. CASE SendLink(x)
  <2>1. calls[x].kind \in {"invite", "reset"}
    BY <1>2, FrameOf DEF SendLink
  <2>2. LinksTyped
    BY <1>2, <2>1, LinkSent DEF SendLink
  <2>3. FramesTyped
    BY <1>2 DEF SendLink, Done, FramesTyped, Frames
  <2>4. QED
    BY <1>2, <2>2, <2>3 DEF SendLink, LinksTyped, FramesTyped
<1>3. ASSUME NEW l \in LinkIds, ReadLink(x, l) PROVE TypeOK'
  <2>1. links[l].kind \in {"invite", "reset"}
    BY <1>3, LinkDomain DEF ReadLink, LinkRows
  <2>2. [op |-> links[l].kind, link |-> l] \in Frames
    BY <2>1 DEF Frames
  <2>3. QED
    BY <1>3, <2>2 DEF ReadLink, Start
<1>4. CASE AcceptInvitation(x)
  <2>1. FramesTyped
    BY <1>4 DEF AcceptInvitation, Done, FramesTyped, Frames
  <2>2. CASE TakesInvitation(calls[x].link)
    <3>1. links' \in [DOMAIN links -> LinkRows]
      <4>1. \A l \in DOMAIN links :
              links[l] \in LinkRows /\ [links[l] EXCEPT !.state = "used"] \in LinkRows
        BY LinkDomain DEF LinkRows
      <4>2. links' = [links EXCEPT ![calls[x].link].state = "used"]
        BY <1>4, <2>2 DEF AcceptInvitation
      <4>3. links = [l \in DOMAIN links |-> links[l]]
        BY LinkDomain
      <4>4. QED
        BY <4>1, <4>2, <4>3
    <3>2. LinksTyped
      BY <3>1, LinksRewritten
    <3>3. user' \in Users /\ chosen' \in 0..MaxPasswords
      BY <1>4, <2>2, ChosenTyped DEF AcceptInvitation
    <3>4. QED
      BY <1>4, <2>1, <3>2, <3>3 DEF AcceptInvitation, LinksTyped, FramesTyped
  <2>3. CASE ~TakesInvitation(calls[x].link)
    BY <1>4, <2>1, <2>3 DEF AcceptInvitation, FramesTyped
  <2>4. QED
    BY <2>2, <2>3
<1>5. CASE CompleteReset(x)
  <2>1. FramesTyped
    BY <1>5 DEF CompleteReset, Done, FramesTyped, Frames
  <2>2. CASE TakesReset(calls[x].link)
    <3>1. links' \in [DOMAIN links -> LinkRows]
      <4> DEFINE w == Withdrawn(Outstanding("reset") \ {calls[x].link})
      <4>1. w \in [DOMAIN links -> LinkRows]
        BY WithdrawnLinks
      <4>2. \A l \in DOMAIN links : [w[l] EXCEPT !.state = "used"] \in LinkRows
        BY <4>1 DEF LinkRows
      <4>3. links' = [w EXCEPT ![calls[x].link].state = "used"]
        BY <1>5, <2>2 DEF CompleteReset
      <4> HIDE DEF w
      <4>4. QED
        BY <4>1, <4>2, <4>3
    <3>2. LinksTyped
      BY <3>1, LinksRewritten
    <3>3. user' \in Users /\ chosen' \in 0..MaxPasswords
      <4>1. user.status \in {"PENDING", "ACTIVE", "DEACTIVATED"}
        BY DEF Users
      <4>2. QED
        BY <1>5, <2>2, <4>1, ChosenTyped DEF CompleteReset
    <3>4. SessionsTyped
      BY <1>5, <2>2, EndedSessions DEF CompleteReset
    <3>5. QED
      BY <1>5, <2>1, <3>2, <3>3, <3>4 DEF CompleteReset, LinksTyped, SessionsTyped, FramesTyped
  <2>3. CASE ~TakesReset(calls[x].link)
    BY <1>5, <2>1, <2>3 DEF CompleteReset, FramesTyped
  <2>4. QED
    BY <2>2, <2>3
<1>6. QED
  BY <1>1, <1>2, <1>3, <1>4, <1>5 DEF LinkStep

LEMMA SignInStepTyped ==
  ASSUME TypeOK, NEW x \in Calls, SignInStep(x)
  PROVE  TypeOK'
<1> USE DEF TypeOK
<1>1. ASSUME NEW b \in Browsers, ReadForLogin(x, b) PROVE TypeOK'
  <2>1. user.password \in 1..MaxPasswords
    BY <1>1 DEF ReadForLogin, Users
  <2>2. [op |-> "login", browser |-> b, password |-> user.password] \in Frames
    BY <2>1 DEF Frames
  <2>3. QED
    BY <1>1, <2>2 DEF ReadForLogin, Start
<1>2. CASE ReadForGuess(x)
  <2>1. [op |-> "guess"] \in Frames
    BY DEF Frames
  <2>2. QED
    BY <1>2, <2>1 DEF ReadForGuess, Start
<1>3. CASE RecordFailedLogin(x)
  <2>1. Counted \in Nat
    BY DEF Counted, Users
  <2>2. user' \in Users
    BY <1>3, <2>1 DEF RecordFailedLogin, Users
  <2>3. FramesTyped
    BY <1>3 DEF RecordFailedLogin, Done, FramesTyped, Frames
  <2>4. QED
    BY <1>3, <2>2, <2>3 DEF RecordFailedLogin, FramesTyped
<1>4. CASE CompleteLogin(x)
  <2>1. calls[x].browser \in Browsers /\ calls[x].password \in 1..MaxPasswords
    BY <1>4, FrameOf DEF CompleteLogin
  <2>2. user' \in Users
    BY <1>4 DEF CompleteLogin, Users
  <2>3. [version |-> 1, ended |-> FALSE, password |-> calls[x].password] \in SessionRows
    BY <2>1 DEF SessionRows
  <2>4. /\ sessions \in Seq(SessionRows) /\ Len(sessions) \in Nat /\ MaxSessions \in Nat
        /\ sessions' = Append(sessions, [version |-> 1, ended |-> FALSE, password |-> calls[x].password])
        /\ Len(sessions) < MaxSessions
    BY <1>4, SessionDomain DEF CompleteLogin
  <2>5. sessions' \in Seq(SessionRows) /\ Len(sessions') <= MaxSessions
    <3>1. sessions' \in Seq(SessionRows) /\ Len(sessions') = Len(sessions) + 1
      BY <2>3, <2>4, AppendProperties
    <3>2. QED
      BY <2>4, <3>1
  <2>6. CookieOfNew \in [session : SessionIds, version : Nat]
    BY <2>4 DEF CookieOfNew, SessionIds
  <2>7. cookie' \in [Browsers -> {NoCookie} \cup [session : SessionIds, version : Nat]]
    BY <1>4, <2>6 DEF CompleteLogin
  <2>8. FramesTyped
    BY <1>4 DEF CompleteLogin, Done, FramesTyped, Frames
  <2>9. QED
    BY <1>4, <2>2, <2>5, <2>7, <2>8 DEF CompleteLogin, FramesTyped
<1>5. QED
  BY <1>1, <1>2, <1>3, <1>4 DEF SignInStep

CookiesTyped == cookie' \in [Browsers -> {NoCookie} \cup [session : SessionIds, version : Nat]]

LEMMA SessionStepTyped ==
  ASSUME TypeOK, NEW x \in Calls, SessionStep(x)
  PROVE  TypeOK'
<1> USE DEF TypeOK
<1>1. ASSUME NEW b \in Browsers, ReadForRefresh(x, b) PROVE TypeOK'
  <2>1. cookie[b] \in [session : SessionIds, version : Nat]
    BY <1>1 DEF ReadForRefresh, SessionOf, NoCookie
  <2>2. \A v \in {"denied", "reused", "good"} :
          [op |-> "refresh", browser |-> b, session |-> SessionOf(b),
           version |-> cookie[b].version, verdict |-> v] \in Frames
    BY <2>1 DEF Frames, SessionOf
  <2>3. QED
    BY <1>1, <2>2 DEF ReadForRefresh, Start
<1>2. ASSUME NEW b \in Browsers, ReadForChange(x, b) PROVE TypeOK'
  <2>1. SessionOf(b) \in SessionIds
    BY <1>2 DEF ReadForChange, SessionOf, NoCookie
  <2>2. [op |-> "change", session |-> SessionOf(b)] \in Frames
    BY <2>1 DEF Frames
  <2>3. QED
    BY <1>2, <2>2 DEF ReadForChange, Start
<1>3. CASE RefuseRefresh(x)
  <2>1. SessionsTyped
    <3>1. CASE sessions' = EndSessions({calls[x].session})
      BY <3>1, EndedSessions
    <3>2. CASE sessions' = sessions
      BY <3>2 DEF SessionsTyped
    <3>3. QED
      BY <1>3, <3>1, <3>2 DEF RefuseRefresh
  <2>2. CookiesTyped
    BY <1>3 DEF RefuseRefresh, Forget, CookiesTyped
  <2>3. FramesTyped
    BY <1>3 DEF RefuseRefresh, Done, FramesTyped, Frames
  <2>4. QED
    BY <1>3, <2>1, <2>2, <2>3 DEF RefuseRefresh, SessionsTyped, CookiesTyped, FramesTyped
<1>4. ASSUME NEW lost \in BOOLEAN, Rotate(x, lost) PROVE TypeOK'
  <2> DEFINE next == calls[x].version + 1
             s == calls[x].session
  <2>1. next \in Nat /\ s \in SessionIds
    BY <1>4, FrameOf DEF Rotate
  <2>2. SessionsTyped
    <3>1. CASE sessions' = sessions
      BY <3>1 DEF SessionsTyped
    <3>2. CASE sessions' = [sessions EXCEPT ![s].version = next]
      <4>1. \A t \in DOMAIN sessions :
              sessions[t] \in SessionRows /\ [sessions[t] EXCEPT !.version = next] \in SessionRows
        BY <2>1, SessionDomain DEF SessionRows
      <4>2. sessions = [t \in DOMAIN sessions |-> sessions[t]]
        BY SessionDomain
      <4>3. sessions' \in [DOMAIN sessions -> SessionRows]
        BY <3>2, <4>1, <4>2
      <4>4. QED
        BY <4>3, SessionsRewritten
    <3>3. QED
      BY <1>4, <3>1, <3>2 DEF Rotate
  <2>3. CookiesTyped
    <3>1. [session |-> s, version |-> next] \in [session : SessionIds, version : Nat]
      BY <2>1
    <3>2. cookie \in [Browsers -> {NoCookie} \cup [session : SessionIds, version : Nat]]
      OBVIOUS
    <3>3. \/ cookie' = cookie
          \/ cookie' = [cookie EXCEPT ![calls[x].browser] = [session |-> s, version |-> next]]
          \/ cookie' = [cookie EXCEPT ![calls[x].browser] = NoCookie]
      BY <1>4 DEF Rotate, Forget
    <3> HIDE DEF next, s
    <3>4. QED
      BY <3>1, <3>2, <3>3 DEF CookiesTyped
  <2>4. FramesTyped
    BY <1>4 DEF Rotate, Done, FramesTyped, Frames
  <2>5. QED
    BY <1>4, <2>2, <2>3, <2>4 DEF Rotate, SessionsTyped, CookiesTyped, FramesTyped
<1>5. CASE UpdatePassword(x)
  <2>1. calls[x] \in [op : {"change", "revoke"}, session : SessionIds]
    BY <1>5, FrameOf DEF UpdatePassword
  <2>2. [calls[x] EXCEPT !.op = "revoke"] \in Frames
    <3>1. [calls[x] EXCEPT !.op = "revoke"] \in [op : {"change", "revoke"}, session : SessionIds]
      BY <2>1
    <3>2. QED
      BY <3>1 DEF Frames
  <2>3. FramesTyped
    BY <1>5, <2>2 DEF UpdatePassword, FramesTyped
  <2>4. user' \in Users /\ chosen' \in 0..MaxPasswords /\ chosen + 1 \in 1..MaxPasswords
    <3>1. user.status \in {"PENDING", "ACTIVE", "DEACTIVATED"}
      BY DEF Users
    <3>2. QED
      BY <1>5, <3>1, ChosenTyped DEF UpdatePassword
  <2>5. SessionsTyped
    <3>1. \A t \in DOMAIN sessions :
            /\ sessions[t] \in SessionRows
            /\ [sessions[t] EXCEPT !.password = chosen + 1] \in SessionRows
      BY <2>4, SessionDomain DEF SessionRows
    <3>2. sessions = [t \in DOMAIN sessions |-> sessions[t]]
      BY SessionDomain
    <3>3. sessions' = [sessions EXCEPT ![calls[x].session].password = chosen + 1]
      BY <1>5 DEF UpdatePassword
    <3>4. sessions' \in [DOMAIN sessions -> SessionRows]
      BY <3>1, <3>2, <3>3
    <3>5. QED
      BY <3>4, SessionsRewritten
  <2>6. QED
    BY <1>5, <2>3, <2>4, <2>5 DEF UpdatePassword, SessionsTyped, FramesTyped
<1>6. CASE RevokeOthers(x)
  <2>1. SessionsTyped
    BY <1>6, EndedSessions DEF RevokeOthers
  <2>2. FramesTyped
    BY <1>6 DEF RevokeOthers, Done, FramesTyped, Frames
  <2>3. QED
    BY <1>6, <2>1, <2>2 DEF RevokeOthers, SessionsTyped, FramesTyped
<1>7. QED
  BY <1>1, <1>2, <1>3, <1>4, <1>5, <1>6 DEF SessionStep

LEMMA AdminTyped ==
  ASSUME TypeOK, Deactivate \/ \E x \in Calls : AdminStep(x)
  PROVE  TypeOK'
<1> USE DEF TypeOK
<1>1. CASE Deactivate
  <2>1. LinksTyped
    BY <1>1, WithdrawnLinks, LinksRewritten DEF Deactivate
  <2>2. SessionsTyped
    BY <1>1, EndedSessions DEF Deactivate
  <2>3. user' \in Users
    <3>1. user \in Users /\ user' = [user EXCEPT !.status = "DEACTIVATED"]
      BY <1>1 DEF Deactivate
    <3>2. QED
      BY <3>1 DEF Users
  <2>4. term' \in 1..MaxTerms
    <3>1. term \in 1..MaxTerms /\ term < MaxTerms /\ term' = term + 1
      BY <1>1 DEF Deactivate
    <3>2. QED
      BY <3>1, SignInAssumption DEF SignInAssumption
  <2>5. QED
    BY <1>1, <2>1, <2>2, <2>3, <2>4 DEF Deactivate, LinksTyped, SessionsTyped
<1>2. ASSUME NEW x \in Calls, ReadForInvite(x) PROVE TypeOK'
  <2>1. [op |-> "reopen"] \in Frames
    BY DEF Frames
  <2>2. QED
    BY <1>2, <2>1 DEF ReadForInvite, Start
<1>3. ASSUME NEW x \in Calls, Reopen(x) PROVE TypeOK'
  <2>1. LinksTyped
    BY <1>3, LinkSent DEF Reopen
  <2>2. user' \in Users
    BY <1>3 DEF Reopen, Reopened, Invited, Users
  <2>3. FramesTyped
    BY <1>3 DEF Reopen, Done, FramesTyped, Frames
  <2>4. QED
    BY <1>3, <2>1, <2>2, <2>3 DEF Reopen, LinksTyped, FramesTyped
<1>4. QED
  BY <1>1, <1>2, <1>3 DEF AdminStep

\* Time passing, the browser and the host.
Passing ==
  \/ \E l \in LinkIds : LinkExpires(l)
  \/ \E b \in Browsers : Logout(b)
  \/ LockLapses
  \/ Restart
  \/ UNCHANGED vars

LEMMA PassingTyped == ASSUME TypeOK, Passing PROVE TypeOK'
<1> USE DEF TypeOK
<1>1. ASSUME NEW l \in LinkIds, LinkExpires(l) PROVE TypeOK'
  <2>1. \A m \in DOMAIN links :
          links[m] \in LinkRows /\ [links[m] EXCEPT !.state = "expired"] \in LinkRows
    BY LinkDomain DEF LinkRows
  <2>2. links = [m \in DOMAIN links |-> links[m]]
    BY LinkDomain
  <2>3. links' = [links EXCEPT ![l].state = "expired"]
    BY <1>1 DEF LinkExpires
  <2>4. links' \in [DOMAIN links -> LinkRows]
    BY <2>1, <2>2, <2>3
  <2>5. QED
    BY <1>1, <2>4, LinksRewritten DEF LinkExpires, LinksTyped
<1>2. ASSUME NEW b \in Browsers, Logout(b) PROVE TypeOK'
  <2>1. SessionsTyped
    BY <1>2, EndedSessions DEF Logout
  <2>2. CookiesTyped
    BY <1>2 DEF Logout, Forget, CookiesTyped
  <2>3. QED
    BY <1>2, <2>1, <2>2 DEF Logout, SessionsTyped, CookiesTyped
<1>3. CASE LockLapses
  BY <1>3 DEF LockLapses, Users
<1>4. CASE Restart
  BY <1>4 DEF Restart, Frames
<1>5. CASE UNCHANGED vars
  BY <1>5 DEF vars
<1>6. QED
  BY <1>1, <1>2, <1>3, <1>4, <1>5 DEF Passing

LEMMA NextTypeOK == TypeOK /\ [Next]_vars => TypeOK'
BY LinkStepTyped, SignInStepTyped, SessionStepTyped, AdminTyped, PassingTyped DEF Next, Passing

\* The account, its links, sessions and cookies, and the requests in flight keep their
\* shapes for any number of each.
THEOREM SignInTypes == Spec => []TypeOK
<1>1. QED
  BY InitTypeOK, NextTypeOK, PTL DEF Spec

-----------------------------------------------------------------------------
(* The account's row.                                                      *)

\* Every step leaves the row's password and lock as they are, or writes them so
\* that neither invariant breaks.
RowInv == LimitHolds /\ ActiveHasPassword

LEMMA NextRow == TypeOK /\ RowInv /\ [Next]_vars => RowInv'
<1> SUFFICES ASSUME TypeOK, RowInv, [Next]_vars PROVE RowInv'
  OBVIOUS
<1>0. /\ user \in Users /\ chosen \in Nat /\ MaxFailures \in Nat \ {0}
      /\ (user.failures >= MaxFailures => user.lock # "open")
      /\ (user.status = "ACTIVE" => user.password # 0)
  BY DEF TypeOK, RowInv, LimitHolds, ActiveHasPassword
<1>1. ASSUME UNCHANGED user PROVE RowInv'
  BY <1>1 DEF RowInv, LimitHolds, ActiveHasPassword
<1>2. ASSUME NEW status, user' = WithPassword(status) PROVE RowInv'
  BY <1>0, <1>2 DEF WithPassword, RowInv, LimitHolds, ActiveHasPassword
<1>3. ASSUME NEW x \in Calls, LinkStep(x) PROVE RowInv'
  BY <1>1, <1>2, <1>3
     DEF LinkStep, ReadForLink, SendLink, ReadLink, AcceptInvitation, CompleteReset
<1>4. ASSUME NEW x \in Calls, SignInStep(x) PROVE RowInv'
  <2>1. CASE RecordFailedLogin(x)
    BY <1>0, <2>1 DEF RecordFailedLogin, LocksAt, Users, RowInv, LimitHolds, ActiveHasPassword
  <2>2. CASE CompleteLogin(x)
    BY <1>0, <2>2 DEF CompleteLogin, Users, RowInv, LimitHolds, ActiveHasPassword
  <2>3. QED
    BY <1>1, <1>4, <2>1, <2>2 DEF SignInStep, ReadForLogin, ReadForGuess
<1>5. ASSUME NEW x \in Calls, SessionStep(x) PROVE RowInv'
  BY <1>1, <1>2, <1>5
     DEF SessionStep, ReadForRefresh, ReadForChange, RefuseRefresh, Rotate, UpdatePassword, RevokeOthers
<1>6. ASSUME NEW x \in Calls, AdminStep(x) PROVE RowInv'
  <2>1. CASE Reopen(x)
    BY <1>0, <2>1 DEF Reopen, Reopened, Invited, RowInv, LimitHolds, ActiveHasPassword
  <2>2. QED
    BY <1>1, <1>6, <2>1 DEF AdminStep, ReadForInvite
<1>7. CASE Deactivate
  BY <1>0, <1>7 DEF Deactivate, Users, RowInv, LimitHolds, ActiveHasPassword
<1>8. CASE LockLapses
  BY <1>0, <1>8 DEF LockLapses, Users, RowInv, LimitHolds, ActiveHasPassword
<1>9. CASE Restart \/ (\E l \in LinkIds : LinkExpires(l)) \/ (\E b \in Browsers : Logout(b))
  BY <1>1, <1>9 DEF Restart, LinkExpires, Logout
<1>10. CASE UNCHANGED vars
  BY <1>1, <1>10 DEF vars
<1>11. QED
  BY <1>3, <1>4, <1>5, <1>6, <1>7, <1>8, <1>9, <1>10 DEF Next

LEMMA InitRow == Init => RowInv
BY DEF Init, Invited, RowInv, LimitHolds, ActiveHasPassword

\* However many guesses are verified at once, the account is locked while its count
\* is at the limit.
THEOREM LockHolds == Spec => []LimitHolds
<1>1. RowInv => LimitHolds
  BY DEF RowInv
<1>2. QED
  BY <1>1, InitRow, NextRow, SignInTypes, PTL DEF Spec

\* An active account has a chosen password, however invitations, resets and
\* acceptances overlap.
THEOREM ActiveCanSignIn == Spec => []ActiveHasPassword
<1>1. RowInv => ActiveHasPassword
  BY DEF RowInv
<1>2. QED
  BY <1>1, InitRow, NextRow, SignInTypes, PTL DEF Spec

-----------------------------------------------------------------------------
(* Links.  Deactivation withdraws every invitation that could still be      *)
(* used, so one that is live was sent since; a frame keeps to its link.     *)

LiveInvitesCurrent ==
  \A l \in DOMAIN links :
    links[l].kind = "invite" /\ links[l].state = "live" => links[l].term = term

FramesKnowTheirLink ==
  \A x \in Calls : calls[x].op \in {"invite", "reset"} =>
    calls[x].link \in DOMAIN links /\ links[calls[x].link].kind = calls[x].op

LinkInv == LiveInvitesCurrent /\ FramesKnowTheirLink

\* Links are only added, and stay of one kind.
LinksKept ==
  /\ DOMAIN links \subseteq DOMAIN links'
  /\ \A l \in DOMAIN links : links'[l].kind = links[l].kind

\* No request takes up a link in this step.
NoneTaken ==
  \A x \in Calls : calls'[x].op \in {"invite", "reset"} => calls'[x] = calls[x]

LEMMA FramesKeepTheirLink ==
  ASSUME FramesKnowTheirLink, LinksKept, NoneTaken
  PROVE  FramesKnowTheirLink'
BY DEF FramesKnowTheirLink, LinksKept, NoneTaken

LEMMA NoneTakenByFinishing ==
  ASSUME TypeOK, NEW x \in Calls,
         NEW f, f.op \notin {"invite", "reset"}, calls' = [calls EXCEPT ![x] = f]
  PROVE  NoneTaken
BY DEF NoneTaken, TypeOK

\* Links rewritten in place, with none becoming live.
NoneRevived ==
  /\ DOMAIN links' = DOMAIN links
  /\ \A l \in DOMAIN links :
       /\ links'[l].kind = links[l].kind /\ links'[l].term = links[l].term
       /\ links'[l].state = "live" => links[l].state = "live"

LEMMA StaysCurrent ==
  ASSUME LinkInv, NoneRevived, NoneTaken, term' = term
  PROVE  LinkInv'
<1>1. LinksKept
  BY DEF NoneRevived, LinksKept
<1>2. LiveInvitesCurrent'
  BY DEF LinkInv, LiveInvitesCurrent, NoneRevived
<1>3. QED
  BY <1>1, <1>2, FramesKeepTheirLink DEF LinkInv

LEMMA LinkStepKeepsLinks ==
  ASSUME TypeOK, LinkInv, NEW x \in Calls, LinkStep(x)
  PROVE  LinkInv'
<1>0. calls \in [Calls -> Frames]
  BY DEF TypeOK
<1>1. ASSUME NEW kind \in {"invite", "reset"}, ReadForLink(x, kind) PROVE LinkInv'
  <2>1. NoneTaken
    BY <1>0, <1>1 DEF ReadForLink, Start, NoneTaken
  <2>2. NoneRevived /\ term' = term
    BY <1>1 DEF ReadForLink, NoneRevived
  <2>3. QED
    BY <2>1, <2>2, StaysCurrent
<1>2. CASE SendLink(x)
  <2>1. /\ calls[x].kind \in {"invite", "reset"}
        /\ Len(links) < MaxLinks
        /\ links' = Append(Withdrawn(calls[x].seen), NewLink(calls[x].kind))
    BY <1>0, <1>2, FrameOf DEF SendLink
  <2>2. /\ DOMAIN links' = 1..(Len(links) + 1)
        /\ \A l \in DOMAIN links : links'[l] = Withdrawn(calls[x].seen)[l]
        /\ links'[Len(links) + 1] = NewLink(calls[x].kind)
    BY <2>1, LinkSent
  <2>3. LinksKept
    BY <2>2, LinkDomain, WithdrawnLinks DEF LinksKept
  <2>4. NoneTaken
    BY <1>0, <1>2 DEF SendLink, Done, Idle, NoneTaken
  <2>5. ASSUME NEW l \in DOMAIN links', links'[l].kind = "invite", links'[l].state = "live"
        PROVE  links'[l].term = term'
    <3>1. CASE l \in DOMAIN links
      BY <2>2, <2>5, <3>1, <1>2, WithdrawnLinks DEF SendLink, LinkInv, LiveInvitesCurrent
    <3>2. CASE l = Len(links) + 1
      BY <2>2, <3>2, <1>2 DEF SendLink, NewLink
    <3>3. QED
      BY <2>2, <3>1, <3>2, LinkDomain
  <2>6. QED
    BY <2>3, <2>4, <2>5, FramesKeepTheirLink DEF LinkInv, LiveInvitesCurrent
<1>3. ASSUME NEW l \in LinkIds, ReadLink(x, l) PROVE LinkInv'
  <2>1. FramesKnowTheirLink'
    BY <1>0, <1>3 DEF ReadLink, Start, LinkInv, FramesKnowTheirLink
  <2>2. QED
    BY <1>3, <2>1 DEF ReadLink, LinkInv, LiveInvitesCurrent
<1>4. CASE AcceptInvitation(x)
  <2>1. NoneTaken
    BY <1>0, <1>4 DEF AcceptInvitation, Done, Idle, NoneTaken
  <2>2. NoneRevived
    BY <1>4, LinkDomain DEF AcceptInvitation, NoneRevived, LinkRows
  <2>3. QED
    BY <1>4, <2>1, <2>2, StaysCurrent DEF AcceptInvitation
<1>5. CASE CompleteReset(x)
  <2>1. NoneTaken
    BY <1>0, <1>5 DEF CompleteReset, Done, Idle, NoneTaken
  <2>2. NoneRevived
    <3>1. CASE UNCHANGED links
      BY <3>1 DEF NoneRevived
    <3>2. CASE links' = [Withdrawn(Outstanding("reset") \ {calls[x].link})
                           EXCEPT ![calls[x].link].state = "used"]
      BY <3>2, WithdrawnLinks DEF NoneRevived, LinkRows
    <3>3. QED
      BY <1>5, <3>1, <3>2 DEF CompleteReset
  <2>3. QED
    BY <1>5, <2>1, <2>2, StaysCurrent DEF CompleteReset
<1>6. QED
  BY <1>1, <1>2, <1>3, <1>4, <1>5 DEF LinkStep

\* What neither sends nor spends a link.
LEMMA OtherStepsKeepLinks ==
  ASSUME TypeOK, LinkInv,
         (\E x \in Calls : SignInStep(x) \/ SessionStep(x)) \/ Passing
  PROVE  LinkInv'
<1>0. calls \in [Calls -> Frames]
  BY DEF TypeOK
<1>1. ASSUME NEW x \in Calls, SignInStep(x) PROVE LinkInv'
  <2>1. NoneTaken
    BY <1>0, <1>1 DEF SignInStep, ReadForLogin, ReadForGuess, RecordFailedLogin, CompleteLogin,
                      Start, Done, Idle, NoneTaken
  <2>2. UNCHANGED <<links, term>>
    BY <1>1 DEF SignInStep, ReadForLogin, ReadForGuess, RecordFailedLogin, CompleteLogin
  <2>3. QED
    BY <2>1, <2>2, StaysCurrent DEF NoneRevived
<1>2. ASSUME NEW x \in Calls, SessionStep(x) PROVE LinkInv'
  <2>1. CASE UpdatePassword(x)
    <3>1. calls[x] \in [op : {"change", "revoke"}, session : SessionIds]
      BY <1>0, <2>1, FrameOf DEF UpdatePassword
    <3>2. NoneTaken
      BY <1>0, <2>1, <3>1 DEF UpdatePassword, NoneTaken
    <3>3. QED
      BY <2>1, <3>2, StaysCurrent DEF UpdatePassword, NoneRevived
  <2>2. CASE ~UpdatePassword(x)
    <3>1. NoneTaken
      BY <1>0, <1>2, <2>2 DEF SessionStep, ReadForRefresh, ReadForChange, RefuseRefresh, Rotate,
                             RevokeOthers, Start, Done, Idle, NoneTaken
    <3>2. UNCHANGED <<links, term>>
      BY <1>2, <2>2 DEF SessionStep, ReadForRefresh, ReadForChange, RefuseRefresh, Rotate, RevokeOthers
    <3>3. QED
      BY <3>1, <3>2, StaysCurrent DEF NoneRevived
  <2>3. QED
    BY <2>1, <2>2
<1>3. ASSUME NEW l \in LinkIds, LinkExpires(l) PROVE LinkInv'
  <2>1. NoneRevived
    BY <1>3, LinkDomain DEF LinkExpires, NoneRevived, LinkRows
  <2>2. QED
    BY <1>3, <2>1, StaysCurrent DEF LinkExpires, NoneTaken
<1>4. CASE Restart
  BY <1>4, StaysCurrent DEF Restart, Idle, NoneTaken, NoneRevived
<1>5. CASE LockLapses \/ (\E b \in Browsers : Logout(b)) \/ UNCHANGED vars
  BY <1>5, StaysCurrent DEF LockLapses, Logout, vars, NoneTaken, NoneRevived
<1>6. QED
  BY <1>1, <1>2, <1>3, <1>4, <1>5 DEF Passing

LEMMA AdminKeepsLinks ==
  ASSUME TypeOK, LinkInv, Deactivate \/ \E x \in Calls : AdminStep(x)
  PROVE  LinkInv'
<1>0. calls \in [Calls -> Frames]
  BY DEF TypeOK
<1>1. \A l \in DOMAIN links :
        links[l].kind = "invite" => Withdrawn(Outstanding("invite"))[l].state # "live"
  BY LinkDomain, WithdrawnLinks DEF Outstanding, LinkRows
<1>2. CASE Deactivate
  <2>1. DOMAIN links' = DOMAIN links /\ LinksKept
    BY <1>2, WithdrawnLinks DEF Deactivate, LinksKept
  <2>2. LiveInvitesCurrent'
    BY <1>1, <1>2, <2>1 DEF Deactivate, LiveInvitesCurrent, LinksKept
  <2>3. QED
    BY <1>2, <2>1, <2>2, FramesKeepTheirLink DEF Deactivate, NoneTaken, LinkInv
<1>3. ASSUME NEW x \in Calls, ReadForInvite(x) PROVE LinkInv'
  <2>1. NoneTaken
    BY <1>0, <1>3 DEF ReadForInvite, Start, NoneTaken
  <2>2. QED
    BY <1>3, <2>1, StaysCurrent DEF ReadForInvite, NoneRevived
<1>4. ASSUME NEW x \in Calls, Reopen(x) PROVE LinkInv'
  <2>1. /\ DOMAIN links' = 1..(Len(links) + 1)
        /\ \A l \in DOMAIN links : links'[l] = Withdrawn(Outstanding("invite"))[l]
        /\ links'[Len(links) + 1] = NewLink("invite")
    BY <1>4, LinkSent DEF Reopen
  <2>2. LinksKept
    BY <2>1, LinkDomain, WithdrawnLinks DEF LinksKept
  <2>3. NoneTaken
    BY <1>0, <1>4 DEF Reopen, Done, Idle, NoneTaken
  <2>4. ASSUME NEW l \in DOMAIN links', links'[l].kind = "invite", links'[l].state = "live"
        PROVE  links'[l].term = term'
    <3>1. l \notin DOMAIN links
      BY <1>1, <2>1, <2>4, WithdrawnLinks
    <3>2. l = Len(links) + 1
      BY <2>1, <3>1, LinkDomain
    <3>3. QED
      BY <1>4, <2>1, <3>2 DEF Reopen, NewLink
  <2>5. QED
    BY <2>2, <2>3, <2>4, FramesKeepTheirLink DEF LinkInv, LiveInvitesCurrent
<1>5. QED
  BY <1>2, <1>3, <1>4 DEF AdminStep

LEMMA LinkInvariant == Spec => []LinkInv
<1>1. Init => LinkInv
  BY DEF Init, Idle, LinkInv, LiveInvitesCurrent, FramesKnowTheirLink
<1>2. TypeOK /\ LinkInv /\ [Next]_vars => LinkInv'
  BY LinkStepKeepsLinks, OtherStepsKeepLinks, AdminKeepsLinks DEF Next, Passing
<1>3. QED
  BY <1>1, <1>2, SignInTypes, PTL DEF Spec

\* How the row may change.
LEMMA RowChanges ==
  ASSUME TypeOK, Next
  PROVE  \/ user' \in {user, Invited}
         \/ user'.password = user.password /\ user'.status \in {user.status, "DEACTIVATED"}
         \/ \E x \in Calls : AcceptInvitation(x)
         \/ /\ \E x \in Calls : CompleteReset(x) \/ UpdatePassword(x)
            /\ user' = WithPassword(user.status)
<1>0. user \in Users
  BY DEF TypeOK
<1>1. ASSUME NEW x \in Calls, LinkStep(x), ~AcceptInvitation(x)
      PROVE  user' = user \/ (CompleteReset(x) /\ user' = WithPassword(user.status))
  BY <1>1 DEF LinkStep, ReadForLink, SendLink, ReadLink, CompleteReset
<1>2. ASSUME NEW x \in Calls, SignInStep(x)
      PROVE  user'.password = user.password /\ user'.status = user.status
  <2>1. CASE RecordFailedLogin(x) \/ CompleteLogin(x)
    BY <1>0, <2>1 DEF RecordFailedLogin, CompleteLogin, Users
  <2>2. QED
    BY <1>2, <2>1 DEF SignInStep, ReadForLogin, ReadForGuess
<1>3. ASSUME NEW x \in Calls, SessionStep(x)
      PROVE  user' = user \/ (UpdatePassword(x) /\ user' = WithPassword(user.status))
  BY <1>3 DEF SessionStep, ReadForRefresh, ReadForChange, RefuseRefresh, Rotate, UpdatePassword, RevokeOthers
<1>4. ASSUME NEW x \in Calls, AdminStep(x) PROVE user' \in {user, Invited}
  BY <1>4 DEF AdminStep, ReadForInvite, Reopen, Reopened
<1>5. ASSUME Deactivate \/ LockLapses
      PROVE  user'.password = user.password /\ user'.status \in {user.status, "DEACTIVATED"}
  BY <1>0, <1>5 DEF Deactivate, LockLapses, Users
<1>6. ASSUME Restart \/ (\E l \in LinkIds : LinkExpires(l)) \/ (\E b \in Browsers : Logout(b))
      PROVE  user' = user
  BY <1>6 DEF Restart, LinkExpires, Logout
<1>7. QED
  BY <1>1, <1>2, <1>3, <1>4, <1>5, <1>6 DEF Next

\* A deactivated account is active again only by an invitation sent since, whatever
\* acceptance was still hashing its password and whatever links were out.
THEOREM ReturnsInvited == Spec => NobodyReturnsUninvited
<1> DEFINE Invitation ==
      user.status # "ACTIVE" /\ user'.status = "ACTIVE" =>
        \E l \in DOMAIN links :
          /\ links[l].kind = "invite" /\ links[l].term = term
          /\ links[l].state # "used" /\ links'[l].state = "used"
<1>1. ASSUME TypeOK, LinkInv, Next PROVE Invitation
  <2>0. user \in Users
    BY <1>1 DEF TypeOK
  <2>1. ASSUME NEW x \in Calls, AcceptInvitation(x) PROVE Invitation
    <3> DEFINE l == calls[x].link
    <3>1. l \in DOMAIN links /\ links[l].kind = "invite"
      BY <1>1, <2>1 DEF AcceptInvitation, LinkInv, FramesKnowTheirLink
    <3>2. CASE TakesInvitation(l)
      <4>1. links[l].term = term /\ links[l].state = "live"
        BY <1>1, <3>1, <3>2 DEF TakesInvitation, LinkInv, LiveInvitesCurrent
      <4>2. links' = [links EXCEPT ![l].state = "used"]
        BY <2>1, <3>2 DEF AcceptInvitation
      <4>3. "state" \in DOMAIN links[l]
        BY <1>1, <3>1, LinkDomain DEF LinkRows
      <4> HIDE DEF l
      <4>4. links'[l].state = "used"
        BY <3>1, <4>2, <4>3
      <4>5. QED
        BY <3>1, <4>1, <4>4
    <3>3. CASE ~TakesInvitation(l)
      BY <2>1, <3>3 DEF AcceptInvitation
    <3>4. QED
      BY <3>2, <3>3
  <2>2. CASE ~(\E x \in Calls : AcceptInvitation(x))
    <3>1. user'.status \in {user.status, "PENDING", "DEACTIVATED"}
      BY <1>1, <2>0, <2>2, RowChanges DEF WithPassword, Invited, Users
    <3>2. QED
      BY <3>1
  <2>3. QED
    BY <2>1, <2>2
<1>2. TypeOK /\ LinkInv /\ [Next]_vars => [Invitation]_vars
  BY <1>1
<1>3. QED
  BY <1>2, SignInTypes, LinkInvariant, PTL DEF Spec, NobodyReturnsUninvited

\* Every new password is paid for with a link that is spent in the same step, or set
\* by its holder from a session.
THEOREM PasswordsPaidFor == Spec => OnePasswordPerLink
<1> DEFINE Paid ==
      user'.password \notin {0, user.password} =>
        \/ \E l \in DOMAIN links : links[l].state \in {"live", "expired"} /\ links'[l].state = "used"
        \/ \E x \in Calls : calls[x].op = "change" /\ calls'[x].op = "revoke"
<1>1. ASSUME TypeOK, LinkInv, Next PROVE Paid
  <2>0. user \in Users /\ calls \in [Calls -> Frames]
    BY <1>1 DEF TypeOK
  <2>1. ASSUME NEW x \in Calls, AcceptInvitation(x) \/ CompleteReset(x) PROVE Paid
    <3> DEFINE l == calls[x].link
    <3>1. l \in DOMAIN links
      BY <1>1, <2>1 DEF AcceptInvitation, CompleteReset, LinkInv, FramesKnowTheirLink
    <3>2. CASE AcceptInvitation(x) /\ TakesInvitation(l)
      <4>1. links' = [links EXCEPT ![l].state = "used"]
        BY <3>2 DEF AcceptInvitation
      <4>2. "state" \in DOMAIN links[l]
        BY <1>1, <3>1, LinkDomain DEF LinkRows
      <4>3. links[l].state = "live"
        BY <3>2 DEF TakesInvitation
      <4> HIDE DEF l
      <4>4. QED
        BY <3>1, <4>1, <4>2, <4>3
    <3>3. CASE CompleteReset(x) /\ TakesReset(l)
      <4>1. links'[l].state = "used"
        BY <1>1, <3>1, <3>3, WithdrawnLinks DEF CompleteReset, LinkRows
      <4>2. QED
        BY <3>1, <3>3, <4>1 DEF TakesReset
    <3>4. QED
      BY <2>1, <3>2, <3>3 DEF AcceptInvitation, CompleteReset
  <2>2. ASSUME NEW x \in Calls, UpdatePassword(x) PROVE Paid
    <3>1. calls[x] \in [op : {"change", "revoke"}, session : SessionIds]
      BY <2>0, <2>2, FrameOf DEF UpdatePassword
    <3>2. calls[x].op = "change" /\ calls'[x].op = "revoke"
      BY <2>0, <2>2, <3>1 DEF UpdatePassword
    <3>3. QED
      BY <3>2
  <2>3. CASE ~(\E x \in Calls : AcceptInvitation(x) \/ CompleteReset(x) \/ UpdatePassword(x))
    <3>1. user'.password \in {0, user.password}
      BY <1>1, <2>0, <2>3, RowChanges DEF Invited, Users
    <3>2. QED
      BY <3>1
  <2>4. QED
    BY <2>1, <2>2, <2>3
<1>2. TypeOK /\ LinkInv /\ [Next]_vars => [Paid]_vars
  BY <1>1
<1>3. QED
  BY <1>2, SignInTypes, LinkInvariant, PTL DEF Spec, OnePasswordPerLink

=============================================================================
