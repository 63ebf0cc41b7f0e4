------------------------------- MODULE SignIn -------------------------------
(***************************************************************************)
(* One invited officer's account: the emailed links that set its password, *)
(* the sign-ins and sessions, refresh tokens, the lock after wrong         *)
(* passwords, and an administrator who takes access away and gives it back.*)
(* src/modules/auth/auth.login.*, auth.password.*, auth.invitation.*,      *)
(* auth.session.*                                                          *)
(*                                                                         *)
(* Every request reads rows, hashes or verifies for a while, and writes    *)
(* later: a frame in calls holds what it read.  Passwords are numbered in  *)
(* the order they are chosen, refresh tokens by session and rotation.      *)
(***************************************************************************)
EXTENDS Naturals, Sequences

CONSTANTS
  Role,           \* the officer's role
  Browsers,       \* the officer's browsers, each with one pair of cookies
  Calls,          \* slots for requests running at the same time
  Requests,       \* the requests made, the sign-in and the links apart
  MaxFailures,    \* LOGIN_MAX_FAILED_ATTEMPTS
  MaxPasswords, MaxSessions, MaxRefreshes, MaxLinks, MaxTerms  \* bounds of the model

ASSUME SignInAssumption ==
  /\ Role \in {"ADMIN", "MANAGEMENT", "DEPARTMENT", "QA"}
  /\ MaxFailures \in Nat \ {0}
  /\ {MaxPasswords, MaxSessions, MaxRefreshes, MaxLinks, MaxTerms} \subseteq Nat \ {0}
  /\ Requests \subseteq {"guess", "refresh", "logout", "forgot", "change", "deactivate", "resend"}

VARIABLES
  user,      \* the users row: status, password, failures, lock
  links,     \* account_invitations and password_reset_tokens, in the order they were sent
  sessions,  \* auth_sessions, and the password each one was opened with
  cookie,    \* the refresh token each browser holds
  calls,     \* requests in flight
  chosen,    \* how many passwords were ever chosen
  term       \* how often access was given: the number of deactivations and one

vars == <<user, links, sessions, cookie, calls, chosen, term>>

LinkIds == 1..MaxLinks
SessionIds == 1..MaxSessions
NoCookie == [session |-> 0, version |-> 0]
Idle == [op |-> "idle"]

Invited == [status |-> "PENDING", password |-> 0, failures |-> 0, lock |-> "open"]
NewLink(kind) == [kind |-> kind, state |-> "live", term |-> term]

\* createInvitedAccount has committed.
Init ==
  /\ user = Invited
  /\ term = 1
  /\ links = <<[kind |-> "invite", state |-> "live", term |-> 1]>>
  /\ sessions = << >>
  /\ cookie = [b \in Browsers |-> NoCookie]
  /\ calls = [x \in Calls |-> Idle]
  /\ chosen = 0

Start(x, frame) == calls[x] = Idle /\ calls' = [calls EXCEPT ![x] = frame]
Done(x) == calls' = [calls EXCEPT ![x] = Idle]

\* A password somebody chose: the count of failures and the lock go with the old one.
WithPassword(status) ==
  [status |-> status, password |-> chosen + 1, failures |-> 0, lock |-> "open"]

-----------------------------------------------------------------------------
(* Links.                                                                  *)

Outstanding(kind) ==
  {l \in DOMAIN links : links[l].kind = kind /\ links[l].state \in {"live", "expired"}}

\* Links that were neither used nor withdrawn are withdrawn.
Withdrawn(ids) ==
  [l \in DOMAIN links |-> IF l \in ids /\ links[l].state # "used"
                          THEN [links[l] EXCEPT !.state = "dead"] ELSE links[l]]

\* OFFICER_INVITE_TTL_HOURS or PASSWORD_RESET_TTL_MINUTES have passed.
LinkExpires(l) ==
  /\ l \in DOMAIN links /\ links[l].state = "live"
  /\ links' = [links EXCEPT ![l].state = "expired"]
  /\ UNCHANGED <<user, sessions, cookie, calls, chosen, term>>

\* resend and requestPasswordReset: the statement that withdraws earlier links
\* does not see those another request is just inserting.
ReadForLink(x, kind) ==
  /\ IF kind = "invite" THEN "resend" \in Requests /\ user.status = "PENDING"
                        ELSE "forgot" \in Requests /\ user.status # "DEACTIVATED"
  /\ Start(x, [op |-> "send", kind |-> kind, seen |-> Outstanding(kind)])
  /\ UNCHANGED <<user, links, sessions, cookie, chosen, term>>

\* issueInvitation, issueResetToken
SendLink(x) ==
  /\ calls[x].op = "send"
  /\ Len(links) < MaxLinks
  /\ links' = Append(Withdrawn(calls[x].seen), NewLink(calls[x].kind))
  /\ Done(x)
  /\ UNCHANGED <<user, sessions, cookie, chosen, term>>

\* usableInvitation and the checks of resetPassword
ReadLink(x, l) ==
  /\ l \in DOMAIN links /\ links[l].state = "live"
  /\ IF links[l].kind = "invite" THEN user.status = "PENDING" ELSE user.status # "DEACTIVATED"
  /\ Start(x, [op |-> links[l].kind, link |-> l])
  /\ UNCHANGED <<user, links, sessions, cookie, chosen, term>>

\* Mutant: a link withdrawn while the password was hashed is taken.
TakesAnyUnused(l) == links[l].state # "used"

\* The UPDATE that consumes an invitation.
TakesInvitation(l) == links[l].state = "live"

\* acceptInvitation
AcceptInvitation(x) ==
  /\ calls[x].op = "invite"
  /\ chosen < MaxPasswords
  /\ LET l == calls[x].link IN
       IF TakesInvitation(l)
       THEN /\ links' = [links EXCEPT ![l].state = "used"]
            /\ user' = IF user.status = "PENDING" THEN WithPassword("ACTIVE") ELSE user
            /\ chosen' = chosen + 1
       ELSE UNCHANGED <<links, user, chosen>>
  /\ Done(x)
  /\ UNCHANGED <<sessions, cookie, term>>

\* Mutant: consumed_at is not looked at again.
TakesResetAgain(l) == links[l].state # "dead"

\* The UPDATE that consumes a reset token: whether it has expired by now is not asked.
TakesReset(l) == links[l].state \in {"live", "expired"}

EndSessions(ids) ==
  [s \in DOMAIN sessions |-> IF s \in ids THEN [sessions[s] EXCEPT !.ended = TRUE] ELSE sessions[s]]

\* completeReset
CompleteReset(x) ==
  /\ calls[x].op = "reset"
  /\ chosen < MaxPasswords
  /\ LET l == calls[x].link IN
       IF TakesReset(l)
       THEN /\ links' = [Withdrawn(Outstanding("reset") \ {l}) EXCEPT ![l].state = "used"]
            /\ user' = WithPassword(user.status)
            /\ sessions' = EndSessions(DOMAIN sessions)
            /\ chosen' = chosen + 1
       ELSE UNCHANGED <<links, user, sessions, chosen>>
  /\ Done(x)
  /\ UNCHANGED <<cookie, term>>

-----------------------------------------------------------------------------
(* Signing in.                                                             *)

\* loginAccount up to verifyPassword, which goes by the row read here.
ReadForLogin(x, b) ==
  /\ user.lock # "locked"
  /\ user.status = "ACTIVE" /\ user.password # 0
  /\ Start(x, [op |-> "login", browser |-> b, password |-> user.password])
  /\ UNCHANGED <<user, links, sessions, cookie, chosen, term>>

\* The same with a wrong password.
ReadForGuess(x) ==
  /\ "guess" \in Requests
  /\ user.lock # "locked"
  /\ Start(x, [op |-> "guess"])
  /\ UNCHANGED <<user, links, sessions, cookie, chosen, term>>

Counted == IF user.lock = "lapsed" THEN 1 ELSE user.failures + 1

\* Mutant: the account locks at the limit, not from it on.
LocksAtLimit(n) == n = MaxFailures

LocksAt(n) == n >= MaxFailures

\* recordFailedLogin
RecordFailedLogin(x) ==
  /\ calls[x].op = "guess"
  /\ user' = [user EXCEPT !.failures = Counted,
                          !.lock = IF LocksAt(Counted) THEN "locked" ELSE "open"]
  /\ Done(x)
  /\ UNCHANGED <<links, sessions, cookie, chosen, term>>

\* LOGIN_LOCKOUT_MINUTES have passed.
LockLapses ==
  /\ user.lock = "locked"
  /\ user' = [user EXCEPT !.lock = "lapsed"]
  /\ UNCHANGED <<links, sessions, cookie, calls, chosen, term>>

CookieOfNew == [session |-> Len(sessions) + 1, version |-> 1]

\* completeLogin
CompleteLogin(x) ==
  /\ calls[x].op = "login"
  /\ Len(sessions) < MaxSessions
  /\ user' = [user EXCEPT !.failures = 0, !.lock = "open"]
  /\ sessions' = Append(sessions, [version |-> 1, ended |-> FALSE,
                                   password |-> calls[x].password])
  /\ cookie' = [cookie EXCEPT ![calls[x].browser] = CookieOfNew]
  /\ Done(x)
  /\ UNCHANGED <<links, chosen, term>>

-----------------------------------------------------------------------------
(* Sessions.                                                               *)

SessionOf(b) == cookie[b].session
Forget(b) == cookie' = [cookie EXCEPT ![b] = NoCookie]

\* Roles refreshSession finds an account for: it leaves out session.qa, and refuses a QA officer.
HasAccount == Role # "QA"

\* findSession: the session with its owner, as refreshSession reads it.
ReadForRefresh(x, b) ==
  /\ "refresh" \in Requests
  /\ SessionOf(b) # 0
  /\ LET row == sessions[SessionOf(b)] IN
       Start(x, [op |-> "refresh", browser |-> b, session |-> SessionOf(b),
                 version |-> cookie[b].version,
                 verdict |-> IF row.ended \/ user.status # "ACTIVE" \/ ~HasAccount THEN "denied"
                             ELSE IF row.version # cookie[b].version THEN "reused" ELSE "good"])
  /\ UNCHANGED <<user, links, sessions, cookie, chosen, term>>

\* The row was no good: the 401 clears whatever the browser holds by now.
RefuseRefresh(x) ==
  /\ calls[x].op = "refresh" /\ calls[x].verdict # "good"
  /\ sessions' = IF calls[x].verdict = "reused" THEN EndSessions({calls[x].session}) ELSE sessions
  /\ Forget(calls[x].browser)
  /\ Done(x)
  /\ UNCHANGED <<user, links, chosen, term>>

\* rotateRefreshHash, by its old hash: the slower of two is refused.  The answer may be lost.
Rotate(x, lost) ==
  /\ calls[x].op = "refresh" /\ calls[x].verdict = "good"
  /\ LET s == calls[x].session
         b == calls[x].browser
         next == calls[x].version + 1 IN
       IF ~sessions[s].ended /\ sessions[s].version = calls[x].version
       THEN /\ next <= MaxRefreshes + 1
            /\ sessions' = [sessions EXCEPT ![s].version = next]
            /\ IF lost THEN UNCHANGED cookie
               ELSE cookie' = [cookie EXCEPT ![b] = [session |-> s, version |-> next]]
       ELSE Forget(b) /\ UNCHANGED sessions
  /\ Done(x)
  /\ UNCHANGED <<user, links, chosen, term>>

\* logout
Logout(b) ==
  /\ "logout" \in Requests
  /\ SessionOf(b) # 0
  /\ sessions' = EndSessions({SessionOf(b)})
  /\ Forget(b)
  /\ UNCHANGED <<user, links, calls, chosen, term>>

\* requireAuth, and changePassword up to its write: the current password was right.
ReadForChange(x, b) ==
  /\ "change" \in Requests
  /\ SessionOf(b) # 0 /\ ~sessions[SessionOf(b)].ended /\ user.status = "ACTIVE"
  /\ Start(x, [op |-> "change", session |-> SessionOf(b)])
  /\ UNCHANGED <<user, links, sessions, cookie, chosen, term>>

\* updatePassword, by id
UpdatePassword(x) ==
  /\ calls[x].op = "change"
  /\ chosen < MaxPasswords
  /\ user' = WithPassword(user.status)
  /\ chosen' = chosen + 1
  /\ sessions' = [sessions EXCEPT ![calls[x].session].password = chosen + 1]
  /\ calls' = [calls EXCEPT ![x].op = "revoke"]
  /\ UNCHANGED <<links, cookie, term>>

\* revokeOtherSessions, a statement of its own
RevokeOthers(x) ==
  /\ calls[x].op = "revoke"
  /\ sessions' = EndSessions(DOMAIN sessions \ {calls[x].session})
  /\ Done(x)
  /\ UNCHANGED <<user, links, cookie, chosen, term>>

-----------------------------------------------------------------------------
(* The administrator.                                                      *)

\* deactivateAccount
Deactivate ==
  /\ "deactivate" \in Requests
  /\ user.status # "DEACTIVATED"
  /\ term < MaxTerms
  /\ user' = [user EXCEPT !.status = "DEACTIVATED"]
  /\ links' = Withdrawn(Outstanding("invite"))
  /\ sessions' = EndSessions(DOMAIN sessions)
  /\ term' = term + 1
  /\ UNCHANGED <<cookie, calls, chosen>>

\* invite, which finds the account deactivated.
ReadForInvite(x) ==
  /\ user.status = "DEACTIVATED"
  /\ Start(x, [op |-> "reopen"])
  /\ UNCHANGED <<user, links, sessions, cookie, chosen, term>>

Reopened == Invited

\* reopenInvitedAccount and issueInvitation, whatever the status is by now.
Reopen(x) ==
  /\ calls[x].op = "reopen"
  /\ Len(links) < MaxLinks
  /\ user' = Reopened
  /\ links' = Append(Withdrawn(Outstanding("invite")), NewLink("invite"))
  /\ Done(x)
  /\ UNCHANGED <<sessions, cookie, chosen, term>>

\* The process restarts: what was in flight is gone.
Restart ==
  /\ \E x \in Calls : calls[x] # Idle
  /\ calls' = [x \in Calls |-> Idle]
  /\ UNCHANGED <<user, links, sessions, cookie, chosen, term>>

LinkStep(x) ==
  \/ \E kind \in {"invite", "reset"} : ReadForLink(x, kind)
  \/ SendLink(x)
  \/ \E l \in LinkIds : ReadLink(x, l)
  \/ AcceptInvitation(x)
  \/ CompleteReset(x)

SignInStep(x) ==
  \/ \E b \in Browsers : ReadForLogin(x, b)
  \/ ReadForGuess(x)
  \/ RecordFailedLogin(x)
  \/ CompleteLogin(x)

SessionStep(x) ==
  \/ \E b \in Browsers : ReadForRefresh(x, b) \/ ReadForChange(x, b)
  \/ RefuseRefresh(x)
  \/ \E lost \in BOOLEAN : Rotate(x, lost)
  \/ UpdatePassword(x)
  \/ RevokeOthers(x)

AdminStep(x) == ReadForInvite(x) \/ Reopen(x)

Next ==
  \/ \E x \in Calls : LinkStep(x) \/ SignInStep(x) \/ SessionStep(x) \/ AdminStep(x)
  \/ \E l \in LinkIds : LinkExpires(l)
  \/ \E b \in Browsers : Logout(b)
  \/ LockLapses
  \/ Deactivate
  \/ Restart

Spec == Init /\ [][Next]_vars

-----------------------------------------------------------------------------
(* Properties.                                                             *)

Users == [status : {"PENDING", "ACTIVE", "DEACTIVATED"}, password : 0..MaxPasswords,
          failures : Nat, lock : {"open", "locked", "lapsed"}]
LinkRows == [kind : {"invite", "reset"}, state : {"live", "expired", "used", "dead"},
             term : 1..MaxTerms]
SessionRows == [version : Nat, ended : BOOLEAN, password : 1..MaxPasswords]
Frames ==
  {Idle} \cup [op : {"guess", "reopen"}]
  \cup [op : {"send"}, kind : {"invite", "reset"}, seen : SUBSET LinkIds]
  \cup [op : {"invite", "reset"}, link : LinkIds]
  \cup [op : {"login"}, browser : Browsers, password : 1..MaxPasswords]
  \cup [op : {"refresh"}, browser : Browsers, session : SessionIds, version : Nat,
        verdict : {"denied", "reused", "good"}]
  \cup [op : {"change", "revoke"}, session : SessionIds]

TypeOK ==
  /\ user \in Users
  /\ links \in Seq(LinkRows) /\ Len(links) <= MaxLinks
  /\ sessions \in Seq(SessionRows) /\ Len(sessions) <= MaxSessions
  /\ cookie \in [Browsers -> {NoCookie} \cup [session : SessionIds, version : Nat]]
  /\ calls \in [Calls -> Frames]
  /\ chosen \in 0..MaxPasswords
  /\ term \in 1..MaxTerms

\* However many wrong passwords are checked at the same time, an account whose
\* count has reached the limit is not left open: a late one locks it again.
LimitHolds == user.failures >= MaxFailures => user.lock # "open"

\* An active account has a password its holder chose, whatever re-invitations,
\* resets and acceptances overlap.
ActiveHasPassword == user.status = "ACTIVE" => user.password # 0

\* Whoever was deactivated comes back only by a link sent since: not by one they
\* had opened before, whose password was still being hashed.
NobodyReturnsUninvited ==
  [][user.status # "ACTIVE" /\ user'.status = "ACTIVE" =>
       \E l \in DOMAIN links :
         /\ links[l].kind = "invite" /\ links[l].term = term
         /\ links[l].state # "used" /\ links'[l].state = "used"]_vars

\* Two requests racing with the same link cannot both succeed, and a newer link's
\* use ends the older: each password was set by a link spent on it, or by
\* its holder from a session.
OnePasswordPerLink ==
  [][user'.password \notin {0, user.password} =>
       \/ \E l \in DOMAIN links : links[l].state \in {"live", "expired"} /\ links'[l].state = "used"
       \/ \E x \in Calls : calls[x].op = "change" /\ calls'[x].op = "revoke"]_vars

\* "You have been signed out everywhere": no session opened with an earlier
\* password than the one a reset has just set is good for anything afterwards.
SignedOutEverywhere ==
  \A s \in DOMAIN sessions : sessions[s].ended \/ sessions[s].password = user.password

=============================================================================
