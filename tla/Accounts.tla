------------------------------ MODULE Accounts ------------------------------
(* Student, lecturer and administrator accounts: registering here, or      *)
(* being created and linked at the first sign-in with SMARTTT, created by  *)
(* a terminal that reads an unknown card, kept up to date with SMARTTT at  *)
(* every sign-in, and anonymised when deleted.  A request reads, then      *)
(* writes; between the two any other request may run.  The unique indexes  *)
(* on email, number and SMARTTT id are what makes two racing requests safe.*)
EXTENDS Naturals, FiniteSets, Functions

CONSTANTS
  People,           \* SMARTTT's users
  Numbers, Emails,  \* admission and staff numbers; addresses
  None,             \* an absent number, address, link or account
  Visits,           \* requests under way
  MaxAccounts,      \* bound: account rows ever created
  MaxVisits,        \* bound: requests ever made
  MaxRenewals       \* bound: changes of a person's details in SMARTTT

AccountIds == 1 .. MaxAccounts
Roles == {"STUDENT", "LECTURER", "ADMIN"}

ASSUME AccountsAssumption ==
  /\ {MaxAccounts, MaxVisits, MaxRenewals} \subseteq Nat
  /\ None \notin People \cup Numbers \cup Emails \cup AccountIds

VARIABLES
  smarttt,   \* person -> [role, number, email, current]: what SMARTTT says of them
  managed,   \* SMARTTT_ACCOUNTS is on: nobody registers here any more
  account,   \* id -> the users row with its profile
  visit,     \* request -> what it has read so far
  visits, renewals  \* requests and changes so far

accountsVars == <<smarttt, managed, account, visit, visits, renewals>>

\* The details SMARTTT sends of a person, or a registration form.
Claim == [role : Roles, number : Numbers \cup {None}, email : Emails \cup {None}]

\* A users row with its student or lecturer profile.
AccountRow ==
  [there : BOOLEAN, deleted : BOOLEAN, role : Roles, status : {"PENDING", "ACTIVE", "DEACTIVATED"},
   number : Numbers \cup {None}, email : Emails \cup {None}, person : People \cup {None}]

\* What a request carries from one statement to the next; held is whose the candidate was.
VisitRow ==
  [does : {"nothing", "look", "refresh", "profile", "create"}, person : People \cup {None}, claim : Claim,
   found : AccountIds \cup {None}, held : People \cup {None}]

NoAccount ==
  [there |-> FALSE, deleted |-> FALSE, role |-> "STUDENT", status |-> "ACTIVE", number |-> None, email |-> None, person |-> None]
NoVisit ==
  [does |-> "nothing", person |-> None, claim |-> [role |-> "STUDENT", number |-> None, email |-> None], found |-> None, held |-> None]

-----------------------------------------------------------------------------
(* Reading the accounts. *)

Live(a) == account[a].there /\ ~account[a].deleted

\* The unique indexes: a row a write would leave may share nothing with another.
Fits(a, row) ==
  \A b \in AccountIds \ {a} : account[b].there =>
    /\ row.email # None => account[b].email # row.email
    /\ row.person # None => account[b].person # row.person
    /\ row.number # None => ~(account[b].role = row.role /\ account[b].number = row.number)

EmailTaken(email, a) == \E b \in AccountIds \ {a} : account[b].there /\ account[b].email = email
NumberTaken(role, number, a) ==
  \E b \in AccountIds \ {a} : account[b].there /\ account[b].role = role /\ account[b].number = number

\* findLinkCandidate, findAdminLinkCandidate: the account linked to the person, else the one it may take over.
ById(person) == {a \in AccountIds : Live(a) /\ person # None /\ account[a].person = person}
ByKey(claim) ==
  {a \in AccountIds :
     /\ Live(a)
     /\ account[a].role = claim.role
     /\ IF claim.role = "ADMIN" THEN account[a].email = claim.email ELSE account[a].number = claim.number}
Candidates(person, claim) == IF ById(person) # {} THEN ById(person) ELSE ByKey(claim)

Fresh == {a \in AccountIds : ~account[a].there /\ \A b \in 1 .. (a - 1) : account[b].there}

\* The number and the address two people's details or rows have in common.
Names(row) == {row.number, row.email} \ {None}
Shared(row, other) == Names(row) \cap Names(other)

-----------------------------------------------------------------------------
AccountsInit ==
  /\ smarttt \in [People -> [role : {"STUDENT"}, number : Numbers \cup {None}, email : Emails \cup {None}, current : {TRUE}]]
  /\ \A p, q \in People : p # q => Shared(smarttt[p], smarttt[q]) = {}
  /\ managed = FALSE
  /\ account = [a \in AccountIds |-> NoAccount]
  /\ visit = [v \in Visits |-> NoVisit]
  /\ visits = 0
  /\ renewals = 0

(* SMARTTT changes somebody's role, address or standing, or gives them a   *)
(* number that was another's, who then has none.                           *)
Renew(p) ==
  /\ renewals < MaxRenewals
  /\ renewals' = renewals + 1
  /\ \/ \E role \in Roles : smarttt' = [smarttt EXCEPT ![p].role = role]
     \/ \E email \in Emails \cup {None} : smarttt' = [smarttt EXCEPT ![p].email = email]
     \/ smarttt' = [smarttt EXCEPT ![p].current = ~@]
     \/ \E number \in Numbers :
          smarttt' = [q \in People |->
                        CASE q = p -> [smarttt[q] EXCEPT !.number = number]
                          [] q # p /\ smarttt[q].number = number -> [smarttt[q] EXCEPT !.number = None]
                          [] OTHER -> smarttt[q]]
  /\ UNCHANGED <<managed, account, visit, visits>>

\* Accounts move to SMARTTT, for good.
Manage ==
  /\ ~managed
  /\ managed' = TRUE
  /\ UNCHANGED <<smarttt, account, visit, visits, renewals>>

\* An administrator is invited by address; the account waits for them.
InviteAdmin ==
  \E a \in Fresh, email \in Emails :
    LET row == [NoAccount EXCEPT !.there = TRUE, !.role = "ADMIN", !.status = "PENDING", !.email = email]
    IN /\ Fits(a, row)
       /\ account' = [account EXCEPT ![a] = row]
       /\ UNCHANGED <<smarttt, managed, visit, visits, renewals>>

BeginVisit(v, new) ==
  /\ visit[v] = NoVisit
  /\ visits < MaxVisits
  /\ visits' = visits + 1
  /\ visit' = [visit EXCEPT ![v] = new]
  /\ UNCHANGED <<smarttt, managed, account, renewals>>

VisitEnded(v) == visit' = [visit EXCEPT ![v] = NoVisit]
Asking(v, does) == visit[v].does = does

ClaimOf(p) == [role |-> smarttt[p].role, number |-> smarttt[p].number, email |-> smarttt[p].email]

\* signInWithSmarttt, up to the candidate: current, listed and with a number, unless an administrator.
SignIn(v, p) ==
  /\ managed
  /\ smarttt[p].current
  /\ smarttt[p].role # "ADMIN" => smarttt[p].number # None
  /\ BeginVisit(v, [NoVisit EXCEPT !.does = "look", !.person = p, !.claim = ClaimOf(p)])

\* Mutant for LinkKept: a number reassigned in SMARTTT takes the account along.
LinkableAnyway(a, person, claim) == account[a].role = claim.role

\* What linkExisting and signInAdministrator refuse: another role, another person's, a number in use.
Linkable(a, person, claim) ==
  /\ account[a].role = claim.role
  /\ account[a].person \in {person, None}
  /\ claim.role # "ADMIN" /\ account[a].number # claim.number => ~NumberTaken(claim.role, claim.number, a)

(* The candidate is read and the sign-in decided on the row as it is now;  *)
(* the write comes later, by id alone.  An address in use keeps the old    *)
(* one; a new account needs one that is free.                              *)
LookUp(v) ==
  LET r == visit[v]
      found == Candidates(r.person, r.claim)
  IN /\ Asking(v, "look")
     /\ UNCHANGED <<smarttt, managed, account, visits, renewals>>
     /\ IF found = {}
        THEN visit' = [visit EXCEPT ![v] =
                         IF r.claim.email = None \/ EmailTaken(r.claim.email, 0) THEN NoVisit ELSE [r EXCEPT !.does = "create"]]
        ELSE \E a \in found :
               visit' = [visit EXCEPT ![v] =
                 IF Linkable(a, r.person, r.claim)
                 THEN [r EXCEPT !.does = "refresh", !.found = a, !.held = account[a].person,
                                !.claim.email = IF EmailTaken(@, a) THEN None ELSE @]
                 ELSE NoVisit]

Woken(status) == IF status = "PENDING" THEN "ACTIVE" ELSE status

\* refreshLinkedAccount, its first statement: the users row.
RefreshUser(v) ==
  LET r == visit[v]
      old == account[r.found]
      row == [old EXCEPT !.person = r.person, !.email = IF r.claim.email = None THEN @ ELSE r.claim.email, !.status = Woken(@)]
  IN /\ Asking(v, "refresh")
     /\ IF Fits(r.found, row)
        THEN /\ account' = [account EXCEPT ![r.found] = row]
             /\ visit' = [visit EXCEPT ![v].does = "profile"]
        ELSE VisitEnded(v) /\ UNCHANGED account
     /\ UNCHANGED <<smarttt, managed, visits, renewals>>

\* Its second: the number on the profile; an administrator has none.
RefreshProfile(v) ==
  LET r == visit[v]
      row == [account[r.found] EXCEPT !.number = r.claim.number]
  IN /\ Asking(v, "profile")
     /\ account' = IF r.claim.role # "ADMIN" /\ Fits(r.found, row) THEN [account EXCEPT ![r.found] = row] ELSE account
     /\ VisitEnded(v)
     /\ UNCHANGED <<smarttt, managed, visits, renewals>>

Answers == {"FOUND", "INACTIVE", "NOT_FOUND", "UNAVAILABLE"}

\* lookupStudent: the ERP is asked only for whom SMARTTT does not know, and knows nobody while SMARTTT is down.
LookupStudent(smartttSays, erpSays) ==
  CASE smartttSays \in {"FOUND", "INACTIVE"} -> smartttSays
    [] smartttSays = "UNAVAILABLE" /\ erpSays = "NOT_FOUND" -> "UNAVAILABLE"
    [] OTHER -> erpSays

\* Nobody here has the address or the number, and a directory finds it.
RegisterAs(v, role) ==
  /\ ~managed
  /\ \E number \in Numbers, email \in Emails :
       /\ ~EmailTaken(email, 0)
       /\ ~NumberTaken(role, number, 0)
       /\ \E smartttSays, erpSays \in Answers : LookupStudent(smartttSays, erpSays) = "FOUND"
       /\ BeginVisit(v, [NoVisit EXCEPT !.does = "create", !.claim = [role |-> role, number |-> number, email |-> email]])

RegisterStudent(v) == RegisterAs(v, "STUDENT")
RegisterLecturer(v) == RegisterAs(v, "LECTURER")
Register(v) == RegisterStudent(v) \/ RegisterLecturer(v)

\* provisionStudentFromSmarttt: a terminal read a card nobody here has; the account is not linked yet.
Provision(v, p) ==
  /\ managed
  /\ smarttt[p].role = "STUDENT" /\ smarttt[p].current
  /\ smarttt[p].number # None /\ smarttt[p].email # None
  /\ ~EmailTaken(smarttt[p].email, 0)
  /\ BeginVisit(v, [NoVisit EXCEPT !.does = "create", !.claim = ClaimOf(p)])

\* The new row and its profile: one transaction, or a unique violation and nothing.
CreateRow(v) ==
  LET r == visit[v]
      row == [NoAccount EXCEPT !.there = TRUE, !.role = r.claim.role, !.email = r.claim.email, !.person = r.person,
                               !.number = IF r.claim.role = "ADMIN" THEN None ELSE r.claim.number]
  IN /\ Asking(v, "create")
     /\ \E a \in Fresh : account' = IF Fits(a, row) THEN [account EXCEPT ![a] = row] ELSE account
     /\ VisitEnded(v)
     /\ UNCHANGED <<smarttt, managed, visits, renewals>>

CreateStudent(v) == visit[v].claim.role = "STUDENT" /\ CreateRow(v)
CreateLecturer(v) == visit[v].claim.role = "LECTURER" /\ CreateRow(v)
CreateAdmin(v) == visit[v].claim.role = "ADMIN" /\ CreateRow(v)
Create(v) == CreateStudent(v) \/ CreateLecturer(v) \/ CreateAdmin(v)

\* Mutant for DeletedNamesNobody: the SMARTTT id stays.
AnonymousButLinked(row) == [row EXCEPT !.deleted = TRUE, !.status = "DEACTIVATED", !.number = None, !.email = None]

\* The anonymised row: placeholders for address and number, no link.
Anonymous(row) == [row EXCEPT !.deleted = TRUE, !.status = "DEACTIVATED", !.number = None, !.email = None, !.person = None]

\* deleteAccount: by its owner or a department officer, of a live student or lecturer.
Delete(a) ==
  /\ Live(a)
  /\ account[a].role # "ADMIN"
  /\ account' = [account EXCEPT ![a] = Anonymous(account[a])]
  /\ UNCHANGED <<smarttt, managed, visit, visits, renewals>>

AccountsNext ==
  \/ \E p \in People : Renew(p)
  \/ Manage
  \/ InviteAdmin
  \/ \E v \in Visits, p \in People : SignIn(v, p) \/ Provision(v, p)
  \/ \E v \in Visits : Register(v) \/ LookUp(v) \/ RefreshUser(v) \/ RefreshProfile(v) \/ Create(v)
  \/ \E a \in AccountIds : Delete(a)

AccountsSpec == AccountsInit /\ [][AccountsNext]_accountsVars

-----------------------------------------------------------------------------
\* Every variable has its type.
AccountsTypeOK ==
  /\ smarttt \in [People -> [role : Roles, number : Numbers \cup {None}, email : Emails \cup {None}, current : BOOLEAN]]
  /\ managed \in BOOLEAN
  /\ account \in [AccountIds -> AccountRow]
  /\ visit \in [Visits -> VisitRow]
  /\ visits \in Nat
  /\ renewals \in Nat

(* A person in SMARTTT, an address and a number each have at most one live *)
(* account of a role, whichever of registration, first sign-in and         *)
(* terminal came first or at once (auth.smarttt.ts createFor,              *)
(* provisionStudentFromSmarttt; auth.service.ts registerStudent).          *)
OneLiveAccountEach ==
  \A a, b \in AccountIds : a # b /\ Live(a) /\ Live(b) =>
    /\ account[a].email # account[b].email
    /\ account[a].person # None => account[a].person # account[b].person
    /\ account[a].number # None /\ account[a].role = account[b].role => account[a].number # account[b].number

(* An account linked to one person passes to another only through a        *)
(* sign-in that found it nobody's, or its own, before: a number SMARTTT    *)
(* has reassigned takes no history along, unless the two people sign in at *)
(* once (auth.smarttt.ts linkExisting).                                    *)
LinkKept ==
  [][\A a \in AccountIds :
       Live(a) /\ account[a].person # None /\ account'[a].person \notin {account[a].person, None} =>
         \E v \in Visits : visit[v].does = "refresh" /\ visit[v].found = a /\ visit[v].held \in {None, account'[a].person}]_accountsVars

Named(row) == Names(row) \cup ({row.person} \ {None})

(* A deleted account names nobody, and only a sign-in that found it before *)
(* it was deleted writes a name back (auth.deletion.repository.ts          *)
(* anonymiseAccount; auth.smarttt.repository.ts refreshLinkedAccount).     *)
DeletedNamesNobody ==
  [][\A a \in AccountIds :
       account'[a].deleted =>
         \/ Named(account'[a]) \subseteq IF account[a].deleted THEN Named(account[a]) ELSE {}
         \/ \E v \in Visits : visit[v].does \in {"refresh", "profile"} /\ visit[v].found = a]_accountsVars

=============================================================================
