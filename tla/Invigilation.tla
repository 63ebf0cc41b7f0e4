---------------------------- MODULE Invigilation ----------------------------
(* Invigilators: departments name a person for each exam paper's main room *)
(* and for every extra room of it in the exam draft the Director shared.   *)
(* An officer's request reads the draft from the Generator first, then     *)
(* takes the department's lock, reads every department's names and writes. *)
(* Two departments hold different locks, so their requests overlap.        *)
(* Publishing reads the whole board before it takes the lock.              *)
EXTENDS Naturals, FiniteSets, Sequences, Functions

CONSTANTS
  Examiners,     \* the officers' requests under way
  Faculties,     \* departments
  Papers,        \* papers on the term's exam list
  PaperFaculty,  \* paper -> its department
  Invigilators,  \* lecturers' rows: active, with a staff number
  StaffNumber,       \* row -> person: one staff number may be on two lists
  OnListOf,      \* row -> the department on whose list it is
  DutyLimits,    \* the limits considered: the smallest maxExamDuties of a person's rows, 0 when none is set
  Rooms,
  Main,          \* the place of the main invigilator, whatever the main room is
  Unnamed,
  Drafts         \* the drafts the Director shares, in turn: paper -> [slot, main, extras]

NoSession == 0   \* the slot of a paper the draft does not place
Places == Rooms \cup {Main}

\* What the constants must satisfy.
InvigilationAssumption ==
  /\ PaperFaculty \in [Papers -> Faculties]
  /\ OnListOf \in [Invigilators -> Faculties]
  /\ DutyLimits \subseteq Nat
  /\ IsFiniteSet(Papers) /\ IsFiniteSet(Rooms)
  /\ Main \notin Rooms
  /\ Unnamed \notin Invigilators
  /\ Drafts \in Seq([Papers -> [slot : Nat, main : Places, extras : SUBSET Rooms]])
  /\ \A v \in 1 .. Len(Drafts), p \in Papers : Drafts[v][p].main \notin Drafts[v][p].extras

VARIABLES
  limit,      \* person -> the most duties they may have, set before any name is entered
  shared,     \* how many drafts the Director has shared
  papers,     \* papers still on the exam list
  named,      \* <<paper, place>> -> [who, seen]: the row, and the draft its request had read
  published,  \* departments whose latest invigilators' publication stands
  request     \* request -> whose it is, what it asks and has read

invigilationVars == <<limit, shared, papers, named, published, request>>

NoRow == [who |-> Unnamed, seen |-> 0]
NoNaming == [asks |-> "nothing", of |-> {}, paper |-> Main, place |-> Main, who |-> Unnamed, draft |-> 0, locked |-> FALSE, sharing |-> FALSE]

-----------------------------------------------------------------------------
(* What a draft says of a paper. *)

Slot(v, p) == IF v = 0 THEN NoSession ELSE Drafts[v][p].slot
Placed(v, p) == Slot(v, p) # NoSession
Extras(v, p) == IF Placed(v, p) THEN Drafts[v][p].extras ELSE {}

\* roomOf: the main room of the draft, or the extra room named.
RoomOf(v, p, place) == IF place = Main /\ Placed(v, p) THEN Drafts[v][p].main ELSE place

\* Several papers in one room in a session are one duty.
DutyOf(v, p, place) ==
  IF Placed(v, p) THEN <<Slot(v, p), RoomOf(v, p, place)>> ELSE <<p, place>>

-----------------------------------------------------------------------------
(* Names. *)

Rows == {at \in Papers \X Places : named[at].who # Unnamed}
RowsOf(who) == {at \in Rows : StaffNumber[named[at].who] = who}
Duties(v, ats) == {DutyOf(v, at[1], at[2]) : at \in ats}

\* Two places one person cannot be in at once.
Clash(v, at, other) ==
  /\ Placed(v, at[1])
  /\ Slot(v, at[1]) = Slot(v, other[1])
  /\ RoomOf(v, at[1], at[2]) # RoomOf(v, other[1], other[2])

\* The person's other rows, when `at` is to be theirs.
DutiesOf(l, at) == RowsOf(StaffNumber[l]) \ {at}

\* Mutant for NamesApart: only the rows of the same paper are looked at.
FreeOnPaper(l, at, v) == \A other \in DutiesOf(l, at) : other[1] # at[1]

\* Never twice on one paper, never in two rooms of one session.
FreeAt(l, at, v) == \A other \in DutiesOf(l, at) : other[1] # at[1] /\ ~Clash(v, at, other)

\* A room they are in that session already is no new duty, whichever department gave it.
Shares(l, at, v) == DutyOf(v, at[1], at[2]) \in Duties(v, DutiesOf(l, at))

\* Never a new duty over the person's limit.
DutyLeft(l, at, v) ==
  LET most == limit[StaffNumber[l]]
  IN most # 0 /\ ~Shares(l, at, v) => Cardinality(Duties(v, DutiesOf(l, at))) < most

\* The places of a paper somebody must be named for.
Needed(v, p) == IF Placed(v, p) THEN {Main} \cup Extras(v, p) ELSE {}

Own(f) == {p \in papers : PaperFaculty[p] = f}

\* board: nothing left to fix, in the draft this request has read.
BoardClear(f, v) ==
  /\ \A p \in Own(f) : \A place \in Needed(v, p) : <<p, place>> \in Rows
  /\ \A at, other \in Rows :
       StaffNumber[named[at].who] = StaffNumber[named[other].who] /\ {at[1], other[1]} \cap Own(f) # {} => ~Clash(v, at, other)
  /\ \A l \in Invigilators :
       OnListOf[l] = f /\ limit[StaffNumber[l]] # 0 => Cardinality(Duties(v, RowsOf(StaffNumber[l]))) <= limit[StaffNumber[l]]

-----------------------------------------------------------------------------
InvigilationInit ==
  /\ limit \in [{StaffNumber[l] : l \in Invigilators} -> DutyLimits]
  /\ shared = 0
  /\ papers = Papers
  /\ named = [at \in Papers \X Places |-> NoRow]
  /\ published = {}
  /\ request = [o \in Examiners |-> NoNaming]

\* The Director shares a draft, or a new one over it, in the Generator.
ShareDraft ==
  /\ shared < Len(Drafts)
  /\ shared' = shared + 1
  /\ UNCHANGED <<limit, papers, named, published, request>>

\* The department takes a paper off its exam list: its names go with it, published or not.
DropPaper(p) ==
  /\ papers' = papers \ {p}
  /\ named' = [at \in Papers \X Places |-> IF at[1] = p THEN NoRow ELSE named[at]]
  /\ UNCHANGED <<limit, shared, published, request>>

\* Mutant for WithinDutyLimit: nobody waits for the department's lock.
NeverLocked(f) == FALSE

Locked(f) == \E o \in Examiners : f \in request[o].of /\ request[o].locked

\* Mutant for NamesStandWhilePublished: the publish check is left out.
AlwaysUnpublished(f) == TRUE

\* requireOpen, asked under the department's lock.
Unpublished(f) == f \notin published

AskToName(o, new) ==
  /\ request[o] = NoNaming
  /\ request' = [request EXCEPT ![o] = new]
  /\ UNCHANGED <<limit, shared, papers, named, published>>

NamingDone(o) == request' = [request EXCEPT ![o] = NoNaming]

\* setInvigilator, first half: who is to be named, and the draft as it is now.
AskName(o) ==
  \E f \in Faculties, p \in papers, l \in Invigilators \cup {Unnamed} :
    \E place \in {Main} \cup UNION {Extras(v, p) : v \in 1 .. shared} :
      /\ p \in Own(f)
      /\ AskToName(o, [asks |-> "name", of |-> {f}, paper |-> p, place |-> place, who |-> l, draft |-> shared, locked |-> FALSE,
                   sharing |-> FALSE])

\* Under the lock: the paper is the department's, the room is one of its extra rooms, the person may.
Acceptable(r) ==
  /\ r.paper \in papers
  /\ r.place = Main \/ r.place \in Extras(r.draft, r.paper)
  /\ r.who \in Invigilators => FreeAt(r.who, <<r.paper, r.place>>, r.draft) /\ DutyLeft(r.who, <<r.paper, r.place>>, r.draft)

CheckName(o, f) ==
  LET r == request[o]
  IN /\ r.asks = "name"
     /\ r.of = {f}
     /\ ~r.locked
     /\ ~Locked(f)
     /\ IF Unpublished(f) /\ Acceptable(r)
        THEN request' = [request EXCEPT ![o].locked = TRUE,
                                        ![o].sharing = r.who \in Invigilators /\ Shares(r.who, <<r.paper, r.place>>, r.draft)]
        ELSE NamingDone(o)
     /\ UNCHANGED <<limit, shared, papers, named, published>>

\* The row is inserted or deleted, and the transaction commits.
WriteName(o) ==
  LET r == request[o]
  IN /\ r.asks = "name"
     /\ r.locked
     /\ named' = IF r.paper \in papers
                 THEN [named EXCEPT ![<<r.paper, r.place>>] =
                         IF r.who = Unnamed THEN NoRow ELSE [who |-> r.who, seen |-> r.draft]]
                 ELSE named  \* the paper is gone: the foreign key refuses the row
     /\ NamingDone(o)
     /\ UNCHANGED <<limit, shared, papers, published>>

\* publish reads the board outside the lock; without a draft, or with something to fix, it stops.
AskPublish(o, f) ==
  /\ shared # 0
  /\ BoardClear(f, shared)
  /\ AskToName(o, [NoNaming EXCEPT !.asks = "publish", !.of = {f}, !.draft = shared])

WritePublication(o, f) ==
  /\ request[o].asks = "publish"
  /\ request[o].of = {f}
  /\ ~Locked(f)
  /\ published' = published \cup {f}
  /\ NamingDone(o)
  /\ UNCHANGED <<limit, shared, papers, named>>

ReopenNames(f) ==
  /\ ~Locked(f)
  /\ f \in published
  /\ published' = published \ {f}
  /\ UNCHANGED <<limit, shared, papers, named, request>>

InvigilationNext ==
  \/ ShareDraft
  \/ \E p \in papers : DropPaper(p)
  \/ \E o \in Examiners : AskName(o) \/ WriteName(o)
  \/ \E o \in Examiners, f \in Faculties : CheckName(o, f) \/ AskPublish(o, f) \/ WritePublication(o, f)
  \/ \E f \in Faculties : ReopenNames(f)

InvigilationSpec == InvigilationInit /\ [][InvigilationNext]_invigilationVars

-----------------------------------------------------------------------------
InvigilationTypeOK ==
  /\ limit \in [{StaffNumber[l] : l \in Invigilators} -> DutyLimits]
  /\ shared \in 0 .. Len(Drafts)
  /\ papers \subseteq Papers
  /\ named \in [Papers \X Places -> [who : Invigilators \cup {Unnamed}, seen : 0 .. Len(Drafts)]]
  /\ published \subseteq Faculties
  /\ request \in [Examiners -> [asks : {"nothing", "name", "publish"}, of : SUBSET Faculties, paper : Papers \cup {Main}, place : Places,
                                who : Invigilators \cup {Unnamed}, draft : 0 .. Len(Drafts), locked : BOOLEAN, sharing : BOOLEAN]]

\* Rows of one department, named against the same draft.
Together(at, other) ==
  /\ PaperFaculty[at[1]] = PaperFaculty[other[1]]
  /\ named[at].seen = named[other].seen

(* One department never puts a person in two rooms of one session of the   *)
(* draft it read, however its officers' requests overlap: the names are    *)
(* read under the department's lock (invigilation.service.ts               *)
(* setInvigilator).  Two departments, and names from an earlier draft, can *)
(* clash; the board reports those.                                         *)
NamesApart ==
  \A at, other \in Rows :
    at # other /\ Together(at, other) /\ StaffNumber[named[at].who] = StaffNumber[named[other].who] =>
      at[1] # other[1] /\ ~Clash(named[at].seen, at, other)

(* A name that gives a person a new duty leaves their duties for that      *)
(* department within their limit, counted in the draft the request read,   *)
(* though others name and share drafts meanwhile (invigilation.service.ts  *)
(* setInvigilator).  Sharing a room of the session is no new duty, so two  *)
(* departments at once, or a new draft, can take a person over it.         *)
WithinDutyLimitStep ==
  \A o \in Examiners, who \in DOMAIN limit :
    /\ request[o].asks = "name" /\ request[o].locked /\ request'[o] = NoNaming
    /\ request[o].who \in Invigilators /\ StaffNumber[request[o].who] = who
    /\ ~request[o].sharing /\ limit[who] # 0
    => Cardinality(Duties(request[o].draft, {at \in RowsOf(who)' : PaperFaculty[at[1]] \in request[o].of})) <= limit[who]
WithinDutyLimit == [][WithinDutyLimitStep]_invigilationVars

(* The names of a department's papers do not change while its invigilators *)
(* stand published, unless the paper itself leaves the exam list           *)
(* (teaching.service.ts write, requireOpen; exams.service.ts deletePaper). *)
NamesStandWhilePublishedStep ==
  \A at \in Papers \X Places :
     PaperFaculty[at[1]] \in published /\ at[1] \in papers' => named'[at] = named[at]
NamesStandWhilePublished == [][NamesStandWhilePublishedStep]_invigilationVars

=============================================================================
