---------------------------- MODULE ExamPapers ----------------------------
(***************************************************************************)
(* A department's exam papers of one set of unit codes in one term: the    *)
(* regular paper, the ODEL paper, the class rows that sit them and how     *)
(* many students each, read from SMARTTT and corrected by officers, and    *)
(* published to the Director.                                              *)
(* src/modules/teaching/exam-list.service.ts, exams.service.ts             *)
(*                                                                         *)
(* Officers' writes hold the department's lock from their first read to    *)
(* their commit, so each is one step here. A request that asks SMARTTT     *)
(* reads before that lock, waits for the answer and writes later: a frame  *)
(* in request. The Director's import re-reads SMARTTT with no lock at all. *)
(***************************************************************************)
EXTENDS Integers, FiniteSets

CONSTANTS
  Papers,       \* rows of teaching_exam_papers ever inserted; ids are never used again
  Classes,      \* programme, year, semester and stream: what rowKey tells apart
  OdelClasses,  \* those whose stream is ODEL
  Guess,        \* the class the page guesses from the paper's code
  Cohort,       \* the classes of the programme and year the letter's heading names
  LetterClass,  \* the row that heading writes, on the regular and on the ODEL paper
  RowLists,     \* class rows and numbers an officer may send for a paper
  Timetables,   \* what SMARTTT may answer: the classes taking the unit and who synced it in each
  Numbers,      \* what a letter's heading may say
  Requests,     \* slots for the requests that wait for SMARTTT
  Absent,       \* no value: no count, no answer, no paper
  MaxSyncs,     \* changes in SMARTTT: a bound of the model
  MaxEdits      \* changes officers make to the list: a bound of the model

Sittings == {"regular", "odel"}

ASSUME ExamPapersAssumption ==
  /\ OdelClasses \subseteq Classes
  /\ Cohort \subseteq Classes
  /\ Guess \in Classes \ OdelClasses
  /\ LetterClass \in [Sittings -> Cohort]
  /\ LetterClass["odel"] \in OdelClasses /\ LetterClass["regular"] \notin OdelClasses
  /\ Numbers \subseteq Nat \ {0}
  /\ Absent \notin Nat
  /\ Absent \notin Papers
  /\ IsFiniteSet(Classes)
  /\ \A given \in RowLists : DOMAIN given \subseteq Classes /\ given \in [DOMAIN given -> Nat]
  /\ \A e \in Timetables : DOMAIN e \subseteq Classes /\ e \in [DOMAIN e -> Nat]

VARIABLES
  paper,        \* each paper: Unused, Gone, or its sitting, class rows and what was last signed
  publication,  \* "never", "standing" or "reopened"
  smarttt,      \* what SMARTTT has now
  request,      \* the frames of the requests in flight
  syncs, edits  \* how often SMARTTT changed and officers wrote

vars == <<paper, publication, smarttt, request, syncs, edits>>

NoRows == [c \in {} |-> 0]
Unused == [row |-> "not inserted yet"]
Gone == [row |-> "deleted"]
Idle == [op |-> "idle"]
Listed(ps) == {p \in Papers : ps[p] \notin {Unused, Gone}}
OfSitting(ps, s) == {p \in Listed(ps) : ps[p].sitting = s}
HasOdelTwin(ps) == OfSitting(ps, "odel") # {}

Init ==
  /\ paper = [p \in Papers |-> Unused]
  /\ publication = "never"
  /\ smarttt \in Timetables
  /\ request = [r \in Requests |-> Idle]
  /\ syncs = 0
  /\ edits = 0

-----------------------------------------------------------------------------
(* SMARTTT's counts over the rows a paper has.                             *)

\* A class SMARTTT knows, at SMARTTT's number.
Synced(n) == [students |-> n, smarttt |-> n, edited |-> FALSE]

\* Who sits a paper: ODEL classes sit the ODEL paper if there is one, else the regular one.
SmartttRows(e, s, twin) ==
  [c \in {k \in DOMAIN e : IF s = "odel" THEN k \in OdelClasses ELSE k \in OdelClasses => ~twin} |-> e[c]]

(* Not the code: the ways it could be wrong that the properties tell apart.*)
KeptUnlessCounted(was, fresh) == {c \in DOMAIN was : was[c].edited /\ c \notin DOMAIN fresh}
KeptWhoeverSet(was, fresh) == DOMAIN was
ShareLess(typed, n, isLucky) == typed \div n - (IF isLucky THEN 1 ELSE 0)
ShareEvenly(typed, n, isLucky) == typed \div n
CoveredByName(s) == {LetterClass[s]}
MayAlwaysChange == TRUE

Guessed(rows) == {c \in DOMAIN rows : c = Guess /\ rows[c].smarttt = Absent}

\* listedCourses: the class is held to the paper, whether or not its number is known.
Sits(row) == row.students > 0 \/ ~row.edited

\* The guesses a fresh answer does not confirm, set aside until the real classes are known.
GivesWay(was, fresh) == {c \in Guessed(was) : was[c].edited /\ c \notin DOMAIN fresh}

\* The department's number stays; what SMARTTT counted is noted beside it.
KeptRow(row, c, fresh) ==
  [row EXCEPT !.smarttt = IF c \in DOMAIN fresh THEN fresh[c] ELSE IF row.smarttt = Absent THEN Absent ELSE 0]

KeptRows(was, fresh) == {c \in DOMAIN was : was[c].edited} \ GivesWay(was, fresh)

WithFresh(was, fresh) ==
  LET kept == KeptRows(was, fresh)
  IN [c \in kept \cup DOMAIN fresh |-> IF c \in kept THEN KeptRow(was[c], c, fresh) ELSE Synced(fresh[c])]

\* One real class's part of the number typed for the guess; the lucky ones take the remainder.
Share(typed, n, isLucky) == typed \div n + (IF isLucky THEN 1 ELSE 0)

\* The guess's number goes to the real classes; who is first among them is SMARTTT's order.
SharedOut(out, real, typed) ==
  {[c \in DOMAIN out |-> IF c \in real
                         THEN [out[c] EXCEPT !.students = Share(typed, Cardinality(real), c \in lucky), !.edited = TRUE]
                         ELSE out[c]]
     : lucky \in {l \in SUBSET real : Cardinality(l) = typed % Cardinality(real)}}

Merged(was, fresh) ==
  LET guesses == GivesWay(was, fresh)
      out     == WithFresh(was, fresh)
      real    == {c \in DOMAIN out : Sits(out[c])}
      typed   == IF guesses = {} THEN 0 ELSE was[Guess].students
  IN IF real = {}
     THEN {[c \in DOMAIN out \cup guesses |-> IF c \in guesses THEN was[c] ELSE out[c]]}
     ELSE IF typed > 0 /\ \A c \in real : out[c].students = 0
     THEN SharedOut(out, real, typed)
     ELSE {out}

\* The classes whose number the heading's number stands for.
Covered(s) == {c \in Cohort : s = "odel" \/ c \notin OdelClasses}

\* A heading's number n is the whole class's: its row takes it, the class's other rows go to 0 or go
\* away. The row's SMARTTT count is only shown from then on, so that there is one is all that is kept.
WithLetterClasses(was, rows, n, s) ==
  LET left    == DOMAIN rows \ Guessed(was)
      counted == {c \in left \cap Covered(s) : rows[c].smarttt # Absent}
      named   == LetterClass[s]
  IN IF n = 0 THEN rows
     ELSE [c \in (left \ Covered(s)) \cup counted \cup {named} |->
             IF c = named
             THEN [students |-> n, smarttt |-> IF counted = {} THEN Absent ELSE 0, edited |-> TRUE]
             ELSE IF c \in counted THEN [rows[c] EXCEPT !.students = 0, !.edited = TRUE] ELSE rows[c]]

\* The rows an officer sends, over those there are: a SMARTTT row left out stays at 0.
ApplyRows(was, given) ==
  LET count(c) == IF c \in DOMAIN was THEN was[c].smarttt ELSE Absent
  IN [c \in DOMAIN given \cup {k \in DOMAIN was : was[k].smarttt # Absent} |->
        IF c \in DOMAIN given
        THEN [students |-> given[c], smarttt |-> count(c),
              edited |-> (IF c \in DOMAIN was THEN was[c].edited ELSE FALSE) \/ count(c) = Absent \/ given[c] # count(c)]
        ELSE [was[c] EXCEPT !.students = 0, !.edited = TRUE]]

-----------------------------------------------------------------------------
(* Officers' writes, under the department's lock.                          *)

\* requireOpen, read under the lock.
MayChange == publication # "standing"

Edit == /\ edits < MaxEdits
        /\ edits' = edits + 1
        /\ UNCHANGED <<smarttt, request, syncs>>

\* setRows, setManyRows: all of them or none.
SetRows ==
  /\ MayChange
  /\ \E ps \in SUBSET Listed(paper) \ {{}} : \E given \in [ps -> RowLists] :
       paper' = [p \in Papers |-> IF p \in ps
                                  THEN [paper[p] EXCEPT !.rows = ApplyRows(paper[p].rows, given[p])]
                                  ELSE paper[p]]
  /\ Edit
  /\ UNCHANGED publication

\* Its title, examiner and notes are not told apart.
UpdatePaper ==
  /\ MayChange
  /\ \E p \in Listed(paper) : \E s \in Sittings \ {paper[p].sitting} : paper' = [paper EXCEPT ![p].sitting = s]
  /\ Edit
  /\ UNCHANGED publication

DeletePaper ==
  /\ MayChange
  /\ \E p \in Listed(paper) : paper' = [paper EXCEPT ![p] = Gone]
  /\ Edit
  /\ UNCHANGED publication

RemoveList ==
  /\ MayChange
  /\ Listed(paper) # {}
  /\ paper' = [p \in Papers |-> IF p \in Listed(paper) THEN Gone ELSE paper[p]]
  /\ Edit
  /\ UNCHANGED publication

SignedOnce(ps) ==
  [p \in Papers |-> IF p \in Listed(ps) /\ ps[p].signed = "never" THEN [ps[p] EXCEPT !.signed = ps[p].sitting] ELSE ps[p]]
\* setPaperSignatures.
Signed(ps) == [p \in Papers |-> IF p \in Listed(ps) THEN [ps[p] EXCEPT !.signed = ps[p].sitting] ELSE ps[p]]

Publish ==
  /\ MayChange
  /\ Listed(paper) # {}
  /\ paper' = Signed(paper)
  /\ publication' = "standing"
  /\ UNCHANGED <<smarttt, request, syncs, edits>>

Reopen ==
  /\ publication = "standing"
  /\ publication' = "reopened"
  /\ UNCHANGED <<paper, smarttt, request, syncs, edits>>

-----------------------------------------------------------------------------
(* Requests that wait for SMARTTT.                                         *)

\* recount and refreshTerm load the papers, outside the lock ...
StartReading(r, op) ==
  /\ request[r] = Idle
  /\ Listed(paper) # {}
  /\ op \in {"recount", "refresh"}
  /\ request' = [request EXCEPT ![r] = [op |-> op, seen |-> paper, e |-> Absent]]
  /\ UNCHANGED <<paper, publication, smarttt, syncs, edits>>

\* ... ask SMARTTT who sits them ...
AskSmarttt(r) ==
  /\ request[r].op \in {"recount", "refresh"}
  /\ request[r].e = Absent
  /\ request' = [request EXCEPT ![r].e = smarttt]
  /\ UNCHANGED <<paper, publication, smarttt, syncs, edits>>

Recounts(seen, e) ==
  LET results(p) == Merged(seen[p].rows, SmartttRows(e, seen[p].sitting, HasOdelTwin(seen)))
      all == UNION {results(p) : p \in Listed(seen)}
  IN {out \in [Listed(seen) -> all] : \A p \in Listed(seen) : out[p] \in results(p)}

\* ... and write the rows of every paper they loaded. Rows of a paper deleted since are refused
\* by the foreign key, and everything with them.
WriteCounts(r) ==
  /\ request[r].op \in {"recount", "refresh"}
  /\ request[r].e # Absent
  /\ request[r].op = "recount" => MayChange
  /\ \E out \in Recounts(request[r].seen, request[r].e) :
       /\ \A p \in DOMAIN out : paper[p] = Gone => out[p] = NoRows
       /\ paper' = [p \in Papers |-> IF p \in DOMAIN out \cap Listed(paper)
                                     THEN [paper[p] EXCEPT !.rows = out[p]]
                                     ELSE paper[p]]
  /\ request' = [request EXCEPT ![r] = Idle]
  /\ UNCHANGED <<publication, smarttt, syncs, edits>>

\* An upload lists the papers' sittings, each with its heading's number or 0. The ODEL line may take
\* over a regular paper when that is not listed beside it (such an upload is refused).
Uploads == [lines : UNION {[ss -> Numbers \cup {0}] : ss \in SUBSET Sittings \ {{}}}, replaces : {Absent}]
             \cup [lines : [{"odel"} -> Numbers \cup {0}], replaces : Papers]

\* save asks SMARTTT before it takes the lock, and goes on without an answer.
StartSave(r, upload) ==
  /\ request[r] = Idle
  /\ \E e \in {smarttt, Absent} : request' = [request EXCEPT ![r] = [op |-> "save", upload |-> upload, e |-> e]]
  /\ UNCHANGED <<paper, publication, smarttt, syncs, edits>>

\* The regular paper it replaces is on the list.
Valid(upload) == upload.replaces # Absent => upload.replaces \in OfSitting(paper, "regular")

\* The paper a line is saved to: the one of its sitting, the one it takes over, or a new one.
Targets(upload, s) ==
  IF OfSitting(paper, s) # {} THEN OfSitting(paper, s)
  ELSE IF s = "odel" /\ upload.replaces # Absent THEN {upload.replaces}
  ELSE {p \in Papers : paper[p] = Unused}

RowsOf(p) == IF p \in Listed(paper) THEN paper[p].rows ELSE NoRows

SavedRows(upload, e, s, p) ==
  LET twin  == HasOdelTwin(paper) \/ "odel" \in DOMAIN upload.lines
      bases == IF e = Absent THEN {RowsOf(p)} ELSE Merged(RowsOf(p), SmartttRows(e, s, twin))
  IN {WithLetterClasses(RowsOf(p), b, upload.lines[s], s) : b \in bases}

SavedPaper(p, s, rows) ==
  [sitting |-> s, rows |-> rows, signed |-> IF p \in Listed(paper) THEN paper[p].signed ELSE "never"]

WriteUpload(r) ==
  /\ request[r].op = "save"
  /\ MayChange
  /\ edits < MaxEdits
  /\ edits' = edits + 1
  /\ LET upload == request[r].upload
         lines  == DOMAIN upload.lines
         rowsFor(s, p) == SavedRows(upload, request[r].e, s, p)
     IN /\ Valid(upload)
        /\ \E to \in [lines -> Papers] :
             /\ \A s \in lines : to[s] \in Targets(upload, s)
             /\ \A s, t \in lines : to[s] = to[t] => s = t
             /\ \E rows \in [lines -> UNION {rowsFor(s, to[s]) : s \in lines}] :
                  /\ \A s \in lines : rows[s] \in rowsFor(s, to[s])
                  /\ paper' = [p \in Papers |->
                       IF \E s \in lines : to[s] = p
                       THEN LET s == CHOOSE t \in lines : to[t] = p IN SavedPaper(p, s, rows[s])
                       ELSE paper[p]]
  /\ request' = [request EXCEPT ![r] = Idle]
  /\ UNCHANGED <<publication, smarttt, syncs>>

\* SMARTTT is down, the list is published, the upload is invalid or the database says no:
\* the transaction is rolled back and the officer told, or the import goes on with the last numbers.
Fail(r) ==
  /\ request[r] # Idle
  /\ request' = [request EXCEPT ![r] = Idle]
  /\ UNCHANGED <<paper, publication, smarttt, syncs, edits>>

\* Classes are timetabled or withdrawn in SMARTTT, and their students sync or drop the unit.
SmartttChanges ==
  /\ syncs < MaxSyncs
  /\ syncs' = syncs + 1
  /\ smarttt' \in Timetables
  /\ UNCHANGED <<paper, publication, request, edits>>

Next ==
  \/ SetRows \/ UpdatePaper \/ DeletePaper \/ RemoveList \/ Publish \/ Reopen
  \/ SmartttChanges
  \/ \E r \in Requests :
       \/ \E op \in {"recount", "refresh"} : StartReading(r, op)
       \/ AskSmarttt(r) \/ WriteCounts(r)
       \/ \E upload \in Uploads : StartSave(r, upload)
       \/ WriteUpload(r) \/ Fail(r)

Spec == Init /\ [][Next]_vars

-----------------------------------------------------------------------------
(* Properties.                                                             *)

Row == [students : Nat, smarttt : Nat \cup {Absent}, edited : BOOLEAN]
IsRows(rows) == DOMAIN rows \subseteq Classes /\ rows \in [DOMAIN rows -> Row]
IsAnswer(e) == DOMAIN e \subseteq Classes /\ e \in [DOMAIN e -> Nat]

IsPaper(x) ==
  \/ x \in {Unused, Gone}
  \/ /\ x = [sitting |-> x.sitting, rows |-> x.rows, signed |-> x.signed]
     /\ x.sitting \in Sittings
     /\ IsRows(x.rows)
     /\ x.signed \in Sittings \cup {"never"}

ArePapers(ps) == ps = [p \in Papers |-> ps[p]] /\ \A p \in Papers : IsPaper(ps[p])

IsFrame(f) ==
  \/ f = Idle
  \/ /\ f.op \in {"recount", "refresh"}
     /\ f = [op |-> f.op, seen |-> f.seen, e |-> f.e]
     /\ ArePapers(f.seen)
     /\ f.e = Absent \/ IsAnswer(f.e)
  \/ /\ f.op = "save"
     /\ f = [op |-> f.op, upload |-> f.upload, e |-> f.e]
     /\ f.upload \in Uploads
     /\ f.e = Absent \/ IsAnswer(f.e)

\* Every column holds what its type allows: no negative number of students comes of sharing out.
TypeOK ==
  /\ ArePapers(paper)
  /\ publication \in {"never", "standing", "reopened"}
  /\ IsAnswer(smarttt)
  /\ request = [r \in Requests |-> request[r]] /\ \A r \in Requests : IsFrame(request[r])
  /\ syncs \in Nat /\ edits \in Nat

\* What a standing publication shows is what was signed: no paper is added, changed or taken off
\* behind it, whatever was under way when it was published.
StandingAsSigned ==
  publication = "standing" =>
    /\ Listed(paper) # {}
    /\ \A p \in Listed(paper) : paper[p].signed = paper[p].sitting

\* While the list is published only the Director's import moves a number, and nothing else.
PublishedListHolds ==
  [][publication = "standing" /\ publication' = "standing" /\ paper' # paper =>
       /\ \E r \in Requests : request[r].op = "refresh" /\ request'[r] = Idle
       /\ Listed(paper') = Listed(paper)
       /\ \A p \in Listed(paper) : paper'[p].sitting = paper[p].sitting]_vars

Corrected(rows) == {c \in DOMAIN rows : rows[c].edited /\ c # Guess}

\* Every number and every removal the rows hold is in the rows that replace them.
Keeps(old, new) == \A c \in Corrected(old) : c \in DOMAIN new /\ new[c].edited /\ new[c].students = old[c].students

\* Reading SMARTTT again keeps every correction in the rows it loaded.
CorrectionsKept ==
  [][\A r \in Requests : WriteCounts(r) =>
       \A p \in Listed(request[r].seen) \cap Listed(paper) : Keeps(request[r].seen[p].rows, paper'[p].rows)]_vars

\* "The department corrects any number, adds a class or removes one, and that stays": reading SMARTTT
\* again changes no correction that stands when it writes.
CorrectionsStay ==
  [][\A r \in Requests : WriteCounts(r) =>
       \A p \in Listed(paper) : Keeps(paper[p].rows, paper'[p].rows)]_vars

Seats(rows) == \E c \in DOMAIN rows : rows[c].edited /\ rows[c].students > 0

\* A number typed for a guessed class is never lost: a paper with seats the department entered still
\* has some after SMARTTT is read again, however the guess gave way.
SeatsKept ==
  [][\A r \in Requests : WriteCounts(r) =>
       \A p \in Listed(request[r].seen) \cap Listed(paper) :
         Seats(request[r].seen[p].rows) => \E c \in DOMAIN paper'[p].rows : paper'[p].rows[c].students > 0]_vars

\* After a reading the paper's classes are SMARTTT's and the corrected ones: every class SMARTTT names
\* for its sitting has a row, a row nobody set has SMARTTT's number, and a guess stands only alone.
RowsAreSmarttts ==
  [][\A r \in Requests : WriteCounts(r) =>
       \A p \in Listed(request[r].seen) \cap Listed(paper) :
         LET seen  == request[r].seen
             fresh == SmartttRows(request[r].e, seen[p].sitting, HasOdelTwin(seen))
             rows  == paper'[p].rows
         IN /\ DOMAIN fresh \subseteq DOMAIN rows
            /\ \A c \in DOMAIN rows : ~rows[c].edited => c \in DOMAIN fresh /\ rows[c].students = fresh[c]
            /\ Guessed(rows) # {} => \A c \in DOMAIN rows \ {Guess} : ~Sits(rows[c])]_vars

\* A heading's number is its whole class's on the papers it names: no other row of the class adds to it
\* and no guess stays beside it.
LetterIsWhole ==
  [][\A r \in Requests : WriteUpload(r) =>
       \A s \in DOMAIN request[r].upload.lines :
         request[r].upload.lines[s] > 0 =>
           \E p \in OfSitting(paper', s) :
             LET rows == paper'[p].rows
             IN /\ LetterClass[s] \in DOMAIN rows
                /\ rows[LetterClass[s]].students = request[r].upload.lines[s]
                /\ \A c \in (DOMAIN rows \cap Cohort) \ {LetterClass[s]} :
                     s = "odel" \/ c \notin OdelClasses => rows[c].students = 0
                /\ Guessed(rows) \subseteq {LetterClass[s]}]_vars

=============================================================================
