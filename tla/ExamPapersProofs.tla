------------------------- MODULE ExamPapersProofs -------------------------
(* What holds of a department's exam papers for any number of papers,      *)
(* classes, students and requests at a time.                               *)
EXTENDS ExamPapers, FiniteSetTheorems, TLAPS

USE ExamPapersAssumption

-----------------------------------------------------------------------------
(* The rows that the operators on rows make.                               *)

LEMMA SmartttRowsType ==
  ASSUME NEW e, IsAnswer(e), NEW s, NEW twin
  PROVE  IsAnswer(SmartttRows(e, s, twin))
BY DEF IsAnswer, SmartttRows

LEMMA WithFreshType ==
  ASSUME NEW was, IsRows(was), NEW fresh, IsAnswer(fresh)
  PROVE  /\ IsRows(WithFresh(was, fresh))
         /\ DOMAIN WithFresh(was, fresh) = KeptRows(was, fresh) \cup DOMAIN fresh
<1> DEFINE kept == KeptRows(was, fresh)
<1>1. kept \subseteq DOMAIN was /\ kept \subseteq Classes
  BY DEF KeptRows, IsRows
<1>2. ASSUME NEW c \in kept PROVE KeptRow(was[c], c, fresh) \in Row
  BY <1>1, <1>2 DEF KeptRow, IsRows, IsAnswer, Row
<1>3. ASSUME NEW c \in DOMAIN fresh PROVE Synced(fresh[c]) \in Row
  BY <1>3 DEF Synced, IsAnswer, Row
<1>4. WithFresh(was, fresh) \in [kept \cup DOMAIN fresh -> Row]
  BY <1>2, <1>3 DEF WithFresh
<1>5. kept \cup DOMAIN fresh \subseteq Classes
  BY <1>1 DEF IsAnswer
<1>6. QED
  BY <1>4, <1>5 DEF IsRows

\* The rows of a reading are built in one of three ways; guesses are the one row that may give way.
LEMMA MergedCases ==
  ASSUME NEW was, IsRows(was), NEW fresh, IsAnswer(fresh), NEW new \in Merged(was, fresh)
  PROVE  LET guesses == GivesWay(was, fresh)
             out     == WithFresh(was, fresh)
             real    == {c \in DOMAIN out : Sits(out[c])}
         IN \/ /\ real = {}
               /\ new = [c \in DOMAIN out \cup guesses |-> IF c \in guesses THEN was[c] ELSE out[c]]
            \/ /\ real # {}
               /\ guesses = {Guess} /\ was[Guess].students > 0
               /\ \A c \in real : out[c].students = 0
               /\ new \in SharedOut(out, real, was[Guess].students)
            \/ /\ real # {}
               /\ new = out
               /\ guesses # {} /\ was[Guess].students > 0 => \E c \in real : out[c].students # 0
<1> DEFINE guesses == GivesWay(was, fresh)
           out     == WithFresh(was, fresh)
           real    == {c \in DOMAIN out : Sits(out[c])}
           typed   == IF guesses = {} THEN 0 ELSE was[Guess].students
<1>1. guesses \subseteq {Guess}
  BY DEF GivesWay, Guessed
<1>2. new \in (IF real = {}
               THEN {[c \in DOMAIN out \cup guesses |-> IF c \in guesses THEN was[c] ELSE out[c]]}
               ELSE IF typed > 0 /\ \A c \in real : out[c].students = 0
               THEN SharedOut(out, real, typed)
               ELSE {out})
  BY DEF Merged
<1>3. CASE real = {}
  BY <1>2, <1>3
<1>4. CASE real # {} /\ typed > 0 /\ \A c \in real : out[c].students = 0
  <2>1. guesses = {Guess} /\ typed = was[Guess].students
    BY <1>1, <1>4
  <2> HIDE DEF out, real, guesses
  <2>2. new \in SharedOut(out, real, typed)
    BY <1>2, <1>4
  <2>3. QED
    BY <1>4, <2>1, <2>2 DEF out, real, guesses
<1>5. CASE real # {} /\ ~(typed > 0 /\ \A c \in real : out[c].students = 0)
  <2> HIDE DEF out, real, guesses
  <2>1. new = out
    BY <1>2, <1>5
  <2>2. ASSUME guesses # {}, was[Guess].students > 0 PROVE \E c \in real : out[c].students # 0
    BY <1>5, <2>2
  <2>3. QED
    BY <1>5, <2>1, <2>2 DEF out, real, guesses
<1>6. QED
  BY <1>3, <1>4, <1>5

LEMMA SharedOutType ==
  ASSUME NEW out, IsRows(out), NEW real, real \subseteq DOMAIN out, real # {},
         NEW typed \in Nat, NEW new \in SharedOut(out, real, typed)
  PROVE  /\ IsRows(new) /\ DOMAIN new = DOMAIN out
         /\ \A c \in DOMAIN out \ real : new[c] = out[c]
         /\ \A c \in real : new[c].edited /\ new[c].smarttt = out[c].smarttt
<1> DEFINE n == Cardinality(real)
<1>1. IsFiniteSet(real) /\ n \in Nat \ {0}
  <2>1. IsFiniteSet(real)
    BY FS_Subset DEF IsRows
  <2>2. QED
    BY <2>1, FS_CardinalityType, FS_EmptySet
<1> HIDE DEF n
<1>2. PICK lucky \in SUBSET real :
        new = [c \in DOMAIN out |-> IF c \in real
                 THEN [out[c] EXCEPT !.students = Share(typed, n, c \in lucky), !.edited = TRUE]
                 ELSE out[c]]
  BY DEF SharedOut, n
<1>3. \A c \in DOMAIN out : out[c] \in Row
  BY DEF IsRows
<1>4. ASSUME NEW c \in real
      PROVE [out[c] EXCEPT !.students = Share(typed, n, c \in lucky), !.edited = TRUE] \in Row
  <2>1. Share(typed, n, c \in lucky) \in Nat
    BY <1>1 DEF Share
  <2>2. QED
    BY <2>1, <1>3 DEF Row
<1>5. \A c \in DOMAIN out : new[c] \in Row
  BY <1>2, <1>3, <1>4
<1>6. IsRows(new) /\ DOMAIN new = DOMAIN out
  BY <1>2, <1>5 DEF IsRows
<1>7. \A c \in DOMAIN out \ real : new[c] = out[c]
  BY <1>2
<1>8. \A c \in real : new[c].edited /\ new[c].smarttt = out[c].smarttt
  BY <1>2, <1>3 DEF Row
<1>9. QED
  BY <1>6, <1>7, <1>8

\* A reading writes rows of the table, keeps what was corrected, names SMARTTT's classes at SMARTTT's
\* numbers, and leaves a guess only where no class sits the paper.
LEMMA MergedRows ==
  ASSUME NEW was, IsRows(was), NEW fresh, IsAnswer(fresh), NEW new \in Merged(was, fresh)
  PROVE  /\ IsRows(new)
         /\ Keeps(was, new)
         /\ DOMAIN fresh \subseteq DOMAIN new
         /\ \A c \in DOMAIN new : ~new[c].edited => c \in DOMAIN fresh /\ new[c].students = fresh[c]
         /\ Guessed(new) # {} => \A c \in DOMAIN new \ {Guess} : ~Sits(new[c])
         /\ Guessed(new) \subseteq Guessed(was)
<1> DEFINE guesses == GivesWay(was, fresh)
           out     == WithFresh(was, fresh)
           real    == {c \in DOMAIN out : Sits(out[c])}
           kept    == KeptRows(was, fresh)
<1>1. IsRows(out) /\ DOMAIN out = kept \cup DOMAIN fresh
  BY WithFreshType
<1>2. /\ guesses \subseteq DOMAIN was /\ guesses \subseteq {Guess}
      /\ guesses \cap DOMAIN out = {}
      /\ \A c \in guesses : was[c].edited
  BY <1>1 DEF GivesWay, Guessed, KeptRows
<1>3. \A c \in DOMAIN was : was[c] \in Row
  BY DEF IsRows
<1>4. \A c \in DOMAIN out : out[c] \in Row
  BY <1>1 DEF IsRows
<1>5. ASSUME NEW c \in kept
      PROVE  /\ out[c] = KeptRow(was[c], c, fresh)
             /\ out[c].edited /\ out[c].students = was[c].students
             /\ c \in DOMAIN fresh => out[c].smarttt = fresh[c]
  <2>1. out[c] = KeptRow(was[c], c, fresh) /\ was[c] \in Row /\ was[c].edited
    BY <1>1, <1>3 DEF WithFresh, KeptRows
  <2>2. QED
    BY <2>1 DEF KeptRow, Row
<1>6. ASSUME NEW c \in DOMAIN fresh \ kept
      PROVE  ~out[c].edited /\ out[c].students = fresh[c] /\ out[c].smarttt = fresh[c]
  BY <1>1 DEF WithFresh, Synced
<1>7. Corrected(was) \subseteq kept
  BY DEF Corrected, KeptRows, GivesWay, Guessed
<1>8. Guessed(out) \cap DOMAIN fresh = {}
  BY <1>1, <1>5, <1>6 DEF Guessed, IsAnswer
\* A guessed row that was kept is SMARTTT's by now.
<1>9. Guessed(out) = {}
  <2> SUFFICES ASSUME NEW c \in Guessed(out) PROVE FALSE
    OBVIOUS
  <2>1. c = Guess /\ c \in kept /\ c \notin DOMAIN fresh /\ out[c].smarttt = Absent
    BY <1>1, <1>8 DEF Guessed
  <2>2. was[c] \in Row /\ was[c].edited /\ c \in DOMAIN was
    BY <2>1, <1>3 DEF KeptRows
  <2>3. was[c].smarttt = Absent
    <3>1. 0 # Absent
      OBVIOUS
    <3>2. out[c] = KeptRow(was[c], c, fresh)
      BY <2>1, <1>5
    <3>3. KeptRow(was[c], c, fresh).smarttt = IF was[c].smarttt = Absent THEN Absent ELSE 0
      BY <2>1, <2>2 DEF KeptRow, Row
    <3>4. QED
      BY <2>1, <3>1, <3>2, <3>3
  <2>4. QED
    BY <2>1, <2>2, <2>3 DEF KeptRows, GivesWay, Guessed
<1> HIDE DEF guesses, out, kept
<1>10. CASE real = {} /\ new = [c \in DOMAIN out \cup guesses |-> IF c \in guesses THEN was[c] ELSE out[c]]
  <2>1. IsRows(new)
    BY <1>1, <1>2, <1>3, <1>4, <1>10 DEF IsRows
  <2>2. Keeps(was, new)
    BY <1>1, <1>2, <1>5, <1>7, <1>10 DEF Keeps, Corrected
  <2>3. DOMAIN fresh \subseteq DOMAIN new
    BY <1>1, <1>10
  <2>4. \A c \in DOMAIN new : new[c].edited
    BY <1>1, <1>2, <1>10 DEF Sits
  <2>5. \A c \in DOMAIN new \ {Guess} : ~Sits(new[c])
    BY <1>2, <1>10
  <2>6. Guessed(new) \subseteq guesses
    BY <1>2, <1>9, <1>10 DEF Guessed
  <2>7. guesses \subseteq Guessed(was)
    BY DEF guesses, GivesWay
  <2>8. QED
    BY <2>1, <2>2, <2>3, <2>4, <2>5, <2>6, <2>7
<1>11. ASSUME real # {}, guesses = {Guess}, \A c \in real : out[c].students = 0,
              new \in SharedOut(out, real, was[Guess].students)
       PROVE  /\ IsRows(new) /\ Keeps(was, new) /\ DOMAIN fresh \subseteq DOMAIN new
              /\ \A c \in DOMAIN new : ~new[c].edited => c \in DOMAIN fresh /\ new[c].students = fresh[c]
              /\ Guessed(new) = {}
  <2>1. was[Guess].students \in Nat
    BY <1>2, <1>3, <1>11 DEF Row
  <2>2. real \subseteq DOMAIN out
    OBVIOUS
  <2>3. /\ IsRows(new) /\ DOMAIN new = DOMAIN out
        /\ \A c \in DOMAIN out \ real : new[c] = out[c]
        /\ \A c \in real : new[c].edited /\ new[c].smarttt = out[c].smarttt
    <3> HIDE DEF real
    <3>1. QED
      BY <1>1, <1>11, <2>1, <2>2, SharedOutType
  <2>4. \A c \in real : ~out[c].edited
    BY <1>4, <1>11 DEF Sits, Row
  <2>5. Keeps(was, new)
    BY <1>1, <1>5, <1>7, <2>3, <2>4 DEF Keeps, Corrected
  <2>6. \A c \in DOMAIN new : new[c].edited
    BY <2>3 DEF Sits
  <2>7. Guessed(new) = {}
    BY <1>9, <2>3 DEF Guessed
  <2>8. QED
    BY <1>1, <2>3, <2>5, <2>6, <2>7
<1>12. CASE new = out
  <2>1. Keeps(was, new)
    BY <1>1, <1>5, <1>7, <1>12 DEF Keeps, Corrected
  <2>2. \A c \in DOMAIN new : ~new[c].edited => c \in DOMAIN fresh /\ new[c].students = fresh[c]
    BY <1>1, <1>5, <1>6, <1>12
  <2>3. QED
    BY <1>1, <1>9, <1>12, <2>1, <2>2
<1>13. QED
  <2> USE DEF guesses, out
  <2>1. QED
    BY MergedCases, <1>10, <1>11, <1>12

LEMMA Division ==
  ASSUME NEW a \in Nat, NEW n \in Nat, n > 0
  PROVE  a \div n \in Nat /\ (a > 0 /\ a \div n = 0 => a % n > 0)
OBVIOUS

\* A number shared out is not lost: when it is too small to go round, it is what the remainder is.
LEMMA SharedOutSeats ==
  ASSUME NEW out, IsRows(out), NEW real, real \subseteq DOMAIN out, real # {},
         NEW typed \in Nat, typed > 0, NEW new \in SharedOut(out, real, typed)
  PROVE  \E c \in real : new[c].students > 0
<1> DEFINE n == Cardinality(real)
<1>1. IsFiniteSet(real) /\ n \in Nat /\ n > 0
  <2>1. IsFiniteSet(real)
    BY FS_Subset DEF IsRows
  <2>2. QED
    BY <2>1, FS_CardinalityType, FS_EmptySet
<1> DEFINE left == typed % n
<1> HIDE DEF n, left
<1>2. PICK lucky \in SUBSET real :
        /\ Cardinality(lucky) = left
        /\ new = [c \in DOMAIN out |-> IF c \in real
                    THEN [out[c] EXCEPT !.students = Share(typed, n, c \in lucky), !.edited = TRUE]
                    ELSE out[c]]
  BY DEF SharedOut, n, left
<1>3. \A c \in real : new[c].students = Share(typed, n, c \in lucky)
  BY <1>2 DEF IsRows, Row
<1>4. typed \div n \in Nat /\ (typed \div n = 0 => left # 0)
  BY <1>1, Division DEF left
<1>5. CASE typed \div n = 0
  <2>1. left # 0
    BY <1>4, <1>5
  <2>2. Cardinality({}) = 0
    BY FS_EmptySet
  <2>3. PICK c \in lucky : TRUE
    <3>1. Cardinality(lucky) # 0
      BY <1>2, <2>1
    <3>2. lucky # {}
      BY <2>2, <3>1, Zenon
    <3>3. QED
      BY <3>2
  <2>4. new[c].students = 1
    BY <1>3, <1>5, <2>3 DEF Share
  <2>5. QED
    BY <2>3, <2>4
<1>6. CASE typed \div n > 0
  <2>1. PICK c \in real : TRUE
    OBVIOUS
  <2>2. Share(typed, n, c \in lucky) > 0
    BY <1>4, <1>6 DEF Share
  <2>3. QED
    BY <1>3, <2>1, <2>2
<1>7. QED
  BY <1>4, <1>5, <1>6

LEMMA MergedSeats ==
  ASSUME NEW was, IsRows(was), NEW fresh, IsAnswer(fresh), NEW new \in Merged(was, fresh), Seats(was)
  PROVE  \E c \in DOMAIN new : new[c].students > 0
<1> DEFINE guesses == GivesWay(was, fresh)
           out     == WithFresh(was, fresh)
           real    == {c \in DOMAIN out : Sits(out[c])}
           kept    == KeptRows(was, fresh)
<1>1. IsRows(out) /\ DOMAIN out = kept \cup DOMAIN fresh
  BY WithFreshType
<1>2. \A c \in DOMAIN out : out[c] \in Row
  BY <1>1 DEF IsRows
<1>3. PICK seat \in DOMAIN was : was[seat].edited /\ was[seat].students > 0 /\ was[seat] \in Row
  BY DEF Seats, IsRows
<1>4. \/ seat \in kept /\ out[seat].students = was[seat].students /\ seat \in real
      \/ seat \in guesses /\ seat = Guess /\ was[Guess].students > 0
  <2>1. CASE seat \in guesses
    BY <1>3, <2>1 DEF GivesWay, Guessed
  <2>2. CASE seat \notin guesses
    <3>1. seat \in kept
      BY <1>3, <2>2 DEF KeptRows
    <3>2. out[seat].students = was[seat].students
      BY <1>1, <1>3, <3>1 DEF WithFresh, KeptRow, Row
    <3>3. QED
      BY <1>1, <1>3, <3>1, <3>2 DEF Sits
  <2>3. QED
    BY <2>1, <2>2
<1> HIDE DEF guesses, out, kept
<1>5. CASE real = {} /\ new = [c \in DOMAIN out \cup guesses |-> IF c \in guesses THEN was[c] ELSE out[c]]
  BY <1>3, <1>4, <1>5
<1>6. ASSUME real # {}, guesses = {Guess}, was[Guess].students > 0, \A c \in real : out[c].students = 0,
             new \in SharedOut(out, real, was[Guess].students)
      PROVE  \E c \in DOMAIN new : new[c].students > 0
  <2>1. was[Guess].students \in Nat
    <3>1. Guess \in DOMAIN was
      BY <1>6 DEF guesses, GivesWay, Guessed
    <3>2. QED
      BY <3>1 DEF IsRows, Row
  <2>2. real \subseteq DOMAIN out
    OBVIOUS
  <2>3. (\E c \in real : new[c].students > 0) /\ DOMAIN new = DOMAIN out
    <3> HIDE DEF real
    <3>1. QED
      BY <1>1, <1>6, <2>1, <2>2, SharedOutSeats, SharedOutType
  <2>4. QED
    BY <2>2, <2>3
<1>7. ASSUME real # {}, new = out,
             guesses # {} /\ was[Guess].students > 0 => \E c \in real : out[c].students # 0
      PROVE  \E c \in DOMAIN new : new[c].students > 0
  <2>1. CASE seat \in real /\ out[seat].students = was[seat].students
    BY <1>3, <1>7, <2>1
  <2>2. CASE seat \in guesses /\ was[Guess].students > 0
    <3>1. PICK c \in real : out[c].students # 0
      BY <1>7, <2>2
    <3>2. QED
      BY <1>2, <1>7, <3>1 DEF Row
  <2>3. QED
    BY <1>4, <2>1, <2>2
<1>8. QED
  <2> USE DEF guesses, out
  <2>1. QED
    BY MergedCases, <1>5, <1>6, <1>7

\* A heading's number is its row's; the class's other rows are at 0 and its guess is gone.
LEMMA LetterRows ==
  ASSUME NEW was, NEW rows, IsRows(rows), NEW n \in Nat, NEW s \in Sittings,
         Guessed(rows) \subseteq Guessed(was)
  PROVE  /\ IsRows(WithLetterClasses(was, rows, n, s))
         /\ n > 0 =>
              LET new == WithLetterClasses(was, rows, n, s)
              IN /\ LetterClass[s] \in DOMAIN new /\ new[LetterClass[s]].students = n
                 /\ \A c \in (DOMAIN new \cap Cohort) \ {LetterClass[s]} :
                      s = "odel" \/ c \notin OdelClasses => new[c].students = 0
                 /\ Guessed(new) \subseteq {LetterClass[s]}
<1> DEFINE left    == DOMAIN rows \ Guessed(was)
           counted == {c \in left \cap Covered(s) : rows[c].smarttt # Absent}
           named   == LetterClass[s]
           new     == WithLetterClasses(was, rows, n, s)
<1>1. CASE n = 0
  BY <1>1 DEF WithLetterClasses
<1>2. CASE n > 0
  <2>1. new = [c \in (left \ Covered(s)) \cup counted \cup {named} |->
                 IF c = named
                 THEN [students |-> n, smarttt |-> IF counted = {} THEN Absent ELSE 0, edited |-> TRUE]
                 ELSE IF c \in counted THEN [rows[c] EXCEPT !.students = 0, !.edited = TRUE] ELSE rows[c]]
    BY <1>2, n # 0, Zenon DEF WithLetterClasses
  <2>2. \A c \in DOMAIN rows : rows[c] \in Row
    BY DEF IsRows
  <2>3. named \in Classes /\ named \in Cohort
    BY DEF Sittings
  <2> HIDE DEF new
  <2>4. DOMAIN new = (left \ Covered(s)) \cup counted \cup {named}
    BY <2>1
  <2>5. new[named] = [students |-> n, smarttt |-> IF counted = {} THEN Absent ELSE 0, edited |-> TRUE]
    BY <2>1
  <2>6. \A c \in counted \ {named} : new[c] \in Row /\ new[c].students = 0 /\ new[c].smarttt = rows[c].smarttt
    BY <2>1, <2>2 DEF Row
  <2>7. \A c \in (left \ Covered(s)) \ {named} : new[c] = rows[c]
    BY <2>1
  <2>8. new[named] \in Row
    BY <2>5 DEF Row
  <2>9. \A c \in DOMAIN new : new[c] \in Row
    BY <2>2, <2>4, <2>6, <2>7, <2>8
  <2>10. IsRows(new)
    <3>1. DOMAIN new \subseteq Classes
      BY <2>3, <2>4 DEF IsRows
    <3>2. new \in [DOMAIN new -> Row]
      BY <2>1, <2>4, <2>9
    <3>3. QED
      BY <3>1, <3>2 DEF IsRows
  <2>11. \A c \in (DOMAIN new \cap Cohort) \ {named} : s = "odel" \/ c \notin OdelClasses => new[c].students = 0
    BY <2>4, <2>6 DEF Covered
  <2>12. Guessed(new) \subseteq {named}
    <3> SUFFICES ASSUME NEW c \in Guessed(new), c # named PROVE FALSE
      OBVIOUS
    <3>1. c \in DOMAIN new /\ c = Guess /\ new[c].smarttt = Absent
      BY DEF Guessed
    <3>2. c \in left /\ rows[c].smarttt = Absent
      BY <2>4, <2>6, <2>7, <3>1
    <3>3. QED
      BY <3>1, <3>2 DEF Guessed
  <2>13. QED
    BY <2>4, <2>5, <2>10, <2>11, <2>12 DEF new
<1>3. QED
  BY <1>1, <1>2

LEMMA ApplyRowsType ==
  ASSUME NEW was, IsRows(was), NEW given \in RowLists
  PROVE  IsRows(ApplyRows(was, given))
<1> DEFINE count(c) == IF c \in DOMAIN was THEN was[c].smarttt ELSE Absent
           dom == DOMAIN given \cup {k \in DOMAIN was : was[k].smarttt # Absent}
<1>1. \A c \in DOMAIN was : was[c] \in Row
  BY DEF IsRows
<1>2. \A c \in DOMAIN given : given[c] \in Nat
  OBVIOUS
<1>3. dom \subseteq Classes
  BY DEF IsRows
<1>4. ASSUME NEW c \in DOMAIN given
      PROVE  [students |-> given[c], smarttt |-> count(c),
              edited |-> (IF c \in DOMAIN was THEN was[c].edited ELSE FALSE) \/ count(c) = Absent \/ given[c] # count(c)] \in Row
  <2>1. count(c) \in Nat \cup {Absent}
    BY <1>1 DEF Row
  <2> HIDE DEF count
  <2>2. QED
    BY <1>2, <2>1 DEF Row
<1>5. ASSUME NEW c \in dom \ DOMAIN given
      PROVE  [was[c] EXCEPT !.students = 0, !.edited = TRUE] \in Row
  <2>1. was[c] \in Row
    BY <1>1
  <2>2. QED
    BY <2>1 DEF Row
<1>6. ApplyRows(was, given) \in [dom -> Row]
  BY <1>4, <1>5 DEF ApplyRows
<1>7. QED
  BY <1>3, <1>6 DEF IsRows

-----------------------------------------------------------------------------
(* The papers a step writes.                                               *)

LEMMA ListedPaper ==
  ASSUME NEW ps, ArePapers(ps), NEW p \in Listed(ps)
  PROVE  /\ p \in Papers
         /\ ps[p] = [sitting |-> ps[p].sitting, rows |-> ps[p].rows, signed |-> ps[p].signed]
         /\ ps[p].sitting \in Sittings /\ IsRows(ps[p].rows) /\ ps[p].signed \in Sittings \cup {"never"}
BY DEF Listed, ArePapers, IsPaper

LEMMA APaper ==
  ASSUME NEW s \in Sittings, NEW rows, IsRows(rows), NEW g \in Sittings \cup {"never"}
  PROVE  LET x == [sitting |-> s, rows |-> rows, signed |-> g]
         IN IsPaper(x) /\ x \notin {Unused, Gone}
<1> DEFINE x == [sitting |-> s, rows |-> rows, signed |-> g]
<1>1. x.sitting = s /\ x.rows = rows /\ x.signed = g
  OBVIOUS
<1>2. DOMAIN x = {"sitting", "rows", "signed"}
  OBVIOUS
<1>3. DOMAIN Unused = {"row"} /\ DOMAIN Gone = {"row"}
  BY DEF Unused, Gone
<1>4. "row" \notin DOMAIN x
  BY <1>2
<1>5. x \notin {Unused, Gone}
  BY <1>3, <1>4
<1> HIDE DEF x
<1>6. IsPaper(x)
  <2>1. x = [sitting |-> x.sitting, rows |-> x.rows, signed |-> x.signed]
    BY <1>1 DEF x
  <2>2. QED
    BY <1>1, <2>1 DEF IsPaper
<1>7. QED
  BY <1>5, <1>6 DEF x

\* What a reading makes of each paper it loaded.
LEMMA RecountRows ==
  ASSUME NEW seen, ArePapers(seen), NEW e, IsAnswer(e), NEW out \in Recounts(seen, e)
  PROVE  /\ DOMAIN out = Listed(seen)
         /\ \A p \in Listed(seen) : out[p] \in Merged(seen[p].rows, SmartttRows(e, seen[p].sitting, HasOdelTwin(seen)))
         /\ \A p \in Listed(seen) : IsRows(out[p])
<1>1. /\ DOMAIN out = Listed(seen)
      /\ \A p \in Listed(seen) : out[p] \in Merged(seen[p].rows, SmartttRows(e, seen[p].sitting, HasOdelTwin(seen)))
  BY DEF Recounts
<1>2. ASSUME NEW p \in Listed(seen) PROVE IsRows(out[p])
  <2>1. IsRows(seen[p].rows)
    BY ListedPaper
  <2>2. IsAnswer(SmartttRows(e, seen[p].sitting, HasOdelTwin(seen)))
    BY SmartttRowsType
  <2>3. QED
    BY <1>1, <2>1, <2>2, MergedRows
<1>3. QED
  BY <1>1, <1>2

LetterHolds(rows, n, s) ==
  /\ LetterClass[s] \in DOMAIN rows /\ rows[LetterClass[s]].students = n
  /\ \A c \in (DOMAIN rows \cap Cohort) \ {LetterClass[s]} :
       s = "odel" \/ c \notin OdelClasses => rows[c].students = 0
  /\ Guessed(rows) \subseteq {LetterClass[s]}

\* What an upload makes of a line's paper.
LEMMA LineRows ==
  ASSUME ArePapers(paper), NEW s \in Sittings, NEW upload, upload.lines[s] \in Nat, NEW p \in Papers,
         NEW e, e = Absent \/ IsAnswer(e), NEW rows \in SavedRows(upload, e, s, p)
  PROVE  IsRows(rows) /\ (upload.lines[s] > 0 => LetterHolds(rows, upload.lines[s], s))
<1> DEFINE twin == HasOdelTwin(paper) \/ "odel" \in DOMAIN upload.lines
           was  == RowsOf(p)
<1>1. IsRows(was)
  <2>1. IsRows(NoRows)
    BY DEF IsRows, NoRows
  <2>2. QED
    BY <2>1, ListedPaper DEF RowsOf
<1>2. PICK base \in (IF e = Absent THEN {was} ELSE Merged(was, SmartttRows(e, s, twin))) :
        rows = WithLetterClasses(was, base, upload.lines[s], s)
  BY DEF SavedRows
<1>3. IsRows(base) /\ Guessed(base) \subseteq Guessed(was)
  <2>1. CASE e = Absent
    BY <1>1, <1>2, <2>1
  <2>2. CASE e # Absent
    <3>1. IsAnswer(SmartttRows(e, s, twin))
      BY <2>2, SmartttRowsType
    <3>2. base \in Merged(was, SmartttRows(e, s, twin))
      BY <1>2, <2>2
    <3> HIDE DEF was, twin
    <3>3. QED
      BY <1>1, <3>1, <3>2, MergedRows
  <2>3. QED
    BY <2>1, <2>2
<1> DEFINE n == upload.lines[s]
<1> HIDE DEF was, n
<1>4. n \in Nat /\ rows = WithLetterClasses(was, base, n, s)
  BY <1>2 DEF n
<1>5. IsRows(rows)
  BY <1>3, <1>4, LetterRows
<1>6. n > 0 => LetterHolds(rows, n, s)
  BY <1>3, <1>4, LetterRows DEF LetterHolds
<1>7. QED
  BY <1>5, <1>6 DEF n

-----------------------------------------------------------------------------
(* The state's types.                                                      *)

LEMMA InitType == Init => TypeOK
<1> SUFFICES ASSUME Init PROVE TypeOK
  OBVIOUS
<1>1. ArePapers(paper)
  BY DEF Init, ArePapers, IsPaper
<1>2. IsAnswer(smarttt)
  BY DEF Init, IsAnswer
<1>3. request = [r \in Requests |-> request[r]] /\ \A r \in Requests : IsFrame(request[r])
  BY DEF Init, IsFrame
<1>4. QED
  BY <1>1, <1>2, <1>3 DEF Init, TypeOK

\* A step that writes papers writes papers.
LEMMA NewPapers ==
  ASSUME ArePapers(paper), NEW f, paper' = [p \in Papers |-> f[p]], \A p \in Papers : IsPaper(f[p])
  PROVE  ArePapers(paper')
BY DEF ArePapers

\* A listed paper with new rows, a new sitting or a new signature is a listed paper.
LEMMA ChangedPaper ==
  ASSUME NEW ps, ArePapers(ps), NEW p \in Listed(ps)
  PROVE  /\ \A rows : IsRows(rows) => IsPaper([ps[p] EXCEPT !.rows = rows]) /\ [ps[p] EXCEPT !.rows = rows] \notin {Unused, Gone}
         /\ \A s \in Sittings : IsPaper([ps[p] EXCEPT !.sitting = s]) /\ [ps[p] EXCEPT !.sitting = s] \notin {Unused, Gone}
         /\ LET x == [ps[p] EXCEPT !.signed = ps[p].sitting]
            IN IsPaper(x) /\ x \notin {Unused, Gone} /\ x.signed = x.sitting /\ x.sitting = ps[p].sitting
<1> DEFINE x == ps[p]
<1>1. /\ x = [sitting |-> x.sitting, rows |-> x.rows, signed |-> x.signed]
      /\ x.sitting \in Sittings /\ IsRows(x.rows) /\ x.signed \in Sittings \cup {"never"}
  BY ListedPaper
<1> HIDE DEF x
<1>2. ASSUME NEW rows, IsRows(rows)
      PROVE  IsPaper([x EXCEPT !.rows = rows]) /\ [x EXCEPT !.rows = rows] \notin {Unused, Gone}
  <2>1. [x EXCEPT !.rows = rows] = [sitting |-> x.sitting, rows |-> rows, signed |-> x.signed]
    BY <1>1
  <2>2. QED
    BY <1>1, <1>2, <2>1, APaper
<1>3. ASSUME NEW s \in Sittings
      PROVE  IsPaper([x EXCEPT !.sitting = s]) /\ [x EXCEPT !.sitting = s] \notin {Unused, Gone}
  <2>1. [x EXCEPT !.sitting = s] = [sitting |-> s, rows |-> x.rows, signed |-> x.signed]
    BY <1>1
  <2>2. QED
    BY <1>1, <2>1, APaper
<1>4. LET y == [x EXCEPT !.signed = x.sitting]
      IN IsPaper(y) /\ y \notin {Unused, Gone} /\ y.signed = y.sitting /\ y.sitting = x.sitting
  <2> DEFINE y == [x EXCEPT !.signed = x.sitting]
  <2>1. y = [sitting |-> x.sitting, rows |-> x.rows, signed |-> x.sitting]
    BY <1>1
  <2>2. y.signed = y.sitting /\ y.sitting = x.sitting
    BY <2>1
  <2> HIDE DEF y
  <2>3. IsPaper(y) /\ y \notin {Unused, Gone}
    BY <1>1, <2>1, APaper
  <2>4. QED
    BY <2>2, <2>3 DEF y
<1>5. QED
  BY <1>2, <1>3, <1>4 DEF x

\* What a frame holds.
LEMMA SaveFrame ==
  ASSUME NEW f, IsFrame(f), f.op = "save"
  PROVE  /\ f = [op |-> f.op, upload |-> f.upload, e |-> f.e]
         /\ f.upload \in Uploads
         /\ DOMAIN f.upload.lines \subseteq Sittings
         /\ \A s \in DOMAIN f.upload.lines : f.upload.lines[s] \in Nat
         /\ f.e = Absent \/ IsAnswer(f.e)
<1>1. /\ f = [op |-> f.op, upload |-> f.upload, e |-> f.e]
      /\ f.upload \in Uploads /\ (f.e = Absent \/ IsAnswer(f.e))
  BY DEF IsFrame, Idle
<1>2. PICK ss \in SUBSET Sittings : f.upload.lines \in [ss -> Numbers \cup {0}]
  <2>1. CASE f.upload \in [lines : UNION {[ss -> Numbers \cup {0}] : ss \in SUBSET Sittings \ {{}}}, replaces : {Absent}]
    BY <2>1
  <2>2. CASE f.upload \in [lines : [{"odel"} -> Numbers \cup {0}], replaces : Papers]
    <3>1. {"odel"} \in SUBSET Sittings
      BY DEF Sittings
    <3>2. QED
      BY <2>2, <3>1
  <2>3. QED
    BY <1>1, <2>1, <2>2 DEF Uploads
<1>3. QED
  BY <1>1, <1>2

LEMMA ReadFrame ==
  ASSUME NEW f, IsFrame(f), f.op \in {"recount", "refresh"}
  PROVE  /\ f = [op |-> f.op, seen |-> f.seen, e |-> f.e]
         /\ ArePapers(f.seen)
         /\ f.e = Absent \/ IsAnswer(f.e)
BY DEF IsFrame, Idle

\* Every line is written to a paper of its own, and no other paper is touched.
LEMMA UploadWrites ==
  ASSUME TypeOK, NEW r \in Requests, WriteUpload(r)
  PROVE  LET upload == request[r].upload
             lines  == DOMAIN upload.lines
         IN \E to \in [lines -> Papers] : \E rows :
              /\ \A s \in lines : rows[s] \in SavedRows(upload, request[r].e, s, to[s])
              /\ \A s \in lines : paper'[to[s]] = SavedPaper(to[s], s, rows[s])
              /\ \A p \in Papers : (\A s \in lines : to[s] # p) => paper'[p] = paper[p]
              /\ paper' = [p \in Papers |-> paper'[p]]
<1> DEFINE upload == request[r].upload
           lines == DOMAIN upload.lines
           e == request[r].e
<1> DEFINE written(to, rows) ==
             /\ \A s, t \in lines : to[s] = to[t] => s = t
             /\ \A s \in lines : rows[s] \in SavedRows(upload, e, s, to[s])
             /\ paper' = [p \in Papers |->
                            IF \E s \in lines : to[s] = p
                            THEN LET s == CHOOSE t \in lines : to[t] = p IN SavedPaper(p, s, rows[s])
                            ELSE paper[p]]
<1>0. PICK to \in [lines -> Papers] : \E rows : written(to, rows)
  <2> DEFINE rowsFor(s, p) == SavedRows(upload, e, s, p)
  <2>1. \E to \in [lines -> Papers] :
          /\ \A s \in lines : to[s] \in Targets(upload, s)
          /\ \A s, t \in lines : to[s] = to[t] => s = t
          /\ \E rows \in [lines -> UNION {rowsFor(s, to[s]) : s \in lines}] :
               /\ \A s \in lines : rows[s] \in rowsFor(s, to[s])
               /\ paper' = [p \in Papers |->
                       IF \E s \in lines : to[s] = p
                       THEN LET s == CHOOSE t \in lines : to[t] = p IN SavedPaper(p, s, rows[s])
                       ELSE paper[p]]
    BY Zenon DEF WriteUpload
  <2> HIDE DEF lines, upload, e
  <2>2. QED
    BY <2>1, Zenon
<1>1. PICK rows : written(to, rows)
  BY <1>0, Zenon
<1> HIDE DEF lines, upload, e
<1>2. ASSUME NEW s \in lines PROVE paper'[to[s]] = SavedPaper(to[s], s, rows[s])
  <2>1. (CHOOSE t \in lines : to[t] = to[s]) = s
    BY <1>1
  <2>2. QED
    BY <1>1, <2>1
<1>3. \A p \in Papers : (\A s \in lines : to[s] # p) => paper'[p] = paper[p]
  BY <1>1
<1>4. paper' = [p \in Papers |-> paper'[p]]
  BY <1>1
<1>5. QED
  BY <1>1, <1>2, <1>3, <1>4 DEF lines, upload, e

LEMMA NextType == TypeOK /\ [Next]_vars => TypeOK'
<1> SUFFICES ASSUME TypeOK, [Next]_vars PROVE TypeOK'
  OBVIOUS
<1>1. /\ ArePapers(paper) /\ publication \in {"never", "standing", "reopened"} /\ IsAnswer(smarttt)
      /\ request = [r \in Requests |-> request[r]] /\ \A r \in Requests : IsFrame(request[r])
      /\ syncs \in Nat /\ edits \in Nat
  BY DEF TypeOK
\* Actions that leave the frames alone, up to the papers they write.
<1>2. ASSUME ArePapers(paper'), publication' \in {"never", "standing", "reopened"},
             edits' \in Nat, UNCHANGED <<smarttt, request, syncs>>
      PROVE  TypeOK'
  BY <1>1, <1>2 DEF TypeOK
\* Actions on a frame.
<1>3. ASSUME NEW r \in Requests, NEW f, IsFrame(f), request' = [request EXCEPT ![r] = f],
             ArePapers(paper'), edits' \in Nat, UNCHANGED <<publication, smarttt, syncs>>
      PROVE  TypeOK'
  <2>1. request' = [q \in Requests |-> request'[q]]
    BY <1>1, <1>3
  <2>2. \A q \in Requests : IsFrame(request'[q])
    BY <1>1, <1>3
  <2>3. QED
    BY <1>1, <1>3, <2>1, <2>2 DEF TypeOK
<1>4. IsPaper(Gone) /\ IsFrame(Idle)
  BY DEF IsPaper, IsFrame
<1>5. paper = [p \in Papers |-> paper[p]] /\ \A p \in Papers : IsPaper(paper[p])
  BY <1>1 DEF ArePapers
<1>6. CASE SetRows
  <2>1. PICK ps \in SUBSET Listed(paper) : \E given \in [ps -> RowLists] :
          paper' = [p \in Papers |-> IF p \in ps
                                     THEN [paper[p] EXCEPT !.rows = ApplyRows(paper[p].rows, given[p])]
                                     ELSE paper[p]]
    BY <1>6 DEF SetRows
  <2>2. PICK given \in [ps -> RowLists] :
          paper' = [p \in Papers |-> IF p \in ps
                                     THEN [paper[p] EXCEPT !.rows = ApplyRows(paper[p].rows, given[p])]
                                     ELSE paper[p]]
    BY <2>1
  <2>3. ASSUME NEW p \in ps PROVE IsPaper([paper[p] EXCEPT !.rows = ApplyRows(paper[p].rows, given[p])])
    <3>1. IsRows(ApplyRows(paper[p].rows, given[p]))
      BY <1>1, ListedPaper, ApplyRowsType
    <3>2. QED
      BY <1>1, <3>1, ChangedPaper
  <2>4. ArePapers(paper')
    BY <1>5, <2>2, <2>3 DEF ArePapers
  <2>5. QED
    BY <1>1, <1>2, <1>6, <2>4 DEF SetRows, Edit
<1>7. CASE UpdatePaper
  <2>1. PICK p \in Listed(paper) : \E s \in Sittings : paper' = [paper EXCEPT ![p].sitting = s]
    BY <1>7 DEF UpdatePaper
  <2>2. PICK s \in Sittings : paper' = [paper EXCEPT ![p].sitting = s]
    BY <2>1
  <2>3. IsPaper([paper[p] EXCEPT !.sitting = s])
    BY <1>1, ChangedPaper
  <2>4. ArePapers(paper')
    BY <1>5, <2>2, <2>3 DEF ArePapers
  <2>5. QED
    BY <1>1, <1>2, <1>7, <2>4 DEF UpdatePaper, Edit
<1>8. CASE DeletePaper
  <2>1. ArePapers(paper')
    BY <1>4, <1>5, <1>8 DEF DeletePaper, ArePapers
  <2>2. QED
    BY <1>1, <1>2, <1>8, <2>1 DEF DeletePaper, Edit
<1>9. CASE RemoveList
  <2>1. ArePapers(paper')
    BY <1>4, <1>5, <1>9 DEF RemoveList, ArePapers
  <2>2. QED
    BY <1>1, <1>2, <1>9, <2>1 DEF RemoveList, Edit
<1>10. CASE Publish
  <2>1. \A p \in Listed(paper) : IsPaper([paper[p] EXCEPT !.signed = paper[p].sitting])
    BY <1>1, ChangedPaper
  <2>2. ArePapers(paper')
    BY <1>5, <1>10, <2>1 DEF Publish, Signed, ArePapers
  <2>3. QED
    BY <1>1, <1>2, <1>10, <2>2 DEF Publish
<1>11. CASE Reopen
  BY <1>1, <1>2, <1>11 DEF Reopen
<1>12. CASE SmartttChanges
  <2>1. IsAnswer(smarttt')
    BY <1>12 DEF SmartttChanges, IsAnswer
  <2>2. QED
    BY <1>1, <1>12, <2>1 DEF SmartttChanges, TypeOK
<1>13. ASSUME NEW r \in Requests, NEW op \in {"recount", "refresh"}, StartReading(r, op) PROVE TypeOK'
  <2>1. IsFrame([op |-> op, seen |-> paper, e |-> Absent])
    BY <1>1 DEF IsFrame
  <2>2. QED
    BY <1>1, <1>3, <1>13, <2>1 DEF StartReading
<1>14. ASSUME NEW r \in Requests, AskSmarttt(r) PROVE TypeOK'
  <2> DEFINE f == request[r]
  <2>1. f = [op |-> f.op, seen |-> f.seen, e |-> f.e] /\ ArePapers(f.seen) /\ f.op \in {"recount", "refresh"}
    BY <1>1, <1>14, ReadFrame DEF AskSmarttt
  <2>2. request' = [request EXCEPT ![r] = [f EXCEPT !.e = smarttt]]
    BY <1>1, <1>14 DEF AskSmarttt
  <2> HIDE DEF f
  <2>3. [f EXCEPT !.e = smarttt] = [op |-> f.op, seen |-> f.seen, e |-> smarttt]
    BY <2>1
  <2>4. IsFrame([op |-> f.op, seen |-> f.seen, e |-> smarttt])
    BY <1>1, <2>1 DEF IsFrame
  <2>5. QED
    BY <1>1, <1>3, <1>14, <2>2, <2>3, <2>4 DEF AskSmarttt
<1>15. ASSUME NEW r \in Requests, WriteCounts(r) PROVE TypeOK'
  <2>1. PICK out \in Recounts(request[r].seen, request[r].e) :
          paper' = [p \in Papers |-> IF p \in DOMAIN out \cap Listed(paper)
                                     THEN [paper[p] EXCEPT !.rows = out[p]]
                                     ELSE paper[p]]
    BY <1>15 DEF WriteCounts
  <2>2. ArePapers(request[r].seen) /\ IsAnswer(request[r].e)
    BY <1>1, <1>15, ReadFrame DEF WriteCounts
  <2>3. \A p \in DOMAIN out : IsRows(out[p])
    BY <2>2, RecountRows
  <2>4. \A p \in DOMAIN out \cap Listed(paper) : IsPaper([paper[p] EXCEPT !.rows = out[p]])
    BY <1>1, <2>3, ChangedPaper
  <2>5. ArePapers(paper')
    BY <1>5, <2>1, <2>4 DEF ArePapers
  <2>6. QED
    BY <1>1, <1>3, <1>4, <1>15, <2>5 DEF WriteCounts
<1>16. ASSUME NEW r \in Requests, NEW upload \in Uploads, StartSave(r, upload) PROVE TypeOK'
  <2>1. PICK e \in {smarttt, Absent} : request' = [request EXCEPT ![r] = [op |-> "save", upload |-> upload, e |-> e]]
    BY <1>16 DEF StartSave
  <2>2. IsFrame([op |-> "save", upload |-> upload, e |-> e])
    BY <1>1 DEF IsFrame
  <2>3. QED
    BY <1>1, <1>3, <1>16, <2>1, <2>2 DEF StartSave
<1>17. ASSUME NEW r \in Requests, WriteUpload(r) PROVE TypeOK'
  <2> DEFINE upload == request[r].upload
             lines == DOMAIN upload.lines
  <2>1. /\ lines \subseteq Sittings /\ \A s \in lines : upload.lines[s] \in Nat
        /\ request[r].e = Absent \/ IsAnswer(request[r].e)
    BY <1>1, <1>17, SaveFrame DEF WriteUpload
  <2>2. PICK to, rows :
          /\ to \in [lines -> Papers]
          /\ \A s \in lines : rows[s] \in SavedRows(upload, request[r].e, s, to[s])
          /\ \A s \in lines : paper'[to[s]] = SavedPaper(to[s], s, rows[s])
          /\ \A p \in Papers : (\A s \in lines : to[s] # p) => paper'[p] = paper[p]
          /\ paper' = [p \in Papers |-> paper'[p]]
    BY <1>17, UploadWrites
  <2>3. ASSUME NEW s \in lines PROVE IsPaper(SavedPaper(to[s], s, rows[s]))
    <3>1. IsRows(rows[s])
      BY <1>1, <2>1, <2>2, LineRows
    <3>2. (IF to[s] \in Listed(paper) THEN paper[to[s]].signed ELSE "never") \in Sittings \cup {"never"}
      BY <1>1, ListedPaper
    <3>3. QED
      BY <2>1, <3>1, <3>2, APaper DEF SavedPaper
  <2>4. ASSUME NEW p \in Papers PROVE IsPaper(paper'[p])
    BY <1>5, <2>2, <2>3
  <2>5. ArePapers(paper')
    BY <2>2, <2>4 DEF ArePapers
  <2>6. request' = [request EXCEPT ![r] = Idle] /\ edits' = edits + 1 /\ UNCHANGED <<publication, smarttt, syncs>>
    BY <1>17, Zenon DEF WriteUpload
  <2> HIDE DEF lines, upload
  <2>7. QED
    BY <1>1, <1>3, <1>4, <2>5, <2>6
<1>18. ASSUME NEW r \in Requests, Fail(r) PROVE TypeOK'
  BY <1>1, <1>3, <1>4, <1>18 DEF Fail
<1>19. CASE UNCHANGED vars
  BY <1>1, <1>19 DEF TypeOK, vars
<1>20. QED
  BY <1>6, <1>7, <1>8, <1>9, <1>10, <1>11, <1>12, <1>13, <1>14, <1>15, <1>16, <1>17, <1>18, <1>19 DEF Next

\* Every column holds what its type allows: the shares of a typed number and what is left of a class
\* when a letter names it are numbers of students (SharedOut, WithLetterClasses).
THEOREM ExamPapersTypes == Spec => []TypeOK
<1>1. QED
  BY InitType, NextType, PTL DEF Spec

-----------------------------------------------------------------------------
(* What a reading of SMARTTT writes.                                       *)

LEMMA CountsWritten ==
  ASSUME TypeOK, NEW r \in Requests, WriteCounts(r)
  PROVE  /\ \A p \in Listed(request[r].seen) \cap Listed(paper) :
              LET seen == request[r].seen
                  fresh == SmartttRows(request[r].e, seen[p].sitting, HasOdelTwin(seen))
              IN IsRows(seen[p].rows) /\ IsAnswer(fresh) /\ paper'[p].rows \in Merged(seen[p].rows, fresh)
         /\ Listed(paper') = Listed(paper)
         /\ \A p \in Listed(paper) : paper'[p].sitting = paper[p].sitting /\ paper'[p].signed = paper[p].signed
<1> DEFINE seen == request[r].seen
<1>1. ArePapers(seen) /\ IsAnswer(request[r].e) /\ ArePapers(paper)
  BY ReadFrame DEF WriteCounts, TypeOK
<1>2. PICK out \in Recounts(seen, request[r].e) :
        paper' = [p \in Papers |-> IF p \in DOMAIN out \cap Listed(paper)
                                   THEN [paper[p] EXCEPT !.rows = out[p]]
                                   ELSE paper[p]]
  BY DEF WriteCounts
<1> HIDE DEF seen
<1>3. /\ DOMAIN out = Listed(seen)
      /\ \A p \in Listed(seen) : out[p] \in Merged(seen[p].rows, SmartttRows(request[r].e, seen[p].sitting, HasOdelTwin(seen)))
      /\ \A p \in Listed(seen) : IsRows(out[p])
  BY <1>1, <1>2, RecountRows
<1>4. ASSUME NEW p \in Listed(seen) \cap Listed(paper)
      PROVE  /\ paper'[p].rows = out[p] /\ paper'[p] \notin {Unused, Gone}
             /\ paper'[p].sitting = paper[p].sitting /\ paper'[p].signed = paper[p].signed
  <2>1. p \in Papers /\ paper[p] = [sitting |-> paper[p].sitting, rows |-> paper[p].rows, signed |-> paper[p].signed]
    BY <1>1, ListedPaper
  <2>2. paper'[p] = [paper[p] EXCEPT !.rows = out[p]]
    BY <1>2, <1>3, <2>1
  <2>3. paper'[p] \notin {Unused, Gone}
    <3>1. p \in Listed(paper) /\ IsRows(out[p])
      BY <1>3
    <3>2. [paper[p] EXCEPT !.rows = out[p]] \notin {Unused, Gone}
      BY <1>1, <3>1, ChangedPaper
    <3>3. QED
      BY <2>2, <3>2
  <2>4. QED
    BY <2>1, <2>2, <2>3
<1>5. ASSUME NEW p \in Papers, p \notin Listed(seen) \cap Listed(paper) PROVE paper'[p] = paper[p]
  BY <1>2, <1>3, <1>5
<1>6. Listed(paper') = Listed(paper)
  BY <1>4, <1>5 DEF Listed
<1>7. \A p \in Listed(paper) : paper'[p].sitting = paper[p].sitting /\ paper'[p].signed = paper[p].signed
  BY <1>4, <1>5 DEF Listed
<1>8. ASSUME NEW p \in Listed(seen) \cap Listed(paper)
      PROVE  LET fresh == SmartttRows(request[r].e, seen[p].sitting, HasOdelTwin(seen))
             IN IsRows(seen[p].rows) /\ IsAnswer(fresh) /\ paper'[p].rows \in Merged(seen[p].rows, fresh)
  BY <1>1, <1>3, <1>4, ListedPaper, SmartttRowsType
<1>9. QED
  BY <1>6, <1>7, <1>8 DEF seen

\* A recount or an import never moves a number, an added class or a removal that the rows it loaded
\* held (merged): only what was corrected after it loaded them is at risk.
THEOREM LoadedCorrectionsAreKept == Spec => CorrectionsKept
<1>1. TypeOK => \A r \in Requests : WriteCounts(r) =>
        \A p \in Listed(request[r].seen) \cap Listed(paper) : Keeps(request[r].seen[p].rows, paper'[p].rows)
  BY CountsWritten, MergedRows
<1>2. QED
  BY <1>1, ExamPapersTypes, PTL DEF CorrectionsKept

\* Seats typed for a guessed class survive every reading (merged's sharing out): some class still has
\* some, whatever SMARTTT answers and however many classes it names.
THEOREM TypedSeatsAreKept == Spec => SeatsKept
<1>1. TypeOK => \A r \in Requests : WriteCounts(r) =>
        \A p \in Listed(request[r].seen) \cap Listed(paper) :
          Seats(request[r].seen[p].rows) => \E c \in DOMAIN paper'[p].rows : paper'[p].rows[c].students > 0
  BY CountsWritten, MergedSeats
<1>2. QED
  BY <1>1, ExamPapersTypes, PTL DEF SeatsKept

\* After a reading every class SMARTTT names has a row, every row nobody set is SMARTTT's at SMARTTT's
\* number, and a guess stands only where nobody else sits the paper (merged).
THEOREM ReadRowsAreSmarttts == Spec => RowsAreSmarttts
<1>1. ASSUME TypeOK, NEW r \in Requests, WriteCounts(r), NEW p \in Listed(request[r].seen) \cap Listed(paper)
      PROVE  LET seen  == request[r].seen
                 fresh == SmartttRows(request[r].e, seen[p].sitting, HasOdelTwin(seen))
                 rows  == paper'[p].rows
             IN /\ DOMAIN fresh \subseteq DOMAIN rows
                /\ \A c \in DOMAIN rows : ~rows[c].edited => c \in DOMAIN fresh /\ rows[c].students = fresh[c]
                /\ Guessed(rows) # {} => \A c \in DOMAIN rows \ {Guess} : ~Sits(rows[c])
  BY <1>1, CountsWritten, MergedRows
<1>2. TypeOK => \A r \in Requests : WriteCounts(r) =>
        \A p \in Listed(request[r].seen) \cap Listed(paper) :
          LET seen  == request[r].seen
              fresh == SmartttRows(request[r].e, seen[p].sitting, HasOdelTwin(seen))
              rows  == paper'[p].rows
          IN /\ DOMAIN fresh \subseteq DOMAIN rows
             /\ \A c \in DOMAIN rows : ~rows[c].edited => c \in DOMAIN fresh /\ rows[c].students = fresh[c]
             /\ Guessed(rows) # {} => \A c \in DOMAIN rows \ {Guess} : ~Sits(rows[c])
  BY <1>1
<1>3. QED
  BY <1>2, ExamPapersTypes, PTL DEF RowsAreSmarttts

-----------------------------------------------------------------------------
(* The published list.                                                     *)

\* Between being published and reopened the list changes only by the Director's import.
LEMMA StandingStep ==
  ASSUME TypeOK, [Next]_vars, publication = "standing", publication' = "standing", paper' # paper
  PROVE  \E r \in Requests : WriteCounts(r) /\ request[r].op = "refresh" /\ request' = [request EXCEPT ![r] = Idle]
<1>1. ~MayChange
  BY DEF MayChange
<1>2. \E r \in Requests : WriteCounts(r)
  <2>1. ~(SetRows \/ UpdatePaper \/ DeletePaper \/ RemoveList \/ Publish)
    BY <1>1 DEF SetRows, UpdatePaper, DeletePaper, RemoveList, Publish
  <2>2. ~(Reopen \/ SmartttChanges \/ UNCHANGED vars)
    BY DEF Reopen, SmartttChanges, vars
  <2>3. ASSUME NEW r \in Requests
        PROVE  /\ ~(\E op \in {"recount", "refresh"} : StartReading(r, op)) /\ ~AskSmarttt(r)
               /\ ~(\E upload \in Uploads : StartSave(r, upload)) /\ ~WriteUpload(r) /\ ~Fail(r)
    BY <1>1 DEF StartReading, AskSmarttt, StartSave, WriteUpload, Fail
  <2>4. QED
    BY <2>1, <2>2, <2>3 DEF Next
<1>3. QED
  BY <1>1, <1>2 DEF WriteCounts

\* Nothing an officer does, and no request that was under way when the list was published, changes it
\* behind the signature; the Director's import only moves numbers (requireOpen, refreshTerm).
THEOREM OnlyTheImportCounts == Spec => PublishedListHolds
<1>1. ASSUME TypeOK, [Next]_vars, publication = "standing", publication' = "standing", paper' # paper
      PROVE  /\ \E r \in Requests : request[r].op = "refresh" /\ request'[r] = Idle
             /\ Listed(paper') = Listed(paper)
             /\ \A p \in Listed(paper) : paper'[p].sitting = paper[p].sitting
  <2>1. PICK r \in Requests : WriteCounts(r) /\ request[r].op = "refresh" /\ request' = [request EXCEPT ![r] = Idle]
    BY <1>1, StandingStep
  <2>2. request'[r] = Idle
    BY <1>1, <2>1 DEF TypeOK
  <2>3. QED
    BY <1>1, <2>1, <2>2, CountsWritten
<1>2. TypeOK /\ [Next]_vars =>
        (publication = "standing" /\ publication' = "standing" /\ paper' # paper =>
           /\ \E r \in Requests : request[r].op = "refresh" /\ request'[r] = Idle
           /\ Listed(paper') = Listed(paper)
           /\ \A p \in Listed(paper) : paper'[p].sitting = paper[p].sitting)
  BY <1>1
<1>3. QED
  BY <1>2, ExamPapersTypes, PTL DEF PublishedListHolds, Spec

\* What is published is what was signed: setPaperSignatures writes what stands, and until the list is
\* reopened no step changes it (publish, requireOpen).
THEOREM PublishedAsSigned == Spec => []StandingAsSigned
<1>1. Init => StandingAsSigned
  BY DEF Init, StandingAsSigned
<1>2. ASSUME TypeOK, StandingAsSigned, [Next]_vars PROVE StandingAsSigned'
  <2> SUFFICES ASSUME publication' = "standing"
               PROVE  /\ Listed(paper') # {}
                      /\ \A p \in Listed(paper') : paper'[p].signed = paper'[p].sitting
    BY DEF StandingAsSigned
  <2>1. CASE publication = "standing" /\ paper' = paper
    BY <1>2, <2>1 DEF StandingAsSigned
  <2>2. CASE publication = "standing" /\ paper' # paper
    <3>1. PICK r \in Requests : WriteCounts(r)
      BY <1>2, <2>2, StandingStep
    <3>2. /\ Listed(paper') = Listed(paper)
          /\ \A p \in Listed(paper) : paper'[p].sitting = paper[p].sitting /\ paper'[p].signed = paper[p].signed
      BY <1>2, <3>1, CountsWritten
    <3>3. QED
      BY <1>2, <2>2, <3>2 DEF StandingAsSigned
  <2>3. CASE publication # "standing"
    <3>1. Publish
      BY <1>2, <2>3 DEF Next, vars, SetRows, UpdatePaper, DeletePaper, RemoveList, Reopen, SmartttChanges,
         StartReading, AskSmarttt, WriteCounts, StartSave, WriteUpload, Fail
    <3>2. ArePapers(paper) /\ paper' = [p \in Papers |-> IF p \in Listed(paper)
                                                        THEN [paper[p] EXCEPT !.signed = paper[p].sitting]
                                                        ELSE paper[p]]
      BY <1>2, <3>1 DEF TypeOK, Publish, Signed
    <3>3. ASSUME NEW p \in Listed(paper) PROVE paper'[p] \notin {Unused, Gone} /\ paper'[p].signed = paper'[p].sitting
      <4>1. p \in Papers
        BY DEF Listed
      <4>2. QED
        BY <3>2, <4>1, ChangedPaper
    <3>4. Listed(paper') = Listed(paper)
      BY <3>2, <3>3 DEF Listed
    <3>5. QED
      BY <3>1, <3>3, <3>4 DEF Publish
  <2>4. QED
    BY <2>1, <2>2, <2>3
<1>3. QED
  BY <1>1, <1>2, ExamPapersTypes, PTL DEF Spec

-----------------------------------------------------------------------------
(* The letter's number.                                                    *)

\* On every paper an upload names, a heading's number is the whole class's: the class's other rows are
\* at 0 and no guess adds to it, whatever SMARTTT answered (withLetterClasses, save).
THEOREM LetterNumberIsTheClass == Spec => LetterIsWhole
<1>1. ASSUME TypeOK, NEW r \in Requests, WriteUpload(r), NEW s \in DOMAIN request[r].upload.lines,
             request[r].upload.lines[s] > 0
      PROVE  \E p \in OfSitting(paper', s) : LetterHolds(paper'[p].rows, request[r].upload.lines[s], s)
  <2> DEFINE upload == request[r].upload
             lines == DOMAIN upload.lines
  <2>1. /\ lines \subseteq Sittings /\ \A t \in lines : upload.lines[t] \in Nat
        /\ request[r].e = Absent \/ IsAnswer(request[r].e)
    BY <1>1, SaveFrame DEF WriteUpload, TypeOK
  <2>2. PICK to, rows :
          /\ to \in [lines -> Papers]
          /\ \A t \in lines : rows[t] \in SavedRows(upload, request[r].e, t, to[t])
          /\ \A t \in lines : paper'[to[t]] = SavedPaper(to[t], t, rows[t])
    BY <1>1, UploadWrites
  <2>3. ArePapers(paper)
    BY <1>1 DEF TypeOK
  <2>4. IsRows(rows[s]) /\ LetterHolds(rows[s], upload.lines[s], s)
    BY <1>1, <2>1, <2>2, <2>3, LineRows
  <2>5. (IF to[s] \in Listed(paper) THEN paper[to[s]].signed ELSE "never") \in Sittings \cup {"never"}
    BY <2>3, ListedPaper
  <2>6. paper'[to[s]] = SavedPaper(to[s], s, rows[s])
    BY <1>1, <2>2
  <2>7. paper'[to[s]] \notin {Unused, Gone} /\ paper'[to[s]].sitting = s /\ paper'[to[s]].rows = rows[s]
    BY <1>1, <2>1, <2>4, <2>5, <2>6, APaper DEF SavedPaper
  <2>8. to[s] \in OfSitting(paper', s)
    BY <1>1, <2>2, <2>7 DEF OfSitting, Listed
  <2>9. QED
    BY <2>4, <2>7, <2>8
<1>2. TypeOK => \A r \in Requests : WriteUpload(r) =>
        \A s \in DOMAIN request[r].upload.lines :
          request[r].upload.lines[s] > 0 =>
            \E p \in OfSitting(paper', s) :
              LET rows == paper'[p].rows
              IN /\ LetterClass[s] \in DOMAIN rows
                 /\ rows[LetterClass[s]].students = request[r].upload.lines[s]
                 /\ \A c \in (DOMAIN rows \cap Cohort) \ {LetterClass[s]} :
                      s = "odel" \/ c \notin OdelClasses => rows[c].students = 0
                 /\ Guessed(rows) \subseteq {LetterClass[s]}
  BY <1>1 DEF LetterHolds
<1>3. QED
  BY <1>2, ExamPapersTypes, PTL DEF LetterIsWhole

=============================================================================
