--------------------------- MODULE MCExamPapers ---------------------------
(* ExamPapers with the guessed class, two rows of the letter's class and   *)
(* its ODEL row.                                                           *)
EXTENDS ExamPapers, TLC

CONSTANTS p1, p2, guess, whole, stream, odel, r1, none

OnePaper == {p1}
TwoPapers == {p1, p2}
PaperSymmetry == Permutations(TwoPapers)
AllClasses == {guess, whole, stream, odel}
JustOdel == {odel}
LettersClass == {whole, stream, odel}
LetterRows == [s \in Sittings |-> IF s = "odel" THEN odel ELSE whole]
OneRequest == {r1}
\* A number typed for the guess, or for a stream; every class the page showed beside it is removed.
SomeLists == {[c \in {guess} |-> 1], [c \in {stream} |-> 1]}
\* Two classes nobody synced; the guessed class beside two that somebody did, one of them ODEL.
SomeTimetables ==
  {[c \in {whole, stream} |-> 0], [c \in {guess, whole, odel} |-> IF c = guess THEN 0 ELSE 1]}

=============================================================================
