--------------------------- MODULE MCClassSession ---------------------------
(* ClassSession on small sets.  The meeting ends before the clock does, so  *)
(* that requests run before, inside and after the window.                  *)
EXTENDS ClassSessionRegister, TLC

CONSTANTS s1, c1, c2, e1, e2, hall, away, nowhere

OneStudent == {s1}
OneScan == {c1}
TwoScans == {c1, c2}
OneEdit == {e1}
TwoEdits == {e1, e2}
HallAndAway == {hall, away}
QrOnly == {"QR"}
QrAndFace == {"QR", "FACE"}
OneMeeting == {[start |-> 0, end |-> 1]}

Interchangeable ==
  Permutations(TwoScans) \cup Permutations(TwoEdits) \cup Permutations(HallAndAway)

=============================================================================
