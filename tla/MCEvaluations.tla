--------------------------- MODULE MCEvaluations ---------------------------
(* One round over two units, asked about one request at a time. *)
EXTENDS Evaluations

CONSTANTS s1, s2, u1, u2, l1, d1, c1

TwoStudents == {s1, s2}
TwoUnits == {u1, u2}
OneOwner == {<<l1, d1>>}
OneScope == {{d1}}
OneRequest == {c1}
OneWindow == {<<0, 1>>}

=============================================================================
