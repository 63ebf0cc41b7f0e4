---------------------------- MODULE MCTerminals ----------------------------
(* Terminals with two handhelds that take over from each other, and two     *)
(* classes of which one is another department's.                            *)
EXTENDS Terminals

CONSTANTS d1, d2, own, foreign, none, o1, x1, x2

TwoDevices == {d1, d2}
BothClasses == {own, foreign}
OwnOnly == {own}
OneOfficer == {o1}
OneCall == {x1}
TwoCalls == {x1, x2}

=============================================================================
