----------------------- MODULE MCFingerprintEnrolment -----------------------
(* FingerprintEnrolment with two students on a reader of two slots.         *)
EXTENDS FingerprintEnrolment, TLC

CONSTANTS s1, s2, nobody

TwoStudents == {s1, s2}
BothKinds == {"ESP32", "ANDROID"}
BoxOnly == {"ESP32"}
MessagesLost == {"REQUEST_LOST", "REPLY_LOST"}
WorkingReader == MessagesLost \cup {"POWER_LOST"}

=============================================================================
