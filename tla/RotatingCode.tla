---------------------------- MODULE RotatingCode ----------------------------
(* The code a lecturer's or an invigilator's screen shows: nothing of it is *)
(* stored, both ends compute it from the class's secret and the clock.      *)
(* Moments are milliseconds, a class is                                     *)
(* [id, secret, rotation, lecturer, status, opensAt, closesAt].             *)
EXTENDS Integers, Sequences

CONSTANTS
  AcceptPrevious,  \* QR_ACCEPT_PREVIOUS_WINDOWS
  LastSafe,        \* Number.MAX_SAFE_INTEGER
  Version,         \* TOKEN_VERSION
  Blank,           \* an empty part of a payload
  NoCode

CodeAssumption == AcceptPrevious \in Nat /\ LastSafe \in Nat /\ Blank # Version

Window(rotation) == 1000 * rotation
CounterFor(at, rotation) == at \div Window(rotation)

\* The HMAC, of which only this is used: equal ones were made from equal parts.
Sign(id, counter, secret) == <<"signed", id, counter, secret>>

CeilSeconds(span) == (span + 999) \div 1000
AtLeastOne(n) == IF n < 1 THEN 1 ELSE n

IssueToken(class, at) ==
  LET counter == CounterFor(at, class.rotation)
      rotatesAt == Window(class.rotation) * (counter + 1)
  IN [payload |-> <<Version, class.id, counter, Sign(class.id, counter, class.secret)>>,
      counter |-> counter,
      issuedAt |-> Window(class.rotation) * counter,
      rotatesAt |-> rotatesAt,
      expiresInSeconds |-> AtLeastOne(CeilSeconds(rotatesAt - at))]

\* A part of a payload that reads as a number the clock can be compared with.
Readable(part) == part \in 0 .. LastSafe

\* Why a scanned payload is refused for the class it names, in the order asked; "NONE" if it is not.
Refusal(payload, class, at) ==
  LET now == CounterFor(at, class.rotation)
  IN IF Len(payload) # 4 THEN "MALFORMED"
     ELSE IF payload[1] # Version THEN "UNSUPPORTED_VERSION"
     ELSE IF Blank \in {payload[2], payload[4]} \/ ~Readable(payload[3]) THEN "MALFORMED"
     ELSE IF payload[2] # class.id THEN "SESSION_MISMATCH"
     ELSE IF payload[3] > now THEN "NOT_YET_VALID"
     ELSE IF payload[3] < now - AcceptPrevious THEN "EXPIRED"
     ELSE IF payload[4] # Sign(class.id, payload[3], class.secret) THEN "BAD_SIGNATURE"
     ELSE "NONE"

\* ageSeconds, of a payload that is not refused.
AgeSeconds(payload, class, at) ==
  LET age == at \div 1000 - payload[3] * class.rotation IN IF age < 0 THEN 0 ELSE age

AcceptsScans(class, at) == class.status = "OPEN" /\ class.opensAt <= at /\ at <= class.closesAt

\* getCurrentQr: only to the class's own lecturer, and only while it takes check-ins.
CurrentQr(class, lecturer, at) ==
  IF class.lecturer = lecturer /\ AcceptsScans(class, at) THEN IssueToken(class, at) ELSE NoCode

\* scanRejected: a code that was real but is past is gone, anything else was never a code.
Answer(refusal) == IF refusal \in {"EXPIRED", "NOT_YET_VALID"} THEN 410 ELSE 400
=============================================================================
