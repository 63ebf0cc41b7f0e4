------------------------------ MODULE Geofence ------------------------------
(* How far from the centre of a class's fence a phone's reading may be, and *)
(* where that centre comes from.  Metres are whole, moments milliseconds; a *)
(* reading is [at, accuracy, takenAt, mocked].                              *)
EXTENDS Integers

CONSTANTS
  Points,       \* points on the globe
  NoPoint,      \* coordinates that are none: missing, not numbers, or out of range
  NoReading,
  Metres,       \* distanceMetres, from a point to a point
  Radius, MaxStudentAccuracy, MaxAnchorAccuracy, MaxFixAge

\* The distance along the sphere: nought at the point itself, and never longer by a detour.
GeofenceAssumption ==
  /\ NoPoint \notin Points
  /\ {Radius, MaxStudentAccuracy, MaxAnchorAccuracy, MaxFixAge} \subseteq Nat
  /\ Metres \in [Points -> [Points -> Nat]]
  /\ \A p, q, r \in Points :
       /\ Metres[p][p] = 0
       /\ Metres[p][q] = Metres[q][p]
       /\ Metres[p][r] <= Metres[p][q] + Metres[q][r]

Apart(a, b) == IF a < b THEN b - a ELSE a - b

\* Accuracies that are not numbers count with the negative ones.
Precise(accuracy, limit) == accuracy >= 0 /\ accuracy <= limit

IsWithinFence(distance, accuracy, radius) == distance - accuracy <= radius

\* Why a scan's reading is refused, in the order asked; "NONE" if it is not.
CheckReading(centre, radius, reading, at) ==
  IF reading = NoReading \/ reading.at \notin Points THEN "LOCATION_REQUIRED"
  ELSE IF reading.mocked THEN "LOCATION_MOCKED"
  ELSE IF Apart(at, reading.takenAt) > 1000 * MaxFixAge THEN "LOCATION_STALE"
  ELSE IF ~Precise(reading.accuracy, MaxStudentAccuracy) THEN "LOCATION_TOO_IMPRECISE"
  ELSE IF ~IsWithinFence(Metres[centre][reading.at], reading.accuracy, radius) THEN "OUTSIDE_GEOFENCE"
  ELSE "NONE"

\* A room is [at, accuracy], at NoPoint before anybody surveyed it; a lecturer's device the same.
ChooseCentre(room, device) ==
  IF room.at # NoPoint THEN [mode |-> "ROOM", at |-> room.at, accuracy |-> room.accuracy]
  ELSE IF device.at \notin Points THEN [mode |-> "NO_READING", at |-> NoPoint, accuracy |-> 0]
  ELSE IF ~Precise(device.accuracy, MaxAnchorAccuracy)
       THEN [mode |-> "TOO_IMPRECISE", at |-> NoPoint, accuracy |-> device.accuracy]
  ELSE [mode |-> "LECTURER_DEVICE", at |-> device.at, accuracy |-> device.accuracy]
=============================================================================
