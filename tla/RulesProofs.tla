----------------------------- MODULE RulesProofs -----------------------------
(* What the rules that keep nothing promise: the rotating code, the fence,  *)
(* the weekly meetings and the look-ups in the institution's records.       *)
EXTENDS RotatingCode, Geofence, Timetables, ErpLookups, ModerationLetter, ExamSubmission, WellFoundedInduction, TLAPS

-----------------------------------------------------------------------------
\* A class as the code is made from it, at a rotation of at least a second.
IsClass(class) ==
  /\ class.rotation \in Nat \ {0}
  /\ class.id # Blank
  /\ \A n \in 0 .. LastSafe : Sign(class.id, n, class.secret) # Blank

\* The window a moment falls in holds it.
LEMMA WindowHolds ==
  ASSUME NEW at \in Nat, NEW rotation \in Nat \ {0}
  PROVE  /\ CounterFor(at, rotation) \in Nat
         /\ Window(rotation) \in Nat /\ Window(rotation) >= 1000
         /\ Window(rotation) * CounterFor(at, rotation) <= at
         /\ at < Window(rotation) * (CounterFor(at, rotation) + 1)
<1> DEFINE w == Window(rotation)
           c == at \div w
<1>1. w \in Nat /\ w >= 1000
  BY DEF Window
<1>2. c \in Int /\ w * c <= at /\ at < w * (c + 1)
  <2> HIDE DEF w
  <2> QED BY <1>1
<1>3. c >= 0
  <2> HIDE DEF c, w
  <2>1. CASE c < 0
    <3>1. w * (c + 1) <= 0
      BY <1>1, <1>2, <2>1
    <3> QED BY <1>1, <1>2, <3>1
  <2> QED BY <2>1, <1>2
<1> QED BY <1>1, <1>2, <1>3 DEF CounterFor

\* The end of a window, and what is left of it at a moment, in whole seconds rounded up.
LEMMA SecondsLeft ==
  ASSUME NEW at \in Nat, NEW rotation \in Nat \ {0}
  PROVE  LET left == Window(rotation) * (CounterFor(at, rotation) + 1) - at
             seconds == AtLeastOne(CeilSeconds(left))
         IN /\ seconds \in Nat
            /\ left <= 1000 * seconds
            /\ 1000 * seconds < left + 1000
<1> DEFINE w == Window(rotation)
           c == CounterFor(at, rotation)
           left == w * (c + 1) - at
<1>1. left \in Nat \ {0}
  <2>1. w \in Nat /\ c \in Nat /\ at < w * (c + 1)
    BY WindowHolds
  <2> HIDE DEF w, c
  <2> QED BY <2>1
<1> HIDE DEF left
<1>2. CeilSeconds(left) >= 1 /\ CeilSeconds(left) \in Nat
  BY <1>1 DEF CeilSeconds
<1>3. left <= 1000 * CeilSeconds(left) /\ 1000 * CeilSeconds(left) < left + 1000
  BY <1>1 DEF CeilSeconds
<1>4. AtLeastOne(CeilSeconds(left)) = CeilSeconds(left)
  BY <1>2 DEF AtLeastOne
<1>5. QED BY <1>2, <1>3, <1>4 DEF left

\* A later moment is in no earlier window; one less than a window later, at most in the next.
LEMMA WindowsInOrder ==
  ASSUME NEW rotation \in Nat \ {0}, NEW at \in Nat, NEW later \in Nat, at <= later,
         NEW n \in Nat, later < Window(rotation) * (CounterFor(at, rotation) + 1 + n)
  PROVE  /\ CounterFor(at, rotation) <= CounterFor(later, rotation)
         /\ CounterFor(later, rotation) <= CounterFor(at, rotation) + n
<1> DEFINE w == Window(rotation)
           c == CounterFor(at, rotation)
           d == CounterFor(later, rotation)
<1>1. /\ w \in Nat /\ w >= 1000 /\ c \in Nat /\ d \in Nat
      /\ w * c <= at /\ at < w * (c + 1)
      /\ w * d <= later /\ later < w * (d + 1)
  BY WindowHolds
<1>2. later < w * (c + 1 + n)
  OBVIOUS
<1> HIDE DEF w, c, d
<1>3. c <= d
  <2> SUFFICES ASSUME d + 1 <= c PROVE FALSE
    BY <1>1
  <2>1. w * (d + 1) <= w * c
    BY <1>1
  <2> QED BY <1>1, <2>1
<1>4. d <= c + n
  <2> SUFFICES ASSUME c + 1 + n <= d PROVE FALSE
    BY <1>1
  <2>1. w * (c + 1 + n) <= w * d
    BY <1>1
  <2> QED BY <1>1, <1>2, <2>1
<1> QED BY <1>3, <1>4 DEF w, c, d

\* The same of a class's own windows.
LEMMA ClassWindow ==
  ASSUME NEW class, IsClass(class), NEW at \in Nat
  PROVE  LET w == Window(class.rotation)
             c == CounterFor(at, class.rotation)
             left == IssueToken(class, at).expiresInSeconds
         IN /\ class.rotation \in Nat \ {0}
            /\ w \in Nat /\ w >= 1000 /\ c \in Nat /\ left \in Nat
            /\ w * c <= at /\ at < w * (c + 1)
            /\ w * (c + 1) <= at + 1000 * left
            /\ at + 1000 * left < w * (c + 1) + 1000
<1> DEFINE r == class.rotation
           w == Window(r)
           c == CounterFor(at, r)
           left == AtLeastOne(CeilSeconds(w * (c + 1) - at))
<1>1. r \in Nat \ {0}
  BY DEF IsClass
<1>2. IssueToken(class, at).expiresInSeconds = left
  BY DEF IssueToken
<1> HIDE DEF r
<1>3. /\ w \in Nat /\ w >= 1000 /\ c \in Nat
      /\ w * c <= at /\ at < w * (c + 1)
  BY <1>1, WindowHolds
<1>4. /\ left \in Nat
      /\ w * (c + 1) - at <= 1000 * left
      /\ 1000 * left < w * (c + 1) - at + 1000
  BY <1>1, SecondsLeft
<1> HIDE DEF w, c, left
<1>5. w * (c + 1) <= at + 1000 * left /\ at + 1000 * left < w * (c + 1) + 1000
  BY <1>3, <1>4
<1> QED BY <1>1, <1>2, <1>3, <1>4, <1>5 DEF w, c, r

(* A code is accepted from when it is issued until its window and as many   *)
(* more as are accepted have passed.                                        *)
THEOREM FreshCodeAccepted ==
  ASSUME CodeAssumption, NEW class, IsClass(class), NEW at \in Nat, NEW later \in Nat,
         CounterFor(at, class.rotation) <= LastSafe, at <= later,
         later < Window(class.rotation) * (CounterFor(at, class.rotation) + 1 + AcceptPrevious)
  PROVE  Refusal(IssueToken(class, at).payload, class, later) = "NONE"
<1> DEFINE c == CounterFor(at, class.rotation)
           d == CounterFor(later, class.rotation)
           payload == IssueToken(class, at).payload
<1>1. payload = <<Version, class.id, c, Sign(class.id, c, class.secret)>>
  BY DEF IssueToken
<1>2. class.rotation \in Nat \ {0} /\ c \in Nat /\ d \in Nat
  BY ClassWindow
<1>3. c \in 0 .. LastSafe /\ AcceptPrevious \in Nat /\ class.id # Blank
  BY <1>2 DEF CodeAssumption, IsClass
<1>4. c <= d /\ d <= c + AcceptPrevious
  BY <1>2, <1>3, WindowsInOrder
<1>5. Sign(class.id, c, class.secret) # Blank
  BY <1>3 DEF IsClass
<1> HIDE DEF c, payload
<1>6. /\ Len(payload) = 4 /\ payload[1] = Version /\ payload[2] = class.id
      /\ payload[3] = c /\ payload[4] = Sign(class.id, c, class.secret)
  BY <1>1
<1>7. Refusal(payload, class, later) = "NONE"
  <2>1. ~(c > d) /\ ~(c < d - AcceptPrevious)
    BY <1>2, <1>3, <1>4 DEF c
  <2>2. Readable(payload[3])
    BY <1>3, <1>6 DEF Readable
  <2> QED BY <1>3, <1>5, <1>6, <2>1, <2>2 DEF Refusal
<1> QED BY <1>7 DEF payload

(* The code on a screen that asks again when it was told to is accepted all *)
(* the while it is shown, if one earlier window is: the second that the     *)
(* answer is rounded up by belongs to the next window.                      *)
THEOREM ScreenAlwaysHolds ==
  ASSUME CodeAssumption, AcceptPrevious >= 1, NEW class, IsClass(class), NEW at \in Nat, NEW later \in Nat,
         CounterFor(at, class.rotation) <= LastSafe, at <= later,
         later <= at + 1000 * IssueToken(class, at).expiresInSeconds
  PROVE  Refusal(IssueToken(class, at).payload, class, later) = "NONE"
<1> DEFINE w == Window(class.rotation)
           c == CounterFor(at, class.rotation)
           left == IssueToken(class, at).expiresInSeconds
<1>1. w \in Nat /\ w >= 1000 /\ c \in Nat /\ left \in Nat /\ at + 1000 * left < w * (c + 1) + 1000
  BY ClassWindow
<1>2. later <= at + 1000 * left /\ AcceptPrevious \in Nat
  BY DEF CodeAssumption
<1> HIDE DEF w, c, left
<1>3. w * (c + 1 + AcceptPrevious) = w * (c + 1) + w * AcceptPrevious
  BY <1>1, <1>2
<1>4. w <= w * AcceptPrevious
  BY <1>1, <1>2
<1>5. later < w * (c + 1 + AcceptPrevious)
  BY <1>1, <1>2, <1>3, <1>4
<1> QED BY <1>5, FreshCodeAccepted DEF w, c

\* A screen that asks again when it was told to is given the next window's code, never the same.
THEOREM NextCodeIsNew ==
  ASSUME NEW class, IsClass(class), NEW at \in Nat
  PROVE  CounterFor(at + 1000 * IssueToken(class, at).expiresInSeconds, class.rotation)
           = CounterFor(at, class.rotation) + 1
<1> DEFINE w == Window(class.rotation)
           c == CounterFor(at, class.rotation)
           next == at + 1000 * IssueToken(class, at).expiresInSeconds
           d == CounterFor(next, class.rotation)
<1>1. w \in Nat /\ w >= 1000 /\ c \in Nat /\ next \in Nat /\ w * (c + 1) <= next /\ next < w * (c + 1) + 1000
  BY ClassWindow
<1> HIDE DEF next
<1>2. d \in Nat /\ w * d <= next /\ next < w * (d + 1)
  BY <1>1, ClassWindow
<1>3. d = c + 1
  <2> HIDE DEF w, c, d
  <2>1. w * (c + 1) + 1000 <= w * (c + 2)
    BY <1>1
  <2>2. ASSUME d + 1 <= c + 1 PROVE FALSE
    <3>1. w * (d + 1) <= w * (c + 1)
      BY <1>1, <1>2, <2>2
    <3> QED BY <1>1, <1>2, <3>1
  <2>3. ASSUME c + 2 <= d PROVE FALSE
    <3>1. w * (c + 2) <= w * d
      BY <1>1, <1>2, <2>3
    <3> QED BY <1>1, <1>2, <2>1, <3>1
  <2> QED BY <1>1, <1>2, <2>2, <2>3
<1> QED BY <1>3 DEF next

\* However it is scanned, a code is refused as past once its window and those accepted after it are.
THEOREM PastCodeIsPast ==
  ASSUME CodeAssumption, NEW class, IsClass(class), NEW at \in Nat, NEW later \in Nat,
         CounterFor(at, class.rotation) <= LastSafe,
         Window(class.rotation) * (CounterFor(at, class.rotation) + 1 + AcceptPrevious) <= later
  PROVE  Refusal(IssueToken(class, at).payload, class, later) = "EXPIRED"
<1> DEFINE w == Window(class.rotation)
           c == CounterFor(at, class.rotation)
           d == CounterFor(later, class.rotation)
           payload == IssueToken(class, at).payload
<1>1. payload = <<Version, class.id, c, Sign(class.id, c, class.secret)>>
  BY DEF IssueToken
<1>2. w \in Nat /\ w >= 1000 /\ c \in Nat /\ d \in Nat /\ later < w * (d + 1)
  BY ClassWindow
<1>3. c \in 0 .. LastSafe /\ AcceptPrevious \in Nat /\ class.id # Blank
  BY <1>2 DEF CodeAssumption, IsClass
<1>4. Sign(class.id, c, class.secret) # Blank
  BY <1>3 DEF IsClass
<1>5. w * (c + 1 + AcceptPrevious) <= later
  OBVIOUS
<1>6. c + AcceptPrevious < d
  <2> HIDE DEF w, c, d
  <2> SUFFICES ASSUME d + 1 <= c + 1 + AcceptPrevious PROVE FALSE
    BY <1>2, <1>3
  <2>1. w * (d + 1) <= w * (c + 1 + AcceptPrevious)
    BY <1>2, <1>3
  <2> QED BY <1>2, <1>3, <1>5, <2>1
<1> HIDE DEF c, payload
<1>7. /\ Len(payload) = 4 /\ payload[1] = Version /\ payload[2] = class.id
      /\ payload[3] = c /\ payload[4] = Sign(class.id, c, class.secret)
  BY <1>1
<1>8. Refusal(payload, class, later) = "EXPIRED"
  <2>1. ~(c > d) /\ c < d - AcceptPrevious
    BY <1>2, <1>3, <1>6
  <2>2. Readable(payload[3])
    BY <1>3, <1>7 DEF Readable
  <2> QED BY <1>3, <1>4, <1>7, <2>1, <2>2 DEF Refusal
<1> QED BY <1>8 DEF payload

(* Whatever is scanned, what is accepted was made from this class's secret, *)
(* for a window that has begun and whose code is no older than those after  *)
(* it that are accepted.                                                    *)
THEOREM AcceptedIsOurs ==
  ASSUME CodeAssumption, NEW class, IsClass(class), NEW payload, NEW at \in Nat, Refusal(payload, class, at) = "NONE"
  PROVE  /\ payload[4] = Sign(class.id, payload[3], class.secret)
         /\ Window(class.rotation) * payload[3] <= at
         /\ at < Window(class.rotation) * (payload[3] + 1 + AcceptPrevious)
<1> DEFINE w == Window(class.rotation)
           c == payload[3]
           d == CounterFor(at, class.rotation)
<1>1. /\ payload[4] = Sign(class.id, c, class.secret)
      /\ ~(c > d) /\ ~(c < d - AcceptPrevious) /\ c \in 0 .. LastSafe
  BY DEF Refusal, Readable
<1>2. w \in Nat /\ w >= 1000 /\ d \in Nat /\ w * d <= at /\ at < w * (d + 1)
  BY ClassWindow
<1>3. c \in Nat /\ AcceptPrevious \in Nat
  BY <1>1 DEF CodeAssumption
<1> HIDE DEF w, c, d
<1>4. w * c <= w * d
  BY <1>1, <1>2, <1>3
<1>5. w * (d + 1) <= w * (c + 1 + AcceptPrevious)
  BY <1>1, <1>2, <1>3
<1>6. w * c <= at /\ at < w * (c + 1 + AcceptPrevious)
  BY <1>2, <1>3, <1>4, <1>5
<1> QED BY <1>1, <1>6 DEF w, c

-----------------------------------------------------------------------------
\* A phone's reading that says how far off it may be, taken in time and not made up.
IsHonest(reading, place, at) ==
  /\ reading # NoReading
  /\ reading.at \in Points
  /\ reading.accuracy \in Nat
  /\ Metres[place][reading.at] <= reading.accuracy
  /\ ~reading.mocked
  /\ reading.takenAt \in Nat /\ Apart(at, reading.takenAt) <= 1000 * MaxFixAge

\* The distances of the sphere, as they are used.
LEMMA Detour ==
  ASSUME GeofenceAssumption, NEW p \in Points, NEW q \in Points, NEW r \in Points
  PROVE  /\ Metres[p][q] \in Nat /\ Metres[q][r] \in Nat /\ Metres[p][r] \in Nat
         /\ Metres[p][q] = Metres[q][p]
         /\ Metres[p][r] <= Metres[p][q] + Metres[q][r]
BY DEF GeofenceAssumption

(* Who is inside the fence, with a reading that is fresh and fine enough,   *)
(* is never refused for being outside it: the reading's own doubt is theirs.*)
THEOREM InsideIsNeverRefused ==
  ASSUME GeofenceAssumption, NEW centre \in Points, NEW place \in Points, NEW at \in Nat,
         NEW reading, IsHonest(reading, place, at), reading.accuracy <= MaxStudentAccuracy,
         Metres[centre][place] <= Radius
  PROVE  CheckReading(centre, Radius, reading, at) = "NONE"
<1>1. /\ Metres[centre][place] \in Nat /\ Metres[place][reading.at] \in Nat /\ Metres[centre][reading.at] \in Nat
      /\ Metres[centre][reading.at] <= Metres[centre][place] + Metres[place][reading.at]
  BY Detour DEF IsHonest
<1>2. Radius \in Nat /\ MaxStudentAccuracy \in Nat /\ MaxFixAge \in Nat
  BY DEF GeofenceAssumption
<1>3. IsWithinFence(Metres[centre][reading.at], reading.accuracy, Radius)
  BY <1>1, <1>2 DEF IsHonest, IsWithinFence
<1>4. Precise(reading.accuracy, MaxStudentAccuracy)
  BY DEF IsHonest, Precise
<1>5. ~(Apart(at, reading.takenAt) > 1000 * MaxFixAge)
  BY <1>2 DEF IsHonest, Apart
<1> QED BY <1>3, <1>4, <1>5 DEF IsHonest, CheckReading

(* Whose honest reading is accepted is no further away than the radius and  *)
(* twice the worst accuracy allowed: the doubt counts for the student, once *)
(* in the measured distance and once in where they really are.              *)
THEOREM AcceptedIsNear ==
  ASSUME GeofenceAssumption, NEW centre \in Points, NEW place \in Points, NEW at \in Nat,
         NEW reading, IsHonest(reading, place, at), CheckReading(centre, Radius, reading, at) = "NONE"
  PROVE  Metres[centre][place] <= Radius + 2 * MaxStudentAccuracy
<1>1. /\ Metres[centre][reading.at] \in Nat /\ Metres[place][reading.at] \in Nat /\ Metres[centre][place] \in Nat
      /\ Metres[reading.at][place] = Metres[place][reading.at]
      /\ Metres[centre][place] <= Metres[centre][reading.at] + Metres[reading.at][place]
  BY Detour DEF IsHonest
<1>2. Radius \in Nat /\ MaxStudentAccuracy \in Nat
  BY DEF GeofenceAssumption
<1>3. Precise(reading.accuracy, MaxStudentAccuracy) /\ IsWithinFence(Metres[centre][reading.at], reading.accuracy, Radius)
  BY DEF CheckReading
<1> QED BY <1>1, <1>2, <1>3 DEF IsHonest, Precise, IsWithinFence

(* A class anchored to its lecturer's device takes whoever stands with the  *)
(* lecturer only if the radius covers the worst anchor: with the defaults,  *)
(* 20 and 30 metres, it does not.                                           *)
THEOREM BesideTheLecturer ==
  ASSUME GeofenceAssumption, MaxAnchorAccuracy <= Radius,
         NEW room, room.at = NoPoint, NEW place \in Points, NEW at \in Nat,
         NEW device, device.at \in Points, device.accuracy \in Nat, Metres[place][device.at] <= device.accuracy,
         NEW reading, IsHonest(reading, place, at), reading.accuracy <= MaxStudentAccuracy,
         ChooseCentre(room, device).mode = "LECTURER_DEVICE"
  PROVE  CheckReading(ChooseCentre(room, device).at, Radius, reading, at) = "NONE"
<1>1. ChooseCentre(room, device).at = device.at /\ device.accuracy <= MaxAnchorAccuracy
  BY DEF ChooseCentre, Precise
<1>2. /\ Metres[device.at][place] \in Nat /\ Metres[place][device.at] \in Nat
      /\ Metres[device.at][place] = Metres[place][device.at]
  BY Detour
<1>3. Radius \in Nat /\ MaxAnchorAccuracy \in Nat
  BY DEF GeofenceAssumption
<1>4. Metres[device.at][place] <= Radius
  BY <1>1, <1>2, <1>3
<1> QED BY <1>1, <1>4, InsideIsNeverRefused

-----------------------------------------------------------------------------
\* What the timetable page shows of a unit is the one meeting it has, if it has one.
ShowsItsOneMeeting(unit) == unit.schedule # NoSchedule => unit.slots = {unit.schedule}

\* The entries of one time make one meeting, whose room is the one they agree on.
LEMMA OneTimeOneMeeting ==
  ASSUME NEW entries, SingleSlot(entries) # NoSchedule, SingleSlot(entries).end > SingleSlot(entries).start
  PROVE  WeeklySlots(entries) = {SingleSlot(entries)}
<1> DEFINE one == CHOOSE e \in entries : TRUE
<1>1. entries # {} /\ \A e, f \in entries : Time(e) = Time(f)
  BY DEF SingleSlot
<1>2. one \in entries
  BY <1>1
<1>3. SingleSlot(entries) = Meeting(one, CommonRoom(entries))
  BY <1>1 DEF SingleSlot
<1> HIDE DEF one
<1>4. SingleSlot(entries).end = one.end /\ SingleSlot(entries).start = one.start
  BY <1>3 DEF Meeting
<1>5. \A e \in entries : e.day = one.day /\ e.start = one.start /\ e.end = one.end
  BY <1>1, <1>2 DEF Time
<1>6. {f \in entries : f.end > f.start} = entries
  BY <1>4, <1>5
<1>7. \A e \in entries : {f \in entries : Time(f) = Time(e)} = entries
  BY <1>1
<1>8. \A e \in entries : Meeting(e, CommonRoom({f \in entries : Time(f) = Time(e)})) = SingleSlot(entries)
  BY <1>3, <1>5, <1>7 DEF Meeting
<1> QED BY <1>2, <1>6, <1>8 DEF WeeklySlots

(* However the timetable's entries change, a unit never shows a meeting     *)
(* other than the one it can be opened in.                                  *)
THEOREM AlwaysShowsItsOneMeeting ==
  ASSUME NEW unit, ShowsItsOneMeeting(unit), NEW entries
  PROVE  ShowsItsOneMeeting(Upserted(unit, entries))
<1>1. CASE ~Storable(entries)
  BY <1>1 DEF Upserted
<1>2. CASE Storable(entries) /\ SingleSlot(entries) # NoSchedule
  <2>1. WeeklySlots(entries) = {SingleSlot(entries)}
    BY <1>2, OneTimeOneMeeting DEF Storable
  <2> QED BY <1>2, <2>1 DEF Upserted, ShowsItsOneMeeting
<1>3. CASE Storable(entries) /\ SingleSlot(entries) = NoSchedule
  BY <1>3 DEF Upserted, ShowsItsOneMeeting
<1> QED BY <1>1, <1>2, <1>3

\* A unit added by hand starts that way.
THEOREM AddedWithItsOneMeeting ==
  ASSUME NEW entry
  PROVE  ShowsItsOneMeeting(AddedByHand(entry))
BY DEF AddedByHand, ShowsItsOneMeeting

\* A unit's meetings and a moment, in whole minutes and milliseconds of a day.
AreSlots(slots) == \A s \in slots : s.start \in Nat /\ s.end \in Nat

LEMMA MinuteHolds ==
  ASSUME NEW ms \in Nat
  PROVE  /\ ms \div Minute \in Nat
         /\ Minute * (ms \div Minute) <= ms
         /\ ms < Minute * (ms \div Minute) + Minute
BY DEF Minute

(* The meeting a lecturer is offered can be opened, with the start and the  *)
(* room it was offered with the start of; but for its last minute, which is *)
(* offered to its end though the meeting ends at its beginning.             *)
THEOREM OfferedCanBeOpened ==
  ASSUME NEW units, \A u \in units : AreSlots(u.slots), NEW at, at.ms \in Nat,
         NEW offer \in Offers(units, at), at.ms <= offer.slot.end * Minute
  PROVE  /\ MeetingsNow(offer.unit.slots, at) # {}
         /\ \A s \in MeetingsNow(offer.unit.slots, at) : s.start = offer.slot.start
<1> DEFINE u == offer.unit
           s == offer.slot
           m == at.ms \div Minute
           There(t) == t \in u.slots /\ Covers(t, at)
<1>1. \A c \in Candidates(units, at) : c.unit \in units /\ c.unit.verified /\ c.slot \in c.unit.slots /\ Covers(c.slot, at)
  BY DEF Candidates
<1>2. u \in units /\ u.verified /\ There(s)
  BY <1>1 DEF Offers
<1>3. \A t : There(t) => [unit |-> u, slot |-> t] \in Candidates(units, at)
  BY <1>2 DEF Candidates
<1>4. ASSUME NEW t, There(t) PROVE ~(t.start < s.start)
  <2> DEFINE d == [unit |-> u, slot |-> t]
  <2>1. d \in Candidates(units, at) /\ d.slot = t
    BY <1>3, <1>4
  <2> HIDE DEF d
  <2>2. ~Before(d, offer)
    BY <2>1 DEF Offers
  <2> QED BY <2>1, <2>2 DEF Before
<1>5. m \in Nat /\ Minute * m <= at.ms /\ at.ms < Minute * m + Minute
  BY MinuteHolds
<1>6. \A t \in u.slots : t.start \in Nat /\ t.end \in Nat
  BY <1>2 DEF AreSlots
<1> HIDE DEF u, s
<1>7. \A t \in u.slots : Within(t, at) => There(t)
  <2> SUFFICES ASSUME NEW t \in u.slots, Within(t, at) PROVE Covers(t, at)
    OBVIOUS
  <2>1. t.day = at.day /\ t.start * Minute <= at.ms /\ at.ms <= t.end * Minute
    BY DEF Within
  <2> HIDE DEF m
  <2>2. t.start <= m /\ m <= t.end
    BY <1>5, <1>6, <2>1 DEF Minute
  <2> QED BY <2>1, <2>2 DEF Covers, m
<1>8. Within(s, at)
  <2>1. s.day = at.day /\ s.start <= m /\ s.start \in Nat
    BY <1>2, <1>6 DEF Covers
  <2> HIDE DEF m
  <2>2. s.start * Minute <= at.ms
    BY <1>5, <2>1 DEF Minute
  <2> QED BY <2>1, <2>2 DEF Within, s
<1>9. \A t \in u.slots : Within(t, at) => s.start <= t.start
  BY <1>2, <1>4, <1>6, <1>7
<1>10. s \in MeetingsNow(u.slots, at)
  BY <1>2, <1>8, <1>9 DEF MeetingsNow
<1>11. \A t \in MeetingsNow(u.slots, at) : t.start = s.start
  BY <1>2, <1>6, <1>8, <1>9 DEF MeetingsNow
<1> QED BY <1>10, <1>11 DEF u, s

-----------------------------------------------------------------------------
\* The attempts that are final come in an order: there is a first.
LEMMA FirstFinal ==
  ASSUME LookupsAssumption, NEW answers, Finals(answers) # {}
  PROVE  /\ FinalAnswer(answers) \in 1 .. Attempts
         /\ ~Retried(answers[FinalAnswer(answers)])
         /\ \A m \in 1 .. (FinalAnswer(answers) - 1) : Retried(answers[m])
<1>1. Finals(answers) \subseteq Nat /\ Finals(answers) # {}
  BY DEF Finals, LookupsAssumption
<1>2. PICK n \in Finals(answers) : \A m \in Finals(answers) : ~(<<m, n>> \in OpToRel(<, Nat))
  BY <1>1, NatLessThanWellFounded, WFMin
<1>3. \A m \in Finals(answers) : n <= m
  <2> SUFFICES ASSUME NEW m \in Finals(answers), m < n PROVE FALSE
    BY <1>1
  <2>1. <<m, n>> \in Nat \X Nat
    BY <1>1
  <2>2. <<m, n>>[1] < <<m, n>>[2]
    OBVIOUS
  <2>3. <<m, n>> \in {ss \in Nat \X Nat : ss[1] < ss[2]}
    BY <2>1, <2>2
  <2> QED BY <1>2, <2>3 DEF OpToRel
<1>4. FinalAnswer(answers) \in Finals(answers) /\ \A m \in Finals(answers) : FinalAnswer(answers) <= m
  BY <1>3 DEF FinalAnswer
<1> QED BY <1>4 DEF Finals, LookupsAssumption

\* That nobody has the number is what the records said, after at most failures worth another attempt.
THEOREM NotFoundIsAnswered ==
  ASSUME LookupsAssumption, NEW answers, Request(answers) = "NOT_FOUND"
  PROVE  \E n \in 1 .. Attempts :
           answers[n].status = 404 /\ \A m \in 1 .. (n - 1) : Retried(answers[m])
<1>1. Finals(answers) # {} /\ Outcome(answers[FinalAnswer(answers)]) = "NOT_FOUND"
  BY DEF Request
<1>2. answers[FinalAnswer(answers)].status = 404
  BY <1>1 DEF Outcome
<1> QED BY <1>1, <1>2, FirstFinal

\* A record that was found is the body of an attempt that was answered.
LEMMA FoundIsAnswered ==
  ASSUME LookupsAssumption, NEW answers, Lookup(answers).status = "FOUND"
  PROVE  \E n \in 1 .. Attempts : answers[n].status = 200 /\ answers[n].body = Lookup(answers).record
<1>1. Request(answers) \in {"NOT_FOUND", "ANSWERED", "UNAVAILABLE"}
  BY DEF Request, Outcome
<1>2. Request(answers) = "ANSWERED" /\ Lookup(answers).record = Body(answers)
  BY <1>1 DEF Lookup, Found, Failed
<1>3. Finals(answers) # {} /\ Outcome(answers[FinalAnswer(answers)]) = "ANSWERED"
  BY <1>2 DEF Request
<1>4. answers[FinalAnswer(answers)].status = 200
  BY <1>3 DEF Outcome
<1>5. FinalAnswer(answers) \in 1 .. Attempts
  BY <1>3, FirstFinal
<1> QED BY <1>2, <1>4, <1>5 DEF Body

(* A lecturer is confirmed only by a record of somebody in service, kept or *)
(* just answered: nothing that goes wrong lets them through.                *)
THEOREM GateFailsClosed ==
  ASSUME LookupsAssumption, NEW entry, NEW at, NEW answers,
         VerifyStaffNumber(entry, at, answers).status = "VERIFIED"
  PROVE  LET record == VerifyStaffNumber(entry, at, answers).record
         IN /\ record.active
            /\ \/ Kept(entry, at) /\ record = entry.record
               \/ \E n \in 1 .. Attempts : answers[n].status = 200 /\ answers[n].body = record
<1>1. CASE Kept(entry, at)
  BY <1>1 DEF VerifyStaffNumber, Found
<1>2. CASE ~Kept(entry, at)
  <2>1. Lookup(answers).status \in {"NOT_FOUND", "UNAVAILABLE", "FOUND"}
    BY DEF Lookup, Found, Failed, Request, Outcome
  <2>2. Lookup(answers).status = "FOUND"
    BY <1>2, <2>1 DEF VerifyStaffNumber
  <2>3. Lookup(answers) = Found("FOUND", Body(answers))
    BY <2>2 DEF Lookup, Failed, Request, Outcome
  <2>4. /\ VerifyStaffNumber(entry, at, answers).record = Lookup(answers).record
        /\ Lookup(answers).record.active
    BY <1>2, <2>2, <2>3 DEF VerifyStaffNumber, Found
  <2> QED BY <2>2, <2>4, FoundIsAnswered
<1> QED BY <1>1, <1>2

(* Only a record is kept, and it is not kept any longer for being used: an  *)
(* absence is asked for again each time.                                    *)
THEOREM OnlyRecordsKept ==
  ASSUME NEW entry, NEW at, NEW ttl, NEW answers, KeptAfter(entry, at, ttl, answers) # entry
  PROVE  ~Kept(entry, at) /\ Lookup(answers).status = "FOUND"
BY DEF KeptAfter

\* A unit is its lecturer's at once only if the timetable's answer names their staff number.
THEOREM OnlyTheirsAtOnce ==
  ASSUME LookupsAssumption, NEW answers, NEW staffNumber, UnitFor(answers, staffNumber) = "VERIFIED"
  PROVE  /\ staffNumber # NoStaff
         /\ \E n \in 1 .. Attempts : answers[n].status = 200 /\ answers[n].body.staff = staffNumber
<1>1. LookupCourse(answers).status = "FOUND" /\ staffNumber # NoStaff /\ LookupCourse(answers).record.staff = staffNumber
  BY DEF UnitFor
<1>2. LookupCourse(answers) = Lookup(answers)
  BY <1>1 DEF LookupCourse, Failed
<1> QED BY <1>1, <1>2, FoundIsAnswered

(* A list of a course's students that cannot be read counts as one of       *)
(* nobody: every student a sync had put on the roster goes off it.          *)
THEOREM UnreadableListIsOfNobody ==
  ASSUME NEW answers, NEW roster, NEW byHand, Request(answers) = "ANSWERED", Body(answers) = NoRecord
  PROVE  SyncedRoster(answers, roster, byHand) = roster \cap byHand
BY DEF SyncedRoster, ListCourseEnrollments
-----------------------------------------------------------------------------
(* However often a letter lists a unit, at most one of its listings is      *)
(* taken as the ODEL paper, and none when a line already says ODEL.         *)
THEOREM OneOdelListing ==
  ASSUME NEW entries, DOMAIN entries \subseteq Nat \ {0},
         NEW i \in DOMAIN entries, SecondListing(entries, i),
         NEW k \in DOMAIN entries \ {i}, entries[k].codes = entries[i].codes
  PROVE  entries[k].sitting = "regular" /\ ~SecondListing(entries, k)
<1>1. entries[k].sitting = "regular"
  BY DEF SecondListing, Repeats
<1>2. CASE k < i
  <2>1. k \in 1 .. i - 1
    BY <1>2
  <2> QED BY <1>1, <2>1 DEF SecondListing
<1>3. CASE i < k
  <2>1. i \in 1 .. k - 1
    BY <1>3
  <2> QED BY <1>1, <2>1 DEF SecondListing
<1>4. i < k \/ k < i
  OBVIOUS
<1> QED BY <1>2, <1>3, <1>4

(* What the review proposes is never refused by the save, if the department *)
(* has the same papers by then: no regular paper is taken over that is not  *)
(* its own, that the letter still lists, or twice.                          *)
THEOREM ReviewedIsSaveable ==
  ASSUME NEW papers, Unsaid \notin DOMAIN papers, NEW own, NEW entries, DOMAIN entries \subseteq Nat \ {0},
         NEW lines, IsReviewed(papers, own, entries, lines)
  PROVE  Saveable(papers, own, lines)
<1> DEFINE listed == {i \in DOMAIN entries : ~IsDuplicate(entries, i)}
<1>1. /\ DOMAIN lines = listed
      /\ \A i \in listed : lines[i].codes = entries[i].codes /\ lines[i].sitting = entries[i].sitting
      /\ \A i \in listed : lines[i].replaces # Unsaid => lines[i].replaces \in Switchable(papers, own, entries, i)
  BY DEF IsReviewed
<1>2. \A i, k \in listed : i # k => ~SamePaper(entries[k], entries[i])
  <2> SUFFICES ASSUME NEW i \in listed, NEW k \in listed, i < k, SamePaper(entries[k], entries[i]) PROVE FALSE
    BY DEF SamePaper
  <2>1. i \in 1 .. k - 1 /\ SamePaper(entries[i], entries[k])
    BY DEF SamePaper
  <2> QED BY <2>1 DEF IsDuplicate
<1> SUFFICES ASSUME NEW i \in listed, lines[i].replaces # Unsaid
             PROVE  /\ lines[i].sitting = "odel"
                    /\ lines[i].replaces \in DOMAIN papers
                    /\ papers[lines[i].replaces].department = own
                    /\ papers[lines[i].replaces].sitting = "regular"
                    /\ papers[lines[i].replaces].codes = lines[i].codes
                    /\ \A k \in listed : ~(lines[k].codes = lines[i].codes /\ lines[k].sitting = "regular")
                    /\ \A k \in listed : k # i => lines[k].replaces # lines[i].replaces
  BY <1>1 DEF Saveable
<1> HIDE DEF listed
<1>3. listed \subseteq DOMAIN entries
  BY DEF listed
<1>4. /\ lines[i].sitting = "odel" /\ lines[i].codes = entries[i].codes /\ entries[i].sitting = "odel"
      /\ lines[i].replaces \in DOMAIN papers
      /\ papers[lines[i].replaces].department = own
      /\ papers[lines[i].replaces].sitting = "regular"
      /\ papers[lines[i].replaces].codes = lines[i].codes
      /\ \A k \in DOMAIN entries : entries[k].codes = entries[i].codes => entries[k].sitting # "regular"
  BY <1>1 DEF Switchable
<1>5. \A k \in listed : ~(lines[k].codes = lines[i].codes /\ lines[k].sitting = "regular")
  BY <1>1, <1>3, <1>4
<1>6. ASSUME NEW k \in listed, k # i, lines[k].replaces = lines[i].replaces PROVE FALSE
  <2>1. entries[k].sitting = "odel" /\ papers[lines[k].replaces].codes = entries[k].codes
    BY <1>1, <1>6 DEF Switchable
  <2>2. SamePaper(entries[k], entries[i])
    BY <1>4, <1>6, <2>1 DEF SamePaper
  <2> QED BY <1>2, <1>6, <2>2
<1> QED BY <1>4, <1>5, <1>6

-----------------------------------------------------------------------------
\* A term whose papers are numbered, with numbers of students up to most.
IsTerm(term, most) ==
  /\ most \in Nat
  /\ DOMAIN term.papers \subseteq Nat
  /\ \A p \in DOMAIN term.papers : \A c \in DOMAIN term.papers[p].rows : term.papers[p].rows[c].students \in 0 .. most

\* A set of naturals with something in it has a least.
LEMMA LeastOne ==
  ASSUME NEW S, S \subseteq Nat, S # {}
  PROVE  \E n \in S : \A m \in S : n <= m
<1>1. PICK n \in S : \A m \in S : ~(<<m, n>> \in OpToRel(<, Nat))
  BY NatLessThanWellFounded, WFMin
<1>2. \A m \in S : n <= m
  <2> SUFFICES ASSUME NEW m \in S, m < n PROVE FALSE
    OBVIOUS
  <2>1. <<m, n>> \in Nat \X Nat /\ <<m, n>>[1] < <<m, n>>[2]
    OBVIOUS
  <2>2. <<m, n>> \in {ss \in Nat \X Nat : ss[1] < ss[2]}
    BY <2>1
  <2> QED BY <1>1, <2>2 DEF OpToRel
<1> QED BY <1>2

(* A class that sits a submitted paper is one course of the submission, of  *)
(* a submitting department, with room for it on every paper it sits: the    *)
(* Generator, which plans by courses, neither loses nor undercounts it.     *)
THEOREM EveryClassIsACourse ==
  ASSUME NEW term, NEW most, IsTerm(term, most), NEW q \in Submitted(term), NEW c \in ListedCourses(term.papers[q])
  PROVE  /\ c \in DOMAIN SubmittedCourses(term)
         /\ SubmittedCourses(term)[c].students >= term.papers[q].rows[c].students
         /\ SubmittedCourses(term)[c].department \in Submitting(term)
<1> DEFINE S == Sitting(term, c)
           students(p) == term.papers[p].rows[c].students
           IsFrom(p) == \A r \in S : students(r) < students(p) \/ (students(r) = students(p) /\ p <= r)
<1>1. q \in S
  BY DEF Sitting
<1>2. \A p \in S : p \in Nat /\ students(p) \in 0 .. most /\ term.papers[p].department \in Submitting(term)
  BY DEF Sitting, Submitted, ListedCourses, IsTerm
<1>3. most \in Nat
  BY DEF IsTerm
<1> HIDE DEF S, students
<1>4. PICK spare \in {most - students(p) : p \in S} : \A other \in {most - students(p) : p \in S} : spare <= other
  <2>1. {most - students(p) : p \in S} \subseteq Nat
    BY <1>2, <1>3
  <2>2. {most - students(p) : p \in S} # {}
    BY <1>1
  <2> QED BY <2>1, <2>2, LeastOne
<1>5. PICK from \in {p \in S : most - students(p) = spare} : \A p \in {r \in S : most - students(r) = spare} : from <= p
  <2>1. {p \in S : most - students(p) = spare} \subseteq Nat
    BY <1>2
  <2>2. {p \in S : most - students(p) = spare} # {}
    BY <1>4
  <2> QED BY <2>1, <2>2, LeastOne
<1>6. from \in S /\ IsFrom(from)
  <2> SUFFICES ASSUME NEW r \in S PROVE students(r) < students(from) \/ (students(r) = students(from) /\ from <= r)
    BY <1>5
  <2>1. most - students(from) <= most - students(r)
    BY <1>4, <1>5
  <2>2. students(r) \in Int /\ students(from) \in Int
    BY <1>2, <1>5
  <2>3. students(r) <= students(from)
    BY <1>3, <2>1, <2>2
  <2>4. CASE students(r) = students(from)
    BY <1>5, <2>4
  <2> QED BY <2>2, <2>3, <2>4
<1>7. CourseFrom(term, c) \in S /\ IsFrom(CourseFrom(term, c))
  <2>1. CourseFrom(term, c) = CHOOSE p \in S : IsFrom(p)
    BY DEF CourseFrom, S, students
  <2> HIDE DEF IsFrom
  <2> QED BY <1>6, <2>1
<1>8. students(CourseFrom(term, c)) >= students(q)
  BY <1>1, <1>2, <1>7
<1>9. c \in DOMAIN SubmittedCourses(term)
  BY DEF SubmittedCourses
<1>10. /\ SubmittedCourses(term)[c].students = students(CourseFrom(term, c))
       /\ SubmittedCourses(term)[c].department = term.papers[CourseFrom(term, c)].department
  BY <1>9 DEF SubmittedCourses, students
<1> QED BY <1>2, <1>7, <1>8, <1>9, <1>10 DEF students
=============================================================================
