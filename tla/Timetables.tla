----------------------------- MODULE Timetables -----------------------------
(* A unit's weekly meetings: what is kept of what the timetable lists, the  *)
(* meeting a lecturer is offered now, and the one a class may be opened in. *)
(* A meeting is [day, start, end, room], in minutes of the campus's day; a  *)
(* moment is [day, ms].                                                     *)
EXTENDS Integers, FiniteSets

CONSTANTS NoRoom, NoSchedule

Minute == 60000

Time(entry) == <<entry.day, entry.start, entry.end>>

\* The room all the entries name; none if they differ.
CommonRoom(entries) ==
  IF \E e \in entries : \A f \in entries : e.room = f.room
  THEN (CHOOSE e \in entries : TRUE).room ELSE NoRoom

Meeting(entry, room) == [day |-> entry.day, start |-> entry.start, end |-> entry.end, room |-> room]

\* singleSlot, which does not ask that it ends after it starts: unit_schedule_window does.
SingleSlot(entries) ==
  IF entries # {} /\ \A e, f \in entries : Time(e) = Time(f)
  THEN Meeting(CHOOSE e \in entries : TRUE, CommonRoom(entries)) ELSE NoSchedule

\* weeklySlots: the entries of one time are one meeting.
WeeklySlots(entries) ==
  {Meeting(e, CommonRoom({f \in entries : Time(f) = Time(e)})) : e \in {f \in entries : f.end > f.start}}

\* unit_schedule_window: the upsert, and the sync it belongs to, fail as one.
Storable(entries) == LET one == SingleSlot(entries) IN one = NoSchedule \/ one.end > one.start

\* upsertUnitFromTimetable, of a unit kept as [slots, schedule].
Upserted(unit, entries) ==
  IF ~Storable(entries) THEN unit
  ELSE [slots |-> IF WeeklySlots(entries) = {} THEN unit.slots ELSE WeeklySlots(entries),
        schedule |-> IF SingleSlot(entries) # NoSchedule THEN SingleSlot(entries)
                     ELSE IF WeeklySlots(entries) # {} THEN NoSchedule
                     ELSE unit.schedule]

\* createUnit: the one meeting the ERP gives, with no room.
AddedByHand(entry) == LET one == Meeting(entry, NoRoom) IN [slots |-> {one}, schedule |-> one]

\* findCurrentUnitForLecturer: any of the earliest, then of the first code's; seconds are dropped.
Covers(slot, at) == slot.day = at.day /\ slot.start <= at.ms \div Minute /\ at.ms \div Minute <= slot.end
Candidates(units, at) ==
  UNION {{[unit |-> u, slot |-> s] : s \in {t \in u.slots : Covers(t, at)}} : u \in {v \in units : v.verified}}
Before(c, d) == c.slot.start < d.slot.start \/ (c.slot.start = d.slot.start /\ c.unit.code < d.unit.code)
Offers(units, at) == {c \in Candidates(units, at) : \A d \in Candidates(units, at) : ~Before(d, c)}

\* resolveWindow: any of the earliest meetings now, to the millisecond.
Within(slot, at) == slot.day = at.day /\ slot.start * Minute <= at.ms /\ at.ms <= slot.end * Minute
MeetingsNow(slots, at) == {s \in slots : Within(s, at) /\ \A t \in slots : Within(t, at) => s.start <= t.start}

\* The windows a class may get; a unit without meetings takes the time the client names, if it does.
ResolveWindow(slots, at, clientCloses) ==
  IF slots = {} THEN {[closes |-> c, room |-> NoRoom, scheduled |-> NoSchedule] : c \in clientCloses}
  ELSE {[closes |-> s.end * Minute, room |-> s.room, scheduled |-> s.start * Minute] : s \in MeetingsNow(slots, at)}
=============================================================================
