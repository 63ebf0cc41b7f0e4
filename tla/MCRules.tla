------------------------------- MODULE MCRules -------------------------------
(* The rules that keep nothing, each evaluated on every input of a small    *)
(* instance and compared with a plainer statement of what it should do.     *)
EXTENDS Integers, FiniteSets, Sequences

CONSTANTS none, main, v1, v2, x1

-----------------------------------------------------------------------------
Code == INSTANCE RotatingCode WITH
          AcceptPrevious <- 1, LastSafe <- 8, Version <- main, Blank <- none, NoCode <- none

ShownBy(id, rotation) ==
  [id |-> id, secret |-> id, rotation |-> rotation, lecturer |-> x1, status |-> "OPEN", opensAt |-> 0, closesAt |-> 5000]

\* Around every whole second, of windows of one and of two.
Moments == {m \in 0 .. 6001 : m % 1000 \in {0, 1, 999}}

\* A code is accepted in its own window and the next; another class's never.
CodeHolds ==
  /\ Code!CodeAssumption
  /\ \A rotation \in {1, 2}, at, later \in Moments :
       LET class == ShownBy(v1, rotation)
           token == Code!IssueToken(class, at)
           again == at + 1000 * token.expiresInSeconds
           refusal == Code!Refusal(token.payload, class, later)
           ahead == Code!CounterFor(later, rotation) - token.counter
       IN /\ refusal = CASE ahead \in {0, 1} -> "NONE" [] ahead > 1 -> "EXPIRED" [] OTHER -> "NOT_YET_VALID"
          /\ at <= later /\ later <= again => refusal = "NONE"
          /\ Code!CounterFor(again, rotation) = token.counter + 1
          /\ token.issuedAt <= at /\ at < token.rotatesAt
          /\ Code!Refusal(token.payload, ShownBy(v2, rotation), later) = "SESSION_MISMATCH"
          /\ refusal = "NONE" => Code!AgeSeconds(token.payload, class, later) < 2 * rotation
          /\ Code!CurrentQr(class, x1, at) # none <=> at <= 5000
          /\ Code!Answer(refusal) = IF ahead \in {0, 1} THEN 400 ELSE 410
  /\ \A parts \in {<<>>, <<main, v1, 0>>, <<main, v1, none, v1>>, <<main, v1, 9, v1>>, <<main, none, 0, v1>>} :
       Code!Refusal(parts, ShownBy(v1, 1), 0) = "MALFORMED"
  /\ Code!Refusal(<<main, v1, 0, v1>>, ShownBy(v1, 1), 0) = "BAD_SIGNATURE"
  /\ Code!Refusal(<<x1, v1, 0, v1>>, ShownBy(v1, 1), 0) = "UNSUPPORTED_VERSION"

-----------------------------------------------------------------------------
\* Points on a line; the second fence trusts a device further off than it reaches.
Line == 0 .. 6
Along == [p \in Line |-> [q \in Line |-> IF p < q THEN q - p ELSE p - q]]
Fence == INSTANCE Geofence WITH
           Points <- Line, NoPoint <- none, NoReading <- none, Metres <- Along, Radius <- 2,
           MaxStudentAccuracy <- 2, MaxAnchorAccuracy <- 2, MaxFixAge <- 1
Anchored == INSTANCE Geofence WITH
              Points <- Line, NoPoint <- none, NoReading <- none, Metres <- Along, Radius <- 2,
              MaxStudentAccuracy <- 2, MaxAnchorAccuracy <- 3, MaxFixAge <- 1

Unsurveyed == [at |-> none, accuracy |-> 0]
Reading(at, accuracy, takenAt, mocked) == [at |-> at, accuracy |-> accuracy, takenAt |-> takenAt, mocked |-> mocked]

\* Whoever is in the room is let in, and nobody from further than the doubt allows.
FenceHolds ==
  /\ Fence!GeofenceAssumption /\ Anchored!GeofenceAssumption
  /\ \A centre, place, at \in Line, accuracy \in -1 .. 3 :
       LET refusal == Fence!CheckReading(centre, 2, Reading(at, accuracy, 0, FALSE), 1000)
       IN /\ accuracy \notin 0 .. 2 => refusal = "LOCATION_TOO_IMPRECISE"
          /\ accuracy \in 0 .. 2 /\ Along[place][at] <= accuracy =>
               /\ Along[centre][place] <= 2 => refusal = "NONE"
               /\ refusal = "NONE" => Along[centre][place] <= 6
          /\ Fence!CheckReading(centre, 2, Reading(at, accuracy, 0, FALSE), 1001) = "LOCATION_STALE"
          /\ Fence!CheckReading(centre, 2, Reading(at, accuracy, 0, TRUE), 1001) = "LOCATION_MOCKED"
          /\ Fence!CheckReading(centre, 2, Reading(none, accuracy, 0, TRUE), 0) = "LOCATION_REQUIRED"
          /\ Fence!CheckReading(centre, 2, none, 0) = "LOCATION_REQUIRED"
          /\ LET device == [at |-> at, accuracy |-> accuracy]
             IN /\ Fence!ChooseCentre([at |-> place, accuracy |-> 1], device).at = place
                /\ Fence!ChooseCentre(Unsurveyed, device).mode
                     = IF accuracy \in 0 .. 2 THEN "LECTURER_DEVICE" ELSE "TOO_IMPRECISE"
                /\ Fence!ChooseCentre(Unsurveyed, Unsurveyed).mode = "NO_READING"
  /\ \E place, at \in Line :  \* beside the lecturer, and refused
       /\ Along[place][at] <= 3
       /\ LET centre == Anchored!ChooseCentre(Unsurveyed, [at |-> at, accuracy |-> 3]).at
          IN Anchored!CheckReading(centre, 2, Reading(place, 0, 0, FALSE), 0) = "OUTSIDE_GEOFENCE"

-----------------------------------------------------------------------------
Week == INSTANCE Timetables WITH NoRoom <- none, NoSchedule <- main

Entry(day, start, end, room) == [day |-> day, start |-> start, end |-> end, room |-> room]
Entries == {Entry(1, 0, 1, v1), Entry(1, 0, 1, v2), Entry(1, 1, 2, v1), Entry(2, 0, 1, none), Entry(1, 1, 1, v1)}
FromTimetable == {Week!Upserted([slots |-> {}, schedule |-> main], first) : first \in SUBSET Entries}
Kept == FromTimetable \cup {Week!AddedByHand(Entry(1, 0, 2, none))}
OfUnit(unit, code, verified) == [slots |-> unit.slots, code |-> code, verified |-> verified]

\* What a unit shows is its one meeting, and what a lecturer is offered can be opened.
WeekHolds ==
  /\ \A unit \in Kept, entries \in SUBSET Entries :
       LET now == Week!Upserted(unit, entries)
       IN /\ now.schedule # main => now.slots = {now.schedule}
          /\ \A s, t \in now.slots : s # t => Week!Time(s) # Week!Time(t)
          /\ \A s \in now.slots : s.end > s.start
  /\ \A one, other \in Kept, verified \in BOOLEAN, ms \in {0, 30000, 60000, 60001, 90000, 120000, 179999} :
       LET units == {OfUnit(one, 1, TRUE), OfUnit(other, 2, verified)}
           at == [day |-> 1, ms |-> ms]
       IN /\ \A offer \in Week!Offers(units, at) :
               IF ms <= 60000 * offer.slot.end
               THEN /\ Week!ResolveWindow(offer.unit.slots, at, {}) # {}
                    /\ \A w \in Week!ResolveWindow(offer.unit.slots, at, {}) : w.scheduled = 60000 * offer.slot.start
               ELSE ms < 60000 * (offer.slot.end + 1)
          /\ \A u \in units : u.slots # {} /\ u.verified /\ Week!ResolveWindow(u.slots, at, {}) # {}
               => Week!Offers(units, at) # {}
  /\ Week!ResolveWindow({}, [day |-> 1, ms |-> 0], {5}) = {[closes |-> 5, room |-> none, scheduled |-> main]}

-----------------------------------------------------------------------------
Staff1 == [active |-> TRUE, staff |-> v1, listed |-> {v1}]
Staff2 == [active |-> FALSE, staff |-> v2, listed |-> {v2}]
Erp == INSTANCE ErpLookups WITH
         Attempts <- 3, Records <- {Staff1, Staff2}, NoRecord <- none, NoStaff <- none, NoAnswer <- none

BodyRead == {[status |-> 200, body |-> b] : b \in {Staff1, Staff2, none}}
ThreeAnswers == [1 .. 3 -> BodyRead \cup {[status |-> s, body |-> none] : s \in {none, 401, 404, 429, 503}}]

\* The loop, one attempt at a time.
Loop(answers) ==
  LET after[n \in 1 .. 4] ==
        IF n = 4 THEN "UNAVAILABLE" ELSE
        CASE answers[n].status = 404 -> "NOT_FOUND"
          [] answers[n].status = 401 -> "UNAVAILABLE"
          [] answers[n].status = 200 -> "ANSWERED"
          [] OTHER -> after[n + 1]
  IN after[1]

\* Whatever fails, only an answer confirms or refuses anybody.
LookupsHold ==
  /\ Erp!LookupsAssumption
  /\ \A answers \in ThreeAnswers :
       LET said(body) == \E n \in 1 .. 3 : answers[n] = [status |-> 200, body |-> body]
           kept == [record |-> Staff1, expiresAt |-> 5]
           blank == [record |-> none, expiresAt |-> 0]
           staff == Erp!VerifyStaffNumber(blank, 0, answers)
       IN /\ Erp!Request(answers) = Loop(answers)
          /\ staff.status = "VERIFIED" => said(Staff1)
          /\ staff.status = "INACTIVE" => said(Staff2)
          /\ staff.status = "NOT_FOUND" => \E n \in 1 .. 3 : answers[n].status = 404
          /\ Erp!VerifyStaffNumber(kept, 4, answers).status = "VERIFIED"
          /\ Erp!VerifyStaffNumber(kept, 5, answers) = staff
          /\ Erp!KeptAfter(kept, 4, 1, answers) = kept
          /\ Erp!KeptAfter(blank, 0, 1, answers) # blank <=> Erp!Lookup(answers).status = "FOUND"
          /\ Erp!KeptAfter(blank, 0, 0, answers) = blank
          /\ Erp!LookupStudent(answers).status = "INACTIVE" => Erp!LookupCourse(answers).status = "NOT_FOUND"
          /\ Erp!UnitFor(answers, v1) = "VERIFIED" => said(Staff1)
          /\ Erp!UnitFor(answers, none) # "VERIFIED"
          /\ Loop(answers) # "ANSWERED" => Erp!SyncedRoster(answers, {v1, v2}, {v2}) = {v1, v2}
          /\ staff.status = "VERIFIED" => Erp!SyncedRoster(answers, {v1, v2}, {}) = {v1}

-----------------------------------------------------------------------------
Letter == INSTANCE ModerationLetter WITH Unsaid <- none, Nameless <- x1

Says(chars, odel, class) == [chars |-> chars, odel |-> odel, capitals |-> FALSE, closed |-> FALSE, class |-> class]
Cell(codes, titleOdel, text) == [codes |-> codes, codesOdel |-> FALSE, words |-> text.chars > 1, titleOdel |-> titleOdel, text |-> text]
Numeral == Cell({}, FALSE, Says(1, FALSE, none))
Listed(codes, titleOdel) ==
  [kind |-> "row", cells |-> <<Numeral, Cell(codes, FALSE, Says(8, FALSE, none)), Cell({}, titleOdel, Says(20, FALSE, none))>>]
Paragraph(text) == [kind |-> "p", text |-> text]
Class30 == [name |-> main, year |-> none, semester |-> none, students |-> 30]
Letters ==
  UNION {[1 .. n -> {Listed({v1}, FALSE), Listed({v1}, TRUE), Listed({v1, v2}, FALSE),
                     Paragraph(Says(30, TRUE, none)), Paragraph(Says(150, FALSE, Class30)), Paragraph(Says(150, TRUE, none)),
                     [kind |-> "row", cells |-> <<Cell({}, FALSE, Says(20, FALSE, none))>>]}] : n \in 1 .. 4}

\* The second listings, one line at a time.
Walked(entries) ==
  LET after[i \in 0 .. Len(entries)] ==
        IF i = 0 THEN [odel |-> {entries[k].codes : k \in {j \in DOMAIN entries : entries[j].sitting = "odel"}}, lines |-> <<>>]
        ELSE LET was == after[i - 1]
                 x == entries[i]
                 had == {j \in 1 .. i - 1 : entries[j].codes = x.codes /\ entries[j].sitting = "regular"}
                 first == Letter!Earliest(had)
             IN IF \/ x.sitting = "odel" \/ had = {} \/ x.codes \in was.odel
                   \/ entries[first].section.class # none \/ x.section.class # none
                THEN [was EXCEPT !.lines = Append(@, x)]
                ELSE [odel |-> was.odel \cup {x.codes},
                      lines |-> Append(was.lines, [x EXCEPT !.sitting = "odel", !.secondListingOf = first])]
  IN after[Len(entries)].lines

PaperOf(department, codes, sitting) == [department |-> department, codes |-> codes, sitting |-> sitting]
TermPapers ==
  [1 .. 2 -> {PaperOf("ours", {v1}, "regular"), PaperOf("ours", {v1}, "odel"), PaperOf("theirs", {v1, v2}, "regular"), PaperOf("ours", {v1, v2}, "regular")}]
Timetabled == [programme : {v1, v2}, year : {1, 2}, semester : {1, 2}]

\* No listing is lost, no unit gains a second ODEL paper, and what the review proposes can be saved.
LetterHolds ==
  /\ \A blocks \in Letters :
       LET entries == Letter!ReadExamList(blocks)
       IN /\ Len(entries) = Cardinality({i \in DOMAIN blocks : blocks[i].kind = "row" /\ Len(blocks[i].cells) = 3})
          /\ entries = Walked(Letter!Listings(blocks))
          /\ \A i, j \in DOMAIN entries :
               /\ entries[i].codes = entries[j].codes /\ entries[i].secondListingOf # 0 /\ i # j => entries[j].sitting = "regular"
               /\ entries[i].secondListingOf # 0 => ~Letter!IsDuplicate(entries, i)
          /\ Len(blocks) < 4 =>
               \A papers \in TermPapers, taken \in [{i \in DOMAIN entries : ~Letter!IsDuplicate(entries, i)} -> {none, 1, 2}] :
                 LET lines == [i \in DOMAIN taken |->
                                 [codes |-> entries[i].codes, sitting |-> entries[i].sitting, replaces |-> taken[i]]]
                 IN Letter!IsReviewed(papers, "ours", entries, lines) => Letter!Saveable(papers, "ours", lines)
  /\ \A rows \in SUBSET Timetabled :
       LET entries == Letter!ReadExamList(<<Paragraph(Says(150, FALSE, Class30)), Listed({v1}, FALSE),
                                            Paragraph(Says(150, FALSE, [Class30 EXCEPT !.students = 40])), Listed({v2}, FALSE)>>)
           classes == Letter!LetterClasses(entries, [p \in {v1, v2} |-> IF p = v1 THEN main ELSE x1], [u \in {v1} |-> rows])
           theirs == {r \in rows : r.programme = v1}
       IN \A id \in DOMAIN classes :
            /\ classes[id].programme = v1 /\ classes[id].students = 30
            /\ classes[id].year # none <=> \E r \in theirs : theirs = {r} /\ classes[id].year = r.year /\ classes[id].semester = r.semester

-----------------------------------------------------------------------------
Exams == INSTANCE ExamSubmission WITH Nobody <- none, NotCounted <- none

Seats(students, smarttt, edited, guess) == [students |-> students, smarttt |-> smarttt, edited |-> edited, guess |-> guess]
RowsHeld == {Seats(0, 0, FALSE, FALSE), Seats(0, 5, TRUE, FALSE), Seats(3, none, TRUE, TRUE), Seats(5, 5, FALSE, TRUE)}
PapersHeld ==
  {[department |-> d, codes |-> {v1}, sitting |-> s, rows |-> rows, examiner |-> main, main |-> main, signed |-> none] :
     d \in {"a", "b"}, s \in {"regular", "odel"}, rows \in [{v1} -> RowsHeld] \cup [{v2} -> RowsHeld] \cup [{} -> RowsHeld]}
TermsHeld ==
  {[papers |-> papers, lecturers |-> [l \in {main} |-> staff],
    offices |-> [d \in {"a", "b"} |-> IF d = "a" THEN [coded |-> TRUE, publication |-> a] ELSE [coded |-> b, publication |-> "standing"]]] :
     papers \in [1 .. 2 -> PapersHeld], staff \in {none, x1}, a \in {"standing", "reopened"}, b \in BOOLEAN}

\* The courses, one paper at a time.
CoursesRead(submission, c) ==
  LET ps == submission.papers
      after[i \in 0 .. 2] ==
        IF i = 0 THEN -1
        ELSE IF i \in DOMAIN ps /\ c \in DOMAIN ps[i].rows /\ after[i - 1] < ps[i].rows[c].students
        THEN ps[i].rows[c].students ELSE after[i - 1]
  IN after[2]

\* Every class of a submitted paper is one course, as large as its largest paper, and nobody else's.
SubmissionHolds ==
  \A term \in TermsHeld :
    LET submission == Exams!Submissions(term)
    IN /\ submission.published \cap submission.not_published = {}
       /\ \A c \in {v1, v2} :
            /\ c \in DOMAIN submission.courses <=> CoursesRead(submission, c) >= 0
            /\ c \in DOMAIN submission.courses => submission.courses[c].students = CoursesRead(submission, c)
       /\ \A p \in DOMAIN submission.papers :
            /\ term.papers[p].department \in submission.published
            /\ submission.papers[p].invigilator = IF term.lecturers[main] = none THEN none ELSE main
            /\ submission.papers[p].students = 0 <=> p \in Exams!Board(term, term.papers[p].department).warnings
            /\ \A c \in DOMAIN term.papers[p].rows :
                 term.papers[p].rows[c] = Seats(0, 5, TRUE, FALSE) <=> c \notin DOMAIN submission.papers[p].rows
       /\ \A d \in {"a", "b"} :
            LET board == Exams!Board(term, d)
            IN board.problems => board.students = 0 /\ board.changed = {}

ASSUME RulesAssumption == CodeHolds /\ FenceHolds /\ WeekHolds /\ LookupsHold /\ LetterHolds /\ SubmissionHolds
=============================================================================
