--------------------------- MODULE ExamSubmission ---------------------------
(* What is read of the departments' exam papers: the department's own page  *)
(* with what stops or warns about publishing, and the submission the        *)
(* Director's Generator imports, with every class as one course however     *)
(* many papers it sits.  All of it is worked out of the term as loaded.     *)
EXTENDS Integers, FiniteSetsExt

CONSTANTS
  Nobody,       \* no lecturer, or no staff number
  NotCounted    \* SMARTTT has no count of a class

\* A term is [papers, offices, lecturers].  Papers are numbered in the order they are read: each is
\* [department, codes, sitting, rows, examiner, main, signed], its rows [students, smarttt, edited,
\* guess] by class, guess when the class is the one the page makes up from the code; main is the
\* invigilator of no particular room, and signed what the last publication found, if any.  An office
\* is a department, [coded, publication]; a lecturer has a staff number or Nobody.

\* listedCourses: a class nobody set is held to the paper even before its number is known.
SitsPaper(row) == row.students > 0 \/ ~row.edited
ListedCourses(paper) == {c \in DOMAIN paper.rows : SitsPaper(paper.rows[c])}
IsGuessed(row) == row.guess /\ row.smarttt = NotCounted
ModeOf(paper) == IF paper.sitting = "odel" THEN "odel" ELSE "regular"
Seated(paper) == MapThenSumSet(LAMBDA c : paper.rows[c].students, ListedCourses(paper))

PapersOf(term, d) == {p \in DOMAIN term.papers : term.papers[p].department = d}

-----------------------------------------------------------------------------
(* The department's page.                                                   *)

Signature(term, paper) ==
  [codes |-> paper.codes, sitting |-> paper.sitting,
   examiner |-> IF paper.examiner = Nobody THEN Nobody ELSE term.lecturers[paper.examiner]]

Unready(term, d) == PapersOf(term, d) = {}
Unfilled(term, d) == {p \in PapersOf(term, d) : \A c \in ListedCourses(term.papers[p]) : term.papers[p].rows[c].students = 0}

\* A practical of the department's own unit, on a weekday, that ends after it starts.
MaySavePractical(d, unitDepartment, practical) ==
  unitDepartment = d /\ practical.start < practical.end /\ practical.weekday \notin {0, 6}

PaperDto(term, paper, everPublished) ==
  [sitting |-> paper.sitting, classRows |-> ListedCourses(paper), students |-> Seated(paper),
   changedSincePublished |-> everPublished /\ paper.signed # Signature(term, paper)]

Board(term, d) ==
  LET publication == term.offices[d].publication
      papers == [p \in PapersOf(term, d) |-> PaperDto(term, term.papers[p], publication # "never")]
  IN [canEdit  |-> publication # "standing",
      papers   |-> papers,
      problems |-> Unready(term, d),
      warnings |-> Unfilled(term, d),
      students |-> MapThenSumSet(LAMBDA p : papers[p].students, DOMAIN papers),
      changed  |-> {p \in DOMAIN papers : papers[p].changedSincePublished}]

-----------------------------------------------------------------------------
(* The submission.                                                          *)

Submitting(term) == {d \in DOMAIN term.offices : term.offices[d].coded /\ term.offices[d].publication = "standing"}
NotPublished(term) == {d \in DOMAIN term.offices : term.offices[d].coded} \ Submitting(term)
Submitted(term) == {p \in DOMAIN term.papers : term.papers[p].department \in Submitting(term)}

\* The paper a class's course is taken from: the first read of those with its biggest number.
Sitting(term, c) == {p \in Submitted(term) : c \in ListedCourses(term.papers[p])}
CourseFrom(term, c) ==
  LET students(p) == term.papers[p].rows[c].students
  IN CHOOSE p \in Sitting(term, c) : \A q \in Sitting(term, c) : students(q) < students(p) \/ (students(q) = students(p) /\ p <= q)

SubmittedCourses(term) ==
  [c \in UNION {ListedCourses(term.papers[p]) : p \in Submitted(term)} |->
     LET from == term.papers[CourseFrom(term, c)]
     IN [department |-> from.department, students |-> from.rows[c].students, mode |-> ModeOf(from)]]

\* A lecturer named for the whole paper goes with it if they can be told by a staff number.
MainInvigilator(term, paper) ==
  IF paper.main # Nobody /\ term.lecturers[paper.main] # Nobody THEN paper.main ELSE Nobody

SubmittedPaper(term, paper) ==
  [codes       |-> paper.codes, sitting |-> paper.sitting, examiner |-> paper.examiner,
   invigilator |-> MainInvigilator(term, paper),
   rows        |-> [c \in ListedCourses(paper) |->
                      [students |-> paper.rows[c].students, mode |-> ModeOf(paper), guessed |-> IsGuessed(paper.rows[c])]],
   students    |-> Seated(paper)]

Submissions(term) ==
  [papers        |-> [p \in Submitted(term) |-> SubmittedPaper(term, term.papers[p])],
   courses       |-> SubmittedCourses(term),
   published     |-> Submitting(term),
   not_published |-> NotPublished(term)]
=============================================================================
