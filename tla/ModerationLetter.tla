-------------------------- MODULE ModerationLetter --------------------------
(* How a department's moderation letter becomes its exam list: the blocks   *)
(* of the document read in order, a second listing taken as the ODEL paper, *)
(* the classes the headings name, the review against the term's papers, and *)
(* what saving a reviewed list refuses.  Nothing is stored before the save. *)
EXTENDS Integers, FiniteSets, SequencesExt

CONSTANTS
  Unsaid,    \* a class, year, semester, programme, paper or timetable there is none of
  Nameless   \* a class's name with nothing but degree words in it

\* A text is [chars, odel, capitals, closed, class]: its length, whether it says ODEL or part-time,
\* is all capitals, ends as a sentence, and the class it names, [name, year, semester, students] with
\* students 0 when unknown.  A cell is [codes, codesOdel, words, titleOdel, text]: the unit codes it
\* is made of, if any, and whether it says ODEL beside them or at the end of a title.
NoHeading == [chars |-> 0, odel |-> FALSE, capitals |-> FALSE, closed |-> FALSE, class |-> Unsaid]

Numbered(text) == text.class # Unsaid /\ text.class.students > 0

\* A paragraph of its own that is a heading, and not the letter's prose.
StartsSection(text) ==
  /\ text.chars \in 1 .. 200
  /\ ~text.closed
  /\ (text.chars <= 80 /\ (text.odel \/ text.capitals)) \/ Numbered(text)

\* A row with words and no code.
HeadsSection(cells) ==
  /\ Cardinality({i \in DOMAIN cells : cells[i].words}) = 1
  /\ Cardinality({i \in DOMAIN cells : cells[i].text.chars > 0}) <= 2

Earliest(S) == CHOOSE i \in S : \A j \in S : i <= j

Listing(read, cells, at) ==
  LET titles == {i \in DOMAIN cells : i > at /\ cells[i].words}
      odel == cells[at].codesOdel \/ read.section.odel \/ (titles # {} /\ cells[Earliest(titles)].titleOdel)
  IN [codes |-> cells[at].codes, section |-> read.section, sitting |-> IF odel THEN "odel" ELSE "regular", secondListingOf |-> 0]

\* One block: a heading starts a section, a row with a code is a listing, anything else says nothing.
ReadBlock(read, block) ==
  IF block.kind = "p"
  THEN IF StartsSection(block.text) THEN [read EXCEPT !.section = block.text] ELSE read
  ELSE LET coded == {i \in DOMAIN block.cells : block.cells[i].codes # {}}
       IN IF coded # {} THEN [read EXCEPT !.entries = Append(@, Listing(read, block.cells, Earliest(coded)))]
          ELSE IF HeadsSection(block.cells)
          THEN [read EXCEPT !.section = block.cells[CHOOSE i \in DOMAIN block.cells : block.cells[i].words].text]
          ELSE read

Listings(blocks) == FoldLeft(ReadBlock, [section |-> NoHeading, entries |-> <<>>], blocks).entries

-----------------------------------------------------------------------------
\* The first listing of its codes as a regular paper.
FirstListing(entries, i, j) ==
  /\ entries[j].codes = entries[i].codes /\ entries[j].sitting = "regular"
  /\ \A k \in 1 .. j - 1 : ~(entries[k].codes = entries[i].codes /\ entries[k].sitting = "regular")

\* Under a class's heading another class sits the same paper.
NeitherByClass(entries, i, j) == entries[i].section.class = Unsaid /\ entries[j].section.class = Unsaid

Repeats(entries, i) ==
  /\ entries[i].sitting = "regular"
  /\ \E j \in 1 .. i - 1 : FirstListing(entries, i, j) /\ NeitherByClass(entries, i, j)
  /\ \A k \in DOMAIN entries : entries[k].codes = entries[i].codes => entries[k].sitting = "regular"

SecondListing(entries, i) ==
  Repeats(entries, i) /\ \A k \in 1 .. i - 1 : entries[k].codes = entries[i].codes => ~Repeats(entries, k)

SecondListingsAsOdel(entries) ==
  [i \in DOMAIN entries |->
     IF SecondListing(entries, i)
     THEN [entries[i] EXCEPT !.sitting = "odel", !.secondListingOf = CHOOSE j \in 1 .. i - 1 : FirstListing(entries, i, j)]
     ELSE entries[i]]

\* A letter with no code in it is refused: no entries.
ReadExamList(blocks) == SecondListingsAsOdel(Listings(blocks))

-----------------------------------------------------------------------------
(* The numbered classes its headings name.                                  *)

ClassId(class) == [class EXCEPT !.students = 0]

\* The class each line sits under.
ClassOfLine(x) == IF Numbered(x.section) THEN ClassId(x.section.class) ELSE Unsaid

\* A programme is known by its name when no other has it.
ProgrammeNamed(programmes, name) ==
  LET found == {p \in DOMAIN programmes : programmes[p] = name}
  IN IF name # Nameless /\ Cardinality(found) = 1 THEN CHOOSE p \in found : TRUE ELSE Unsaid

\* What the letter leaves out, when the timetable has one answer for the class's own papers.
Completed(id, programme, entries, timetable) ==
  LET units == UNION {entries[i].codes : i \in {k \in DOMAIN entries : ClassOfLine(entries[k]) = id}}
      seen == {[year |-> r.year, semester |-> r.semester] :
                 r \in {q \in UNION {timetable[u] : u \in units \cap DOMAIN timetable} :
                          q.programme = programme /\ id.year \in {Unsaid, q.year}}}
      known == CHOOSE s \in seen : TRUE
  IN IF programme = Unsaid \/ Unsaid \notin {id.year, id.semester} \/ Cardinality(seen) # 1 THEN id
     ELSE [id EXCEPT !.year = known.year, !.semester = IF @ = Unsaid THEN known.semester ELSE @]

\* The first heading that names a class gives its number.
LetterClasses(entries, programmes, timetable) ==
  LET naming(id) == {i \in DOMAIN entries : ClassOfLine(entries[i]) = id}
  IN [id \in {ClassOfLine(entries[i]) : i \in DOMAIN entries} \ {Unsaid} |->
        LET programme == ProgrammeNamed(programmes, id.name)
            told == IF timetable = Unsaid THEN id ELSE Completed(id, programme, entries, timetable)
        IN [programme |-> programme, year |-> told.year, semester |-> told.semester,
            students |-> entries[Earliest(naming(id))].section.class.students]]

-----------------------------------------------------------------------------
(* The review. papers are the term's, [department, codes, sitting] each;    *)
(* own is the department that uploads.                                      *)

SamePaper(x, y) == x.codes = y.codes /\ x.sitting = y.sitting

\* A line of a paper an earlier line has.
IsDuplicate(entries, i) == \E j \in 1 .. i - 1 : SamePaper(entries[j], entries[i])

Overlapping(papers, x) == {p \in DOMAIN papers : papers[p].sitting = x.sitting /\ papers[p].codes \cap x.codes # {}}
OtherDepartments(papers, own, x) == {papers[p].department : p \in Overlapping(papers, x)} \ {own}
Existing(papers, own, x) == {p \in Overlapping(papers, x) : papers[p].department = own /\ SamePaper(papers[p], x)}

\* The regular papers an ODEL line may turn into it: the letter lists the unit only as ODEL now.
Switchable(papers, own, entries, i) ==
  {p \in DOMAIN papers :
     /\ entries[i].sitting = "odel" /\ ~IsDuplicate(entries, i)
     /\ Existing(papers, own, entries[i]) = {}
     /\ \A k \in DOMAIN entries : entries[k].codes = entries[i].codes => entries[k].sitting # "regular"
     /\ papers[p].department = own /\ papers[p].sitting = "regular" /\ papers[p].codes = entries[i].codes}

\* The lines of a paper are under these classes.
ClassesOfPaper(entries, i) == {ClassOfLine(entries[k]) : k \in {j \in DOMAIN entries : SamePaper(entries[j], entries[i])}} \ {Unsaid}

\* What is sent back once reviewed: a line per paper, with the paper it takes over.
IsReviewed(papers, own, entries, lines) ==
  LET papersListed == {i \in DOMAIN entries : ~IsDuplicate(entries, i)}
  IN /\ DOMAIN lines = papersListed
     /\ \A i \in papersListed :
          /\ lines[i].codes = entries[i].codes /\ lines[i].sitting = entries[i].sitting
          /\ lines[i].replaces \in IF Switchable(papers, own, entries, i) = {} THEN {Unsaid}
                                   ELSE Switchable(papers, own, entries, i)

\* save: an ODEL line takes over a regular paper of the department's own, of the same codes and not
\* listed beside it, and no paper is taken over twice; a line whose ODEL paper is there updates that one.
Saveable(papers, own, lines) ==
  LET has(i) == Existing(papers, own, lines[i]) # {}
  IN \A i \in DOMAIN lines : lines[i].replaces # Unsaid =>
       /\ lines[i].sitting = "odel"
       /\ lines[i].replaces \in DOMAIN papers
       /\ papers[lines[i].replaces].department = own
       /\ papers[lines[i].replaces].sitting = "regular"
       /\ papers[lines[i].replaces].codes = lines[i].codes
       /\ \A k \in DOMAIN lines : ~(lines[k].codes = lines[i].codes /\ lines[k].sitting = "regular")
       /\ has(i) \/ \A k \in DOMAIN lines : k # i /\ ~has(k) => lines[k].replaces # lines[i].replaces
=============================================================================
