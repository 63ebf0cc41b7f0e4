SPECIFICATION Spec
CONSTANTS
  p1 = p1  p2 = p2  guess = guess  whole = whole  stream = stream  odel = odel  r1 = r1  none = none
  Papers <- TwoPapers
  Classes <- AllClasses
  OdelClasses <- JustOdel
  Guess = guess
  Cohort <- LettersClass
  LetterClass <- LetterRows
  RowLists <- SomeLists
  Timetables <- SomeTimetables
  Numbers = {2}
  Requests <- OneRequest
  Absent = none
  MaxSyncs = 1
  MaxEdits = 3
PROPERTIES PublishedListHolds CorrectionsKept SeatsKept LetterIsWhole
SYMMETRY PaperSymmetry
CHECK_DEADLOCK FALSE
