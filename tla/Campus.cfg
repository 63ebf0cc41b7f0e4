SPECIFICATION CampusSpec
CONSTANTS
  a1 = a1  a2 = a2  b1 = b1  b2 = b2  c1 = c1  c2 = c2  f1 = f1  f2 = f2  p1 = p1  p2 = p2  p3 = p3
  t1 = t1  t2 = t2  v1 = v1  v2 = v2  x1 = x1  none = none  main = main
  Auditors <- PairA
  Items <- PairB
  Standards <- PairC
  Ratings = {"COMPLIANT", "PARTIAL"}
  Nobody = none
  Nothing = none
  Unkept = none
  MaxStatusWrites = 3
  People <- PairA
  Numbers <- PairB
  Emails <- PairC
  None = none
  Visits <- TwoVisits
  MaxAccounts = 2
  MaxVisits = 2
  MaxRenewals = 1
  Respondents <- PairA
  Taught <- OneOfIt
  Owners <- EitherDepartment
  Scopes <- EveryDepartment
  EvalRequests <- PairC
  Windows <- OneWindow
  Minimums = {2}
  MaxEditions = 2
  MaxEvalTime = 1
  MaxResponses = 2
  Departments <- TwoDepartments
  Courses <- PairA
  Units <- PairB
  Lecturers <- OneLecturer
  ListOf <- TheirDepartment
  PersonOf <- ThePerson
  Labels = {"GR A"}
  MaxStudents = 1
  HoursLimit = 1
  NoDepartment = none
  NoLecturer = none
  MaxWrites = 4
  MaxLists = 2
  MaxMeanwhile = 1
  Examiners <- PairA
  Faculties <- TwoDepartments
  Papers <- ThreePapers
  PaperFaculty <- FacultyOfEach
  Invigilators <- OneLecturer
  StaffNumber <- ThePerson
  OnListOf <- TheirDepartment
  DutyLimits = {0, 1}
  Rooms <- TwoVisits
  Main = main
  Unnamed = none
  Drafts <- OneDraft
  Pupils <- PairA
  Photos = {1, 2, 3}
  Likeness <- HowLike
  Cards = {9}
  Certain = 4
  MatchThreshold = 2
  MatchMargin = 2
  DuplicateThreshold = 3
  PhotosEach = 2
  TokenTtl = 0
  Lessons <- PairB
  Stranger = none
  Enrolments <- PairC
  Taps = {1}
  MaxAsked = 3
  MaxClock = 1
  Halls <- PairA
  Sitters <- PairB
  Handhelds <- OneOfIt
  Invigilating <- OneOfIt
  Unseated = none
  PushedVersions = {1, 2}
  Pushes <- PairC
  Starts = 1
  OpenEarly = 1
  EndTimes = {1}
  CodeLife = 0
  MaxRequests = 2
  MaxPushes = 2
  LastMinute = 1
  Classrooms <- OneOfIt
  Teachers <- PairA
  LinkedAccounts = {}
  Scholars = {1}
  NoTeacher = none
  MaxVersion = 2
  Timetables <- OneTimetable
  Spellings = {1, 2, 3}
  KeyOf <- KeysOfThem
  SmartttIds = {1, 2}
  FirstLists <- OneList
  FirstNames <- TwoFirstNames
  Staff <- OneOfIt
  Callers <- PairB
  Nowhere = none
  MaxDepartments = 2
  MaxCalls = 2
  MaxRenames = 1
  Learners <- OneOfIt
  Modules <- TwoModules
  TaughtBy <- TaughtByThem
  OwnedBy <- OwnedByOne
  YearOf <- YearsOfThem
  HomeOf <- HomesOfThem
  Policies <- TwoPolicies
  SlotsOf <- OneSlot
  Grace = 0
  TicksPerMinute = 3
  Length = 1
  PageSizes = {1, 50}
  DrilldownLimit = 1
  Openings = {1, 2}
  MaxMeetings = 2
  MaxDeletions = 1
  MaxTicks = 2
SYMMETRY Interchangeable
INVARIANTS StampMatchesStatus AnswersFitQuestions ShownOnlyFromMinimum ImportMatchesUnlessRepublished PublishedListComplete
  NamesApart RecordedWhereMatched SatWhereSeated HistoryAgrees RowsAddUp LogAgreesToHalfAMinute
PROPERTIES StampsStay LinkKept DeletedNamesNobody WithinDutyLimit NamesStandWhilePublished
  SecondNameOnlyByOverlap ReportedChangeArrives UnattachedOnlyByOverlap
  PlacementStands MergedSpellingsFollow OpenClassIsNoAbsence
CHECK_DEADLOCK FALSE
