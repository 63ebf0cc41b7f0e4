---------------------------- MODULE CampusProofs ----------------------------
(* What was proved of each component, proved of the campus they run in: the *)
(* properties are those of its runs, for every value of the constants.      *)
(*                                                                          *)
(* The modules of proofs are instantiated as the components are, and first  *)
(* each component is shown to be the one they are about.  Then its          *)
(* invariant holds throughout the behaviours that are its own.              *)
EXTENDS Campus, TLAPS

O == INSTANCE OfficeProofs WITH
       evalClock <- r1, round <- r2, accounts <- r3, allocated <- r4,
       givenBy <- r5, submissions <- r6, responses <- r7, evalCall <- r8,
       report <- r9, limit <- r1, shared <- r2, papers <- r3, named <- r4,
       published <- r5, request <- r6, timetable <- r1, version <- r2,
       unit <- r3, roster <- r4, attached <- r5, registered <- r6,
       sync <- r7, throttled <- r8, changeReport <- r9, listed <- r1,
       department <- r2, alias <- r3, lecturer <- r4, unitOwner <- r5,
       handling <- r6, calls <- r7, renames <- r8, term <- r1,
       listing <- r2, director <- r3, edits <- r4

P == INSTANCE PeopleProofs WITH
       person <- r1, template <- r2, card <- r3, live <- r4, present <- r5,
       tokens <- r6, enrolling <- r7, tap <- r8, clock <- r9, asked <- r10,
       plan <- r1, hall <- r2, sat <- r3, shown <- r4, device <- r5,
       minute <- r6, requests <- r7, pushing <- r8,
       arrived <- r9, mixed <- r10, tick <- r1, meeting <- r2,
       enrolled <- r3, checkedIn <- r4, departed <- r5, policy <- r6,
       formerly <- r7, withAccount <- r8, deletions <- r9

-----------------------------------------------------------------------------
(* What the extended modules assume of their constants.                    *)

LEMMA OfficeConstants ==
  /\ Ratings \subseteq O!AllRatings /\ Nobody \notin Auditors
  /\ Nothing \notin Standards /\ Nothing \notin O!AllRatings /\ MaxStatusWrites \in Nat
BY QualityAuditsAssumption DEF AllRatings, O!AllRatings

LEMMA PeopleConstants ==
  {MaxAccounts, MaxVisits, MaxRenewals} \subseteq Nat /\ None \notin People \cup Numbers \cup Emails \cup P!AccountIds
BY AccountsAssumption DEF AccountIds, P!AccountIds

-----------------------------------------------------------------------------
(* The components here and the components the proofs are about are the same. *)

LEMMA EvaluationsSame ==
  /\ E!EvaluationsAssumption => O!EvaluationsAssumption
  /\ E!EvalInit <=> O!EvalInit
  /\ [E!EvalNext]_(E!evalVars) <=> [O!EvalNext]_(O!evalVars)
  /\ E!AnswersFitQuestions <=> O!AnswersFitQuestions
  /\ E!ShownOnlyFromMinimum <=> O!ShownOnlyFromMinimum
<1>1. E!EvaluationsAssumption => O!EvaluationsAssumption
  BY DEF
    E!EvaluationsAssumption, O!EvaluationsAssumption
<1>2. E!EvalInit <=> O!EvalInit
  BY DEF
    E!EvalInit, E!CallDone, O!EvalInit, O!CallDone
<1>3. [E!EvalNext]_(E!evalVars) <=> [O!EvalNext]_(O!evalVars)
  BY DEF
    E!EvalNext, E!EvalChange, E!GetResults, E!EvalTick, E!Join, E!Withdraw, E!ChangeHands,
    E!DeleteStudent, E!CreateRound, E!CloseRound, E!EvalRequest, E!ResultRows, E!Overall, E!Reply,
    E!AskSubmit, E!AskUpdate, E!AskResults, E!AskDelete, E!Submit, E!UpdateRound, E!DeleteRound,
    E!ListUnitResults, E!ListAnswers, E!Entry, E!Cardinality, E!CountedFor, E!CallDone, E!Ready,
    E!IsOpen, E!Hold, E!Accepts, E!ResponseTo, E!Replaces, E!WithoutAnswers, E!Awaits, E!InScope,
    E!AnsweredIn, E!Reportable, E!About, E!evalVars, O!EvalNext, O!EvalChange, O!GetResults,
    O!EvalTick, O!Join, O!Withdraw, O!ChangeHands, O!DeleteStudent, O!CreateRound, O!CloseRound,
    O!EvalRequest, O!ResultRows, O!Overall, O!Reply, O!AskSubmit, O!AskUpdate, O!AskResults,
    O!AskDelete, O!Submit, O!UpdateRound, O!DeleteRound, O!ListUnitResults, O!ListAnswers,
    O!Entry, O!Cardinality, O!CountedFor, O!CallDone, O!Ready, O!IsOpen, O!Hold, O!Accepts,
    O!ResponseTo, O!Replaces, O!WithoutAnswers, O!Awaits, O!InScope, O!AnsweredIn, O!Reportable,
    O!About, O!evalVars
<1>4. E!AnswersFitQuestions <=> O!AnswersFitQuestions
  BY DEF
    E!AnswersFitQuestions, E!Cardinality, O!AnswersFitQuestions, O!Cardinality
<1>5. E!ShownOnlyFromMinimum <=> O!ShownOnlyFromMinimum
  BY DEF
    E!ShownOnlyFromMinimum, E!Behind, E!Cardinality, O!ShownOnlyFromMinimum, O!Behind,
    O!Cardinality
<1> QED BY <1>1, <1>2, <1>3, <1>4, <1>5

LEMMA InvigilationSame ==
  /\ I!InvigilationAssumption => O!InvigilationAssumption
  /\ I!InvigilationInit <=> O!InvigilationInit
  /\ [I!InvigilationNext]_(I!invigilationVars) <=> [O!InvigilationNext]_(O!invigilationVars)
  /\ I!NamesApart <=> O!NamesApart
  /\ I!WithinDutyLimitStep <=> O!WithinDutyLimitStep
  /\ I!NamesStandWhilePublishedStep <=> O!NamesStandWhilePublishedStep
<1>1. I!InvigilationAssumption => O!InvigilationAssumption
  BY DEF
    I!InvigilationAssumption, I!IsFiniteSet, I!Places, O!InvigilationAssumption, O!IsFiniteSet,
    O!Places
<1>2. I!InvigilationInit <=> O!InvigilationInit
  BY DEF
    I!InvigilationInit, I!Places, I!NoRow, I!NoNaming, O!InvigilationInit, O!Places, O!NoRow,
    O!NoNaming
<1>3. [I!InvigilationNext]_(I!invigilationVars) <=> [O!InvigilationNext]_(O!invigilationVars)
  BY DEF
    I!InvigilationNext, I!ShareDraft, I!DropPaper, I!AskName, I!WriteName, I!CheckName,
    I!AskPublish, I!WritePublication, I!ReopenNames, I!Places, I!NoRow, I!Extras, I!Own,
    I!AskToName, I!NamingDone, I!Locked, I!Unpublished, I!Acceptable, I!Shares, I!BoardClear,
    I!NoNaming, I!Placed, I!FreeAt, I!DutyLeft, I!DutyOf, I!Duties, I!DutiesOf, I!Needed, I!Rows,
    I!Clash, I!Cardinality, I!RowsOf, I!Slot, I!NoSession, I!RoomOf, I!invigilationVars,
    O!InvigilationNext, O!ShareDraft, O!DropPaper, O!AskName, O!WriteName, O!CheckName,
    O!AskPublish, O!WritePublication, O!ReopenNames, O!Places, O!NoRow, O!Extras, O!Own,
    O!AskToName, O!NamingDone, O!Locked, O!Unpublished, O!Acceptable, O!Shares, O!BoardClear,
    O!NoNaming, O!Placed, O!FreeAt, O!DutyLeft, O!DutyOf, O!Duties, O!DutiesOf, O!Needed, O!Rows,
    O!Clash, O!Cardinality, O!RowsOf, O!Slot, O!NoSession, O!RoomOf, O!invigilationVars
<1>4. I!NamesApart <=> O!NamesApart
  BY DEF
    I!NamesApart, I!Rows, I!Together, I!Clash, I!Places, I!Placed, I!Slot, I!RoomOf, I!NoSession,
    O!NamesApart, O!Rows, O!Together, O!Clash, O!Places, O!Placed, O!Slot, O!RoomOf, O!NoSession
<1>5. I!WithinDutyLimitStep <=> O!WithinDutyLimitStep
  BY DEF
    I!WithinDutyLimitStep, I!NoNaming, I!Cardinality, I!Duties, I!RowsOf, I!DutyOf, I!Rows,
    I!Placed, I!Slot, I!RoomOf, I!Places, I!NoSession, O!WithinDutyLimitStep, O!NoNaming,
    O!Cardinality, O!Duties, O!RowsOf, O!DutyOf, O!Rows, O!Placed, O!Slot, O!RoomOf, O!Places,
    O!NoSession
<1>6. I!NamesStandWhilePublishedStep <=> O!NamesStandWhilePublishedStep
  BY DEF
    I!NamesStandWhilePublishedStep, I!Places, O!NamesStandWhilePublishedStep, O!Places
<1> QED BY <1>1, <1>2, <1>3, <1>4, <1>5, <1>6

LEMMA RostersSame ==
  /\ T!RostersAssumption => O!RostersAssumption
  /\ T!RostersInit <=> O!RostersInit
  /\ [T!RostersNext]_(T!rostersVars) <=> [O!RostersNext]_(O!rostersVars)
  /\ T!ReportedChangeArrivesStep <=> O!ReportedChangeArrivesStep
  /\ T!UnattachedOnlyByOverlapStep <=> O!UnattachedOnlyByOverlapStep
<1>1. T!RostersAssumption => O!RostersAssumption
  BY DEF
    T!RostersAssumption, O!RostersAssumption
<1>2. T!RostersInit <=> O!RostersInit
  BY DEF
    T!RostersInit, T!NotCreated, T!NoSync, T!NoReport, O!RostersInit, O!NotCreated, O!NoSync,
    O!NoReport
<1>3. [T!RostersNext]_(T!rostersVars) <=> [O!RostersNext]_(O!rostersVars)
  BY DEF
    T!RostersNext, T!Change, T!VerifyUnit, T!Report, T!CreateUnitByHand, T!PageLoad, T!Fetch,
    T!UpsertUnit, T!RosterStatements, T!RosterCommit, T!Finish, T!Fail, T!IntervalEnds, T!Resync,
    T!RegisterScholar, T!LinkAllocations, T!LinkingFails, T!rosterRows, T!Affected, T!NoReport,
    T!WaitsFirst, T!NotCreated, T!Running, T!Holdable, T!Verification, T!Reconciled, T!Attached,
    T!Settled, T!NoSync, T!rostersVars, O!RostersNext, O!Change, O!VerifyUnit, O!Report,
    O!CreateUnitByHand, O!PageLoad, O!Fetch, O!UpsertUnit, O!RosterStatements, O!RosterCommit,
    O!Finish, O!Fail, O!IntervalEnds, O!Resync, O!RegisterScholar, O!LinkAllocations,
    O!LinkingFails, O!rosterRows, O!Affected, O!NoReport, O!WaitsFirst, O!NotCreated, O!Running,
    O!Holdable, O!Verification, O!Reconciled, O!Attached, O!Settled, O!NoSync, O!rostersVars
<1>4. T!ReportedChangeArrivesStep <=> O!ReportedChangeArrivesStep
  BY DEF
    T!ReportedChangeArrivesStep, O!ReportedChangeArrivesStep
<1>5. T!UnattachedOnlyByOverlapStep <=> O!UnattachedOnlyByOverlapStep
  BY DEF
    T!UnattachedOnlyByOverlapStep, T!Unattached, O!UnattachedOnlyByOverlapStep, O!Unattached
<1> QED BY <1>1, <1>2, <1>3, <1>4, <1>5

LEMMA DepartmentsSame ==
  /\ D!DepartmentsAssumption => O!DepartmentsAssumption
  /\ D!DepartmentsInit <=> O!DepartmentsInit
  /\ [D!DepartmentsNext]_(D!departmentsVars) <=> [O!DepartmentsNext]_(O!departmentsVars)
  /\ D!PlacementStandsStep <=> O!PlacementStandsStep
  /\ D!MergedSpellingsFollowStep <=> O!MergedSpellingsFollowStep
<1>1. D!DepartmentsAssumption => O!DepartmentsAssumption
  BY DEF
    D!DepartmentsAssumption, D!IsFiniteSet, D!DepartmentIds, O!DepartmentsAssumption,
    O!IsFiniteSet, O!DepartmentIds
<1>2. D!DepartmentsInit <=> O!DepartmentsInit
  BY DEF
    D!DepartmentsInit, D!DepartmentIds, D!NoDepartmentRow, D!Keys, D!NoUnitYet, D!NoCall,
    O!DepartmentsInit, O!DepartmentIds, O!NoDepartmentRow, O!Keys, O!NoUnitYet, O!NoCall
<1>3. [D!DepartmentsNext]_(D!departmentsVars) <=> [O!DepartmentsNext]_(O!departmentsVars)
  BY DEF
    D!DepartmentsNext, D!SmartttChanges, D!LecturerSignsIn, D!UnitIsAdded, D!RequestArrives,
    D!Asked, D!Sync, D!Insert, D!Correct, D!Move, D!Merge, D!Keys, D!ForgetSpelling, D!Waiting,
    D!Meaning, D!Place, D!NoUnitYet, D!Begin, D!NoCall, D!There, D!Ended, D!Brought, D!NamedSo,
    D!Inserted, D!DepartmentIds, D!Linked, D!PlacedIn, D!MergedAliases, D!MeaningIn, D!ClaimUnits,
    D!MapThenFoldSet, D!BroughtIn, D!Max, D!Unused, D!SameKey, D!Renamed, D!departmentsVars,
    O!DepartmentsNext, O!SmartttChanges, O!LecturerSignsIn, O!UnitIsAdded, O!RequestArrives,
    O!Asked, O!Sync, O!Insert, O!Correct, O!Move, O!Merge, O!Keys, O!ForgetSpelling, O!Waiting,
    O!Meaning, O!Place, O!NoUnitYet, O!Begin, O!NoCall, O!There, O!Ended, O!Brought, O!NamedSo,
    O!Inserted, O!DepartmentIds, O!Linked, O!PlacedIn, O!MergedAliases, O!MeaningIn, O!ClaimUnits,
    O!MapThenFoldSet, O!BroughtIn, O!Max, O!Unused, O!SameKey, O!Renamed, O!departmentsVars
<1>4. D!PlacementStandsStep <=> O!PlacementStandsStep
  BY DEF
    D!PlacementStandsStep, O!PlacementStandsStep
<1>5. D!MergedSpellingsFollowStep <=> O!MergedSpellingsFollowStep
  BY DEF
    D!MergedSpellingsFollowStep, D!There, D!Meaning, D!SameKey, D!DepartmentIds, D!MeaningIn,
    O!MergedSpellingsFollowStep, O!There, O!Meaning, O!SameKey, O!DepartmentIds, O!MeaningIn
<1> QED BY <1>1, <1>2, <1>3, <1>4, <1>5

LEMMA TeachingSame ==
  /\ L!TeachingAssumption => O!TeachingAssumption
  /\ L!TeachingInit <=> O!TeachingInit
  /\ [L!TeachingNext]_(L!teachingVars) <=> [O!TeachingNext]_(O!teachingVars)
  /\ L!PublishedListComplete <=> O!PublishedListComplete
  /\ L!ImportMatchesUnlessRepublished <=> O!ImportMatchesUnlessRepublished
<1>1. L!TeachingAssumption => O!TeachingAssumption
  BY DEF
    L!TeachingAssumption, L!Whole, L!IsFiniteSet, O!TeachingAssumption, O!Whole, O!IsFiniteSet
<1>2. L!TeachingInit <=> O!TeachingInit
  BY DEF
    L!TeachingInit, L!NoUnit, L!Unread, O!TeachingInit, O!NoUnit, O!Unread
<1>3. [L!TeachingNext]_(L!teachingVars) <=> [O!TeachingNext]_(O!teachingVars)
  BY DEF
    L!TeachingNext, L!EditCourse, L!EditUnit, L!EditGroups, L!EditLecturer, L!Paste, L!Publish,
    L!Reopen, L!ReadTable, L!ReadPublications, L!CanSaveCourse, L!Write, L!SaveCourse,
    L!CanDeleteCourse, L!DeleteCourse, L!CanCreateUnit, L!CreateUnit, L!CanUpdateUnit,
    L!UpdateUnit, L!CanDeleteUnit, L!DeleteUnit, L!OwnUnits, L!Splits, L!CanSetGroups,
    L!SetGroups, L!CanUpdateGroup, L!UpdateGroup, L!CanSaveLecturer, L!WriteWhilePublished,
    L!SaveLecturer, L!CanDeleteLecturer, L!DeleteLecturer, L!PasteCourses, L!PasteUnits,
    L!PasteGroups, L!PasteLecturers, L!Open, L!Problems, L!Meanwhile, L!Unread, L!TableOf,
    L!UnitsTaking, L!InTerm, L!WholeClass, L!Pruned, L!NoUnit, L!Whole, L!Group, L!MayTeach,
    L!NamedFor, L!FoldLeft, L!CourseRow, L!UnitRow, L!FoldSet, L!LecturerRow, L!UnitReady,
    L!WeeklyLoad, L!LecturersNamed, L!Restrict, L!MapThenFoldSet, L!Max, L!Having, L!PlacedOf,
    L!MapThenSumSet, L!Cardinality, L!MemberStudents, L!teachingVars, O!TeachingNext,
    O!EditCourse, O!EditUnit, O!EditGroups, O!EditLecturer, O!Paste, O!Publish, O!Reopen,
    O!ReadTable, O!ReadPublications, O!CanSaveCourse, O!Write, O!SaveCourse, O!CanDeleteCourse,
    O!DeleteCourse, O!CanCreateUnit, O!CreateUnit, O!CanUpdateUnit, O!UpdateUnit, O!CanDeleteUnit,
    O!DeleteUnit, O!OwnUnits, O!Splits, O!CanSetGroups, O!SetGroups, O!CanUpdateGroup,
    O!UpdateGroup, O!CanSaveLecturer, O!WriteWhilePublished, O!SaveLecturer, O!CanDeleteLecturer,
    O!DeleteLecturer, O!PasteCourses, O!PasteUnits, O!PasteGroups, O!PasteLecturers, O!Open,
    O!Problems, O!Meanwhile, O!Unread, O!TableOf, O!UnitsTaking, O!InTerm, O!WholeClass, O!Pruned,
    O!NoUnit, O!Whole, O!Group, O!MayTeach, O!NamedFor, O!FoldLeft, O!CourseRow, O!UnitRow,
    O!FoldSet, O!LecturerRow, O!UnitReady, O!WeeklyLoad, O!LecturersNamed, O!Restrict,
    O!MapThenFoldSet, O!Max, O!Having, O!PlacedOf, O!MapThenSumSet, O!Cardinality,
    O!MemberStudents, O!teachingVars
<1>4. L!PublishedListComplete <=> O!PublishedListComplete
  BY DEF
    L!PublishedListComplete, L!OwnUnits, L!NamedFor, L!Having, L!PlacedOf, L!MapThenSumSet,
    L!MemberStudents, L!MapThenFoldSet, O!PublishedListComplete, O!OwnUnits, O!NamedFor, O!Having,
    O!PlacedOf, O!MapThenSumSet, O!MemberStudents, O!MapThenFoldSet
<1>5. L!ImportMatchesUnlessRepublished <=> O!ImportMatchesUnlessRepublished
  BY DEF
    L!ImportMatchesUnlessRepublished, L!Unread, L!Submitted, L!OwnUnits, L!GivenUnit,
    L!OwnCourses, L!MemberStudents, O!ImportMatchesUnlessRepublished, O!Unread, O!Submitted,
    O!OwnUnits, O!GivenUnit, O!OwnCourses, O!MemberStudents
<1> QED BY <1>1, <1>2, <1>3, <1>4, <1>5

LEMMA RecognitionSame ==
  /\ R!RecognitionAssumption => P!RecognitionAssumption
  /\ R!RecognitionInit <=> P!RecognitionInit
  /\ [R!RecognitionNext]_(R!recognitionVars) <=> [P!RecognitionNext]_(P!recognitionVars)
  /\ R!RecordedWhereMatched <=> P!RecordedWhereMatched
  /\ R!SecondNameOnlyByOverlapStep <=> P!SecondNameOnlyByOverlapStep
<1>1. R!RecognitionAssumption => P!RecognitionAssumption
  BY DEF
    R!RecognitionAssumption, R!IsFiniteSet, P!RecognitionAssumption, P!IsFiniteSet
<1>2. R!RecognitionInit <=> P!RecognitionInit
  BY DEF
    R!RecognitionInit, R!Unissued, R!NotEnrolling, R!NoTap, P!RecognitionInit, P!Unissued,
    P!NotEnrolling, P!NoTap
<1>3. [R!RecognitionNext]_(R!recognitionVars) <=> [P!RecognitionNext]_(P!recognitionVars)
  BY DEF
    R!RecognitionNext, R!GiveConsent, R!WithdrawConsent, R!Reroster, R!DeletePupil,
    R!RemoveEnrolment, R!AskEnrolment, R!EmbedPhotos, R!CompareOthers, R!SaveEnrolment,
    R!RevokeCard, R!EnrolCard, R!SendFace, R!ReadCard, R!ConfirmFace, R!IdentifyFace,
    R!CheckEligible, R!VerifyCard, R!Record, R!EndClass, R!Second, R!unattended, R!Ask,
    R!Unissued, R!OnUnit, R!NotEnrolling, R!Cardinality, R!Agree, R!Clashes, R!NoTap, R!Stand,
    R!untapped, R!Signed, R!SetToSeqs, R!FaceCandidates, R!BestMatch, R!SetToSeq, R!ScoreOf,
    R!FoldLeft, R!Better, R!Unmatched, R!IsInjective, R!Highest, R!MapThenFoldSet, R!Max,
    R!recognitionVars, P!RecognitionNext, P!GiveConsent, P!WithdrawConsent, P!Reroster,
    P!DeletePupil, P!RemoveEnrolment, P!AskEnrolment, P!EmbedPhotos, P!CompareOthers,
    P!SaveEnrolment, P!RevokeCard, P!EnrolCard, P!SendFace, P!ReadCard, P!ConfirmFace,
    P!IdentifyFace, P!CheckEligible, P!VerifyCard, P!Record, P!EndClass, P!Second, P!unattended,
    P!Ask, P!Unissued, P!OnUnit, P!NotEnrolling, P!Cardinality, P!Agree, P!Clashes, P!NoTap,
    P!Stand, P!untapped, P!Signed, P!SetToSeqs, P!FaceCandidates, P!BestMatch, P!SetToSeq,
    P!ScoreOf, P!FoldLeft, P!Better, P!Unmatched, P!IsInjective, P!Highest, P!MapThenFoldSet,
    P!Max, P!recognitionVars
<1>4. R!RecordedWhereMatched <=> P!RecordedWhereMatched
  BY DEF
    R!RecordedWhereMatched, P!RecordedWhereMatched
<1>5. R!SecondNameOnlyByOverlapStep <=> P!SecondNameOnlyByOverlapStep
  BY DEF
    R!SecondNameOnlyByOverlapStep, P!SecondNameOnlyByOverlapStep
<1> QED BY <1>1, <1>2, <1>3, <1>4, <1>5

LEMMA ExamRoomsSame ==
  /\ X!ExamRoomsAssumption => P!ExamRoomsAssumption
  /\ X!ExamRoomsInit <=> P!ExamRoomsInit
  /\ [X!ExamRoomsNext]_(X!examRoomsVars) <=> [P!ExamRoomsNext]_(P!examRoomsVars)
  /\ X!SatWhereSeated <=> P!SatWhereSeated
<1>1. X!ExamRoomsAssumption => P!ExamRoomsAssumption
  BY DEF
    X!ExamRoomsAssumption, P!ExamRoomsAssumption
<1>2. X!ExamRoomsInit <=> P!ExamRoomsInit
  BY DEF
    X!ExamRoomsInit, X!Unpushed, X!NoCode, X!NoRequest, X!NoPush, P!ExamRoomsInit, P!Unpushed,
    P!NoCode, P!NoRequest, P!NoPush
<1>3. [X!ExamRoomsNext]_(X!examRoomsVars) <=> [P!ExamRoomsNext]_(P!examRoomsVars)
  BY DEF
    X!ExamRoomsNext, X!Arrive, X!WriteRow, X!WithdrawRow, X!BeginWithdrawing, X!Commit,
    X!RollBack, X!ShowCode, X!CloseHall, X!AskToOpen, X!AskToSit, X!OpenHall, X!Sit, X!Minute,
    X!NoPush, X!RoomsOf, X!roomVars, X!Free, X!PushStep, X!PaperRooms, X!Superseded, X!Placed,
    X!Owns, X!pushVars, X!TakeRequest, X!NoRequest, X!Taking, X!Listed, X!StillUnopened,
    X!SeatedIn, X!Holds, X!Unpushed, X!NoCode, X!examRoomsVars, P!ExamRoomsNext, P!Arrive,
    P!WriteRow, P!WithdrawRow, P!BeginWithdrawing, P!Commit, P!RollBack, P!ShowCode, P!CloseHall,
    P!AskToOpen, P!AskToSit, P!OpenHall, P!Sit, P!Minute, P!NoPush, P!RoomsOf, P!roomVars, P!Free,
    P!PushStep, P!PaperRooms, P!Superseded, P!Placed, P!Owns, P!pushVars, P!TakeRequest,
    P!NoRequest, P!Taking, P!Listed, P!StillUnopened, P!SeatedIn, P!Holds, P!Unpushed, P!NoCode,
    P!examRoomsVars
<1>4. X!SatWhereSeated <=> P!SatWhereSeated
  BY DEF
    X!SatWhereSeated, X!PaperRooms, X!SatIn, X!AbsentFrom, P!SatWhereSeated, P!PaperRooms,
    P!SatIn, P!AbsentFrom
<1> QED BY <1>1, <1>2, <1>3, <1>4

LEMMA FiguresSame ==
  /\ F!FiguresAssumption => P!FiguresAssumption
  /\ F!FiguresInit <=> P!FiguresInit
  /\ [F!FiguresNext]_(F!figuresVars) <=> [P!FiguresNext]_(P!figuresVars)
  /\ F!HistoryAgrees <=> P!HistoryAgrees
  /\ F!LogAgreesToHalfAMinute <=> P!LogAgreesToHalfAMinute
  /\ F!RowsAddUp <=> P!RowsAddUp
  /\ F!OpenClassIsNoAbsenceStep <=> P!OpenClassIsNoAbsenceStep
<1>1. F!FiguresAssumption => P!FiguresAssumption
  BY DEF
    F!FiguresAssumption, F!Tutors, F!IsFiniteSet, F!Range, P!FiguresAssumption, P!Tutors,
    P!IsFiniteSet, P!Range
<1>2. F!FiguresInit <=> P!FiguresInit
  BY DEF
    F!FiguresInit, F!Meetings, F!NoMeeting, F!Unscheduled, P!FiguresInit, P!Meetings, P!NoMeeting,
    P!Unscheduled
<1>3. [F!FiguresNext]_(F!figuresVars) <=> [P!FiguresNext]_(P!figuresVars)
  BY DEF
    F!FiguresNext, F!Meetings, F!Activate, F!CloseMeeting, F!Attend, F!Enrol, F!Tutors,
    F!DeleteTutor, F!DeleteLearner, F!RegisterAgain, F!SetPolicy, F!TickOn, F!WindowsFrom,
    F!ActiveOn, F!Deletion, F!Unscheduled, F!figuresVars, P!FiguresNext, P!Meetings, P!Activate,
    P!CloseMeeting, P!Attend, P!Enrol, P!Tutors, P!DeleteTutor, P!DeleteLearner, P!RegisterAgain,
    P!SetPolicy, P!TickOn, P!WindowsFrom, P!ActiveOn, P!Deletion, P!Unscheduled, P!figuresVars
<1>4. F!HistoryAgrees <=> P!HistoryAgrees
  BY DEF
    F!HistoryAgrees, F!UnitsOf, F!Histories, F!HistorySummary, F!LeftOut, F!Cardinality,
    F!SumOver, F!StudentRow, F!Here, F!ActiveOn, F!StudentsUnits, F!TutorsStudents,
    F!DepartmentStudents, F!UnitStudents, F!YearUnits, F!EligibilityReport, F!Classify, F!Of,
    F!ExportedSheet, F!Attended, F!Once, F!Mark, F!Newest, F!Opened, F!Held, F!Standing,
    F!Meetings, F!Over, F!Limited, P!HistoryAgrees, P!UnitsOf, P!Histories, P!HistorySummary,
    P!LeftOut, P!Cardinality, P!SumOver, P!StudentRow, P!Here, P!ActiveOn, P!StudentsUnits,
    P!TutorsStudents, P!DepartmentStudents, P!UnitStudents, P!YearUnits, P!EligibilityReport,
    P!Classify, P!Of, P!ExportedSheet, P!Attended, P!Once, P!Mark, P!Newest, P!Opened, P!Held,
    P!Standing, P!Meetings, P!Over, P!Limited
<1>5. F!LogAgreesToHalfAMinute <=> P!LogAgreesToHalfAMinute
  BY DEF
    F!LogAgreesToHalfAMinute, F!Meetings, F!Measurable, F!OnTimeInRate, F!OnTimeInLog, F!Late,
    F!LateMinutesShown, F!LateMinutes, F!Unscheduled, F!Nearest, P!LogAgreesToHalfAMinute,
    P!Meetings, P!Measurable, P!OnTimeInRate, P!OnTimeInLog, P!Late, P!LateMinutesShown,
    P!LateMinutes, P!Unscheduled, P!Nearest
<1>6. F!RowsAddUp <=> P!RowsAddUp
  BY DEF
    F!RowsAddUp, F!University, F!Cardinality, F!Meetings, F!OwningDepartments, F!Overview,
    F!ManagementRow, F!SumOver, F!UnitRow, F!YearRow, F!WithoutYear, F!YearUnits,
    F!DepartmentTutors, F!TutorRow, F!LecturerDetails, F!Limited, F!ExportedSheet, F!Here, F!Once,
    F!ActiveOn, F!SessionReport, F!SessionRate, F!Tutors, F!TutorSummary, F!Range,
    F!DepartmentMeetings, F!Of, F!Recorded, F!Newest, P!RowsAddUp, P!University, P!Cardinality,
    P!Meetings, P!OwningDepartments, P!Overview, P!ManagementRow, P!SumOver, P!UnitRow, P!YearRow,
    P!WithoutYear, P!YearUnits, P!DepartmentTutors, P!TutorRow, P!LecturerDetails, P!Limited,
    P!ExportedSheet, P!Here, P!Once, P!ActiveOn, P!SessionReport, P!SessionRate, P!Tutors,
    P!TutorSummary, P!Range, P!DepartmentMeetings, P!Of, P!Recorded, P!Newest
<1>7. F!OpenClassIsNoAbsenceStep <=> P!OpenClassIsNoAbsenceStep
  BY DEF
    F!OpenClassIsNoAbsenceStep, F!ActiveOn, F!Severity, F!Classify, F!StudentRow, F!Done, F!Here,
    F!Cardinality, F!Held, F!Attended, F!Of, F!Over, F!Meetings, P!OpenClassIsNoAbsenceStep,
    P!ActiveOn, P!Severity, P!Classify, P!StudentRow, P!Done, P!Here, P!Cardinality, P!Held,
    P!Attended, P!Of, P!Over, P!Meetings
<1> QED BY <1>1, <1>2, <1>3, <1>4, <1>5, <1>6, <1>7

-----------------------------------------------------------------------------
(* Each component runs by itself.                                           *)

LEMMA EvaluationsRun ==
  /\ CampusInit /\ part = "evaluations" => E!EvalInit
  /\ [CampusNext]_campusVars /\ part' = "evaluations" => part = "evaluations"
  /\ [CampusNext]_campusVars /\ part = "evaluations" => part' = "evaluations" /\ [E!EvalNext]_(E!evalVars)
<1>1. CampusInit /\ part = "evaluations" => E!EvalInit
  BY DEF CampusInit
<1>2. ASSUME [CampusNext]_campusVars PROVE part' = part /\ (part = "evaluations" => [E!EvalNext]_(E!evalVars))
  BY <1>2 DEF CampusNext, QualityStep, AccountsStep, EvaluationsStep, TeachingStep, InvigilationStep,
    RecognitionStep, ExamRoomsStep, RostersStep, DepartmentsStep, FiguresStep, Others, campusVars, instantiated, E!evalVars
<1> QED BY <1>1, <1>2

EvaluationsKept == part = "evaluations" => O!EvaluationsInv

LEMMA EvaluationsKeep ==
  /\ CampusInit => EvaluationsKept
  /\ EvaluationsKept /\ [CampusNext]_campusVars => EvaluationsKept'
<1>1. O!EvaluationsAssumption
  BY CampusAssumption, EvaluationsSame DEF CampusAssumption
<1>2. O!EvalInit => O!EvaluationsInv
  BY <1>1, OfficeConstants, O!EvaluationsInductive
<1>3. O!EvaluationsInv /\ [O!EvalNext]_(O!evalVars) => O!EvaluationsInv'
  BY <1>1, OfficeConstants, O!EvaluationsInductive
<1> QED BY <1>2, <1>3, EvaluationsRun, EvaluationsSame DEF EvaluationsKept

(* Every response answers the questions its round has, and there is one per *)
(* submission, however updates, deletions and submissions overlap           *)
(* (evaluation.repository.ts updateRound, submit).                          *)
THEOREM AnswersFit == CampusSpec => []AnswersFitQuestions
<1>1. O!EvaluationsAssumption
  BY CampusAssumption, EvaluationsSame DEF CampusAssumption
<1>2. O!EvaluationsInv => O!AnswersFitQuestions
  BY <1>1, OfficeConstants, O!EvaluationsInductive
<1>3. EvaluationsKept => AnswersFitQuestions
  BY <1>2, EvaluationsSame DEF EvaluationsKept, AnswersFitQuestions
<1> QED BY <1>3, EvaluationsKeep, PTL DEF CampusSpec

(* Ratings and comments are given only out of a group of responses as large *)
(* as the round asks when they are given: of a unit under a lecturer, or of *)
(* the whole scope (evaluation.service.ts getResults).                      *)
THEOREM ShownFromMinimum == CampusSpec => []ShownOnlyFromMinimum
<1>1. O!EvaluationsAssumption
  BY CampusAssumption, EvaluationsSame DEF CampusAssumption
<1>2. O!EvaluationsInv => O!ShownOnlyFromMinimum
  BY <1>1, OfficeConstants, O!EvaluationsInductive
<1>3. EvaluationsKept => ShownOnlyFromMinimum
  BY <1>2, EvaluationsSame DEF EvaluationsKept, ShownOnlyFromMinimum
<1> QED BY <1>3, EvaluationsKeep, PTL DEF CampusSpec

LEMMA InvigilationRun ==
  /\ CampusInit /\ part = "invigilation" => I!InvigilationInit
  /\ [CampusNext]_campusVars /\ part' = "invigilation" => part = "invigilation"
  /\ [CampusNext]_campusVars /\ part = "invigilation" => part' = "invigilation" /\ [I!InvigilationNext]_(I!invigilationVars)
<1>1. CampusInit /\ part = "invigilation" => I!InvigilationInit
  BY DEF CampusInit
<1>2. ASSUME [CampusNext]_campusVars PROVE part' = part /\ (part = "invigilation" => [I!InvigilationNext]_(I!invigilationVars))
  BY <1>2 DEF CampusNext, QualityStep, AccountsStep, EvaluationsStep, TeachingStep, InvigilationStep,
    RecognitionStep, ExamRoomsStep, RostersStep, DepartmentsStep, FiguresStep, Others, campusVars, instantiated, I!invigilationVars
<1> QED BY <1>1, <1>2

InvigilationKept == part = "invigilation" => O!InvigilationInv

LEMMA InvigilationKeep ==
  /\ CampusInit => InvigilationKept
  /\ InvigilationKept /\ [CampusNext]_campusVars => InvigilationKept'
<1>1. O!InvigilationAssumption
  BY CampusAssumption, InvigilationSame DEF CampusAssumption
<1>2. O!InvigilationInit => O!InvigilationInv
  BY <1>1, OfficeConstants, O!InvigilationInductive
<1>3. O!InvigilationInv /\ [O!InvigilationNext]_(O!invigilationVars) => O!InvigilationInv'
  BY <1>1, OfficeConstants, O!InvigilationInductive
<1> QED BY <1>2, <1>3, InvigilationRun, InvigilationSame DEF InvigilationKept

(* A department names nobody twice on a paper or in two rooms of a session, *)
(* however its requests overlap (invigilation.service.ts setInvigilator).   *)
THEOREM NamedApart == CampusSpec => []NamesApart
<1>1. O!InvigilationAssumption
  BY CampusAssumption, InvigilationSame DEF CampusAssumption
<1>2. O!InvigilationInv => O!NamesApart
  BY <1>1, OfficeConstants, O!InvigilationInductive
<1>3. InvigilationKept => NamesApart
  BY <1>2, InvigilationSame DEF InvigilationKept, NamesApart
<1> QED BY <1>3, InvigilationKeep, PTL DEF CampusSpec

(* A name that is a new duty keeps within the limit, whatever is named or   *)
(* shared between the check and the write (invigilation.service.ts          *)
(* setInvigilator).                                                         *)
THEOREM NewDutyWithinLimit == CampusSpec => WithinDutyLimit
<1>1. O!InvigilationAssumption
  BY CampusAssumption, InvigilationSame DEF CampusAssumption
<1>2. O!InvigilationInv /\ [O!InvigilationNext]_(O!invigilationVars) => O!WithinDutyLimitStep
  BY <1>1, OfficeConstants, O!InvigilationSteps
<1>3. InvigilationKept /\ [CampusNext]_campusVars => [part = "invigilation" => I!WithinDutyLimitStep]_campusVars
  BY <1>2, InvigilationRun, InvigilationSame DEF InvigilationKept
<1> QED BY <1>3, InvigilationKeep, PTL DEF CampusSpec, WithinDutyLimit

(* The names of a published department stay until it reopens, though one    *)
(* checked before is written later (teaching.service.ts write,              *)
(* requireOpen).                                                            *)
THEOREM PublishedNamesKept == CampusSpec => NamesStandWhilePublished
<1>1. O!InvigilationAssumption
  BY CampusAssumption, InvigilationSame DEF CampusAssumption
<1>2. O!InvigilationInv /\ [O!InvigilationNext]_(O!invigilationVars) => O!NamesStandWhilePublishedStep
  BY <1>1, OfficeConstants, O!InvigilationSteps
<1>3. InvigilationKept /\ [CampusNext]_campusVars => [part = "invigilation" => I!NamesStandWhilePublishedStep]_campusVars
  BY <1>2, InvigilationRun, InvigilationSame DEF InvigilationKept
<1> QED BY <1>3, InvigilationKeep, PTL DEF CampusSpec, NamesStandWhilePublished

LEMMA RostersRun ==
  /\ CampusInit /\ part = "rosters" => T!RostersInit
  /\ [CampusNext]_campusVars /\ part' = "rosters" => part = "rosters"
  /\ [CampusNext]_campusVars /\ part = "rosters" => part' = "rosters" /\ [T!RostersNext]_(T!rostersVars)
<1>1. CampusInit /\ part = "rosters" => T!RostersInit
  BY DEF CampusInit
<1>2. ASSUME [CampusNext]_campusVars PROVE part' = part /\ (part = "rosters" => [T!RostersNext]_(T!rostersVars))
  BY <1>2 DEF CampusNext, QualityStep, AccountsStep, EvaluationsStep, TeachingStep, InvigilationStep,
    RecognitionStep, ExamRoomsStep, RostersStep, DepartmentsStep, FiguresStep, Others, campusVars, instantiated, T!rostersVars
<1> QED BY <1>1, <1>2

RostersKept == part = "rosters" => O!RostersInv

LEMMA RostersKeep ==
  /\ CampusInit => RostersKept
  /\ RostersKept /\ [CampusNext]_campusVars => RostersKept'
<1>1. O!RostersAssumption
  BY CampusAssumption, RostersSame DEF CampusAssumption
<1>2. O!RostersInit => O!RostersInv
  BY <1>1, OfficeConstants, O!RostersInitInv, O!RostersStepInv
<1>3. O!RostersInv /\ [O!RostersNext]_(O!rostersVars) => O!RostersInv'
  BY <1>1, OfficeConstants, O!RostersInitInv, O!RostersStepInv
<1> QED BY <1>2, <1>3, RostersRun, RostersSame DEF RostersKept

(* A change SMARTTT reported has arrived when its handling ends, whoever    *)
(* else is syncing (unit.service.ts resyncAfterTimetableChange).            *)
THEOREM ReportedChangeArrived == CampusSpec => ReportedChangeArrives
<1>1. O!RostersAssumption
  BY CampusAssumption, RostersSame DEF CampusAssumption
<1>2. O!RostersInv /\ [O!RostersNext]_(O!rostersVars) => O!ReportedChangeArrivesStep
  BY <1>1, OfficeConstants, O!ReportedChangeStep
<1>3. RostersKept /\ [CampusNext]_campusVars => [part = "rosters" => T!ReportedChangeArrivesStep]_campusVars
  BY <1>2, RostersRun, RostersSame DEF RostersKept
<1> QED BY <1>3, RostersKeep, PTL DEF CampusSpec, ReportedChangeArrives

(* A student with an account is left off a roster only by a sync that       *)
(* overlaps their registration or by a linking that failed, and a later     *)
(* sync attaches them (unit.repository.ts syncRosterAllocations;            *)
(* auth.service.ts linkStudentToRosters).                                   *)
THEOREM LeftOffOnlyByOverlap == CampusSpec => UnattachedOnlyByOverlap
<1>1. O!RostersAssumption
  BY CampusAssumption, RostersSame DEF CampusAssumption
<1>2. O!RostersInv /\ [O!RostersNext]_(O!rostersVars) => O!UnattachedOnlyByOverlapStep
  BY <1>1, OfficeConstants, O!UnattachedStep
<1>3. RostersKept /\ [CampusNext]_campusVars => [part = "rosters" => T!UnattachedOnlyByOverlapStep]_campusVars
  BY <1>2, RostersRun, RostersSame DEF RostersKept
<1> QED BY <1>3, RostersKeep, PTL DEF CampusSpec, UnattachedOnlyByOverlap

LEMMA DepartmentsRun ==
  /\ CampusInit /\ part = "departments" => D!DepartmentsInit
  /\ [CampusNext]_campusVars /\ part' = "departments" => part = "departments"
  /\ [CampusNext]_campusVars /\ part = "departments" => part' = "departments" /\ [D!DepartmentsNext]_(D!departmentsVars)
<1>1. CampusInit /\ part = "departments" => D!DepartmentsInit
  BY DEF CampusInit
<1>2. ASSUME [CampusNext]_campusVars PROVE part' = part /\ (part = "departments" => [D!DepartmentsNext]_(D!departmentsVars))
  BY <1>2 DEF CampusNext, QualityStep, AccountsStep, EvaluationsStep, TeachingStep, InvigilationStep,
    RecognitionStep, ExamRoomsStep, RostersStep, DepartmentsStep, FiguresStep, Others, campusVars, instantiated, D!departmentsVars
<1> QED BY <1>1, <1>2

DepartmentsKept == part = "departments" => O!DepartmentsInv

LEMMA DepartmentsKeep ==
  /\ CampusInit => DepartmentsKept
  /\ DepartmentsKept /\ [CampusNext]_campusVars => DepartmentsKept'
<1>1. O!DepartmentsAssumption
  BY CampusAssumption, DepartmentsSame DEF CampusAssumption
<1>2. O!DepartmentsInit => O!DepartmentsInv
  BY <1>1, OfficeConstants, O!DepartmentsInitInv, O!DepartmentsInductive
<1>3. O!DepartmentsInv /\ [O!DepartmentsNext]_(O!departmentsVars) => O!DepartmentsInv'
  BY <1>1, OfficeConstants, O!DepartmentsInitInv, O!DepartmentsInductive
<1> QED BY <1>2, <1>3, DepartmentsRun, DepartmentsSame DEF DepartmentsKept

(* A lecturer who has a department leaves it only when they are moved or it *)
(* is merged away, whatever is read before the write and however many sign  *)
(* in (lecturer.placement.ts moveLecturer).                                 *)
THEOREM PlacedUntilMoved == CampusSpec => PlacementStands
<1>1. O!DepartmentsAssumption
  BY CampusAssumption, DepartmentsSame DEF CampusAssumption
<1>2. O!DepartmentsInv /\ [O!DepartmentsNext]_(O!departmentsVars) => O!PlacementStandsStep
  BY <1>1, OfficeConstants, O!DepartmentsInductive
<1>3. DepartmentsKept /\ [CampusNext]_campusVars => [part = "departments" => D!PlacementStandsStep]_campusVars
  BY <1>2, DepartmentsRun, DepartmentsSame DEF DepartmentsKept
<1> QED BY <1>3, DepartmentsKeep, PTL DEF CampusSpec, PlacementStands

(* A spelling of a department that is merged away means the one it was      *)
(* merged into, unless another has that very name (admin.service.ts         *)
(* mergeDepartment).                                                        *)
THEOREM SpellingsFollowMerges == CampusSpec => MergedSpellingsFollow
<1>1. O!DepartmentsAssumption
  BY CampusAssumption, DepartmentsSame DEF CampusAssumption
<1>2. O!DepartmentsInv /\ [O!DepartmentsNext]_(O!departmentsVars) => O!MergedSpellingsFollowStep
  BY <1>1, OfficeConstants, O!MergedSpellingsStep
<1>3. DepartmentsKept /\ [CampusNext]_campusVars => [part = "departments" => D!MergedSpellingsFollowStep]_campusVars
  BY <1>2, DepartmentsRun, DepartmentsSame DEF DepartmentsKept
<1> QED BY <1>3, DepartmentsKeep, PTL DEF CampusSpec, MergedSpellingsFollow

LEMMA TeachingRun ==
  /\ CampusInit /\ part = "teaching lists" => L!TeachingInit
  /\ [CampusNext]_campusVars /\ part' = "teaching lists" => part = "teaching lists"
  /\ [CampusNext]_campusVars /\ part = "teaching lists" => part' = "teaching lists" /\ [L!TeachingNext]_(L!teachingVars)
<1>1. CampusInit /\ part = "teaching lists" => L!TeachingInit
  BY DEF CampusInit
<1>2. ASSUME [CampusNext]_campusVars PROVE part' = part /\ (part = "teaching lists" => [L!TeachingNext]_(L!teachingVars))
  BY <1>2 DEF CampusNext, QualityStep, AccountsStep, EvaluationsStep, TeachingStep, InvigilationStep,
    RecognitionStep, ExamRoomsStep, RostersStep, DepartmentsStep, FiguresStep, Others, campusVars, instantiated, L!teachingVars
<1> QED BY <1>1, <1>2

TeachingKept == part = "teaching lists" => O!TeachingInv

LEMMA TeachingKeep ==
  /\ CampusInit => TeachingKept
  /\ TeachingKept /\ [CampusNext]_campusVars => TeachingKept'
<1>1. O!TeachingAssumption
  BY CampusAssumption, TeachingSame DEF CampusAssumption
<1>2. O!TeachingInit => O!TeachingInv
  BY <1>1, OfficeConstants, O!TeachingInitInv, O!TeachingStepInv
<1>3. O!TeachingInv /\ [O!TeachingNext]_(O!teachingVars) => O!TeachingInv'
  BY <1>1, OfficeConstants, O!TeachingInitInv, O!TeachingStepInv
<1> QED BY <1>2, <1>3, TeachingRun, TeachingSame DEF TeachingKept

(* A list that stands published has nothing to put right, whatever the      *)
(* other departments write under their own locks (teaching.service.ts       *)
(* writeTeaching, publish).                                                 *)
THEOREM PublishedComplete == CampusSpec => []PublishedListComplete
<1>1. O!TeachingAssumption
  BY CampusAssumption, TeachingSame DEF CampusAssumption
<1>2. O!TeachingInv => O!PublishedListComplete
  BY <1>1, OfficeConstants, O!CompleteAnywhere
<1>3. TeachingKept => PublishedListComplete
  BY <1>2, TeachingSame DEF TeachingKept, PublishedListComplete
<1> QED BY <1>3, TeachingKeep, PTL DEF CampusSpec

(* The Director's import, whose reads are six tables apart, gives a         *)
(* department's units as they stand published, unless it published or       *)
(* reopened since the first of them (teaching.service.ts submissions,       *)
(* submittedUnit).                                                          *)
THEOREM ImportMatches == CampusSpec => []ImportMatchesUnlessRepublished
<1>1. O!TeachingAssumption
  BY CampusAssumption, TeachingSame DEF CampusAssumption
<1>2. O!TeachingInv => O!ImportMatchesUnlessRepublished
  BY <1>1, OfficeConstants, O!ImportAnywhere
<1>3. TeachingKept => ImportMatchesUnlessRepublished
  BY <1>2, TeachingSame DEF TeachingKept, ImportMatchesUnlessRepublished
<1> QED BY <1>3, TeachingKeep, PTL DEF CampusSpec

LEMMA RecognitionRun ==
  /\ CampusInit /\ part = "recognition" => R!RecognitionInit
  /\ [CampusNext]_campusVars /\ part' = "recognition" => part = "recognition"
  /\ [CampusNext]_campusVars /\ part = "recognition" => part' = "recognition" /\ [R!RecognitionNext]_(R!recognitionVars)
<1>1. CampusInit /\ part = "recognition" => R!RecognitionInit
  BY DEF CampusInit
<1>2. ASSUME [CampusNext]_campusVars PROVE part' = part /\ (part = "recognition" => [R!RecognitionNext]_(R!recognitionVars))
  BY <1>2 DEF CampusNext, QualityStep, AccountsStep, EvaluationsStep, TeachingStep, InvigilationStep,
    RecognitionStep, ExamRoomsStep, RostersStep, DepartmentsStep, FiguresStep, Others, campusVars, instantiated, R!recognitionVars
<1> QED BY <1>1, <1>2

RecognitionKept == part = "recognition" => P!RecognitionInv

LEMMA RecognitionKeep ==
  /\ CampusInit => RecognitionKept
  /\ RecognitionKept /\ [CampusNext]_campusVars => RecognitionKept'
<1>1. P!RecognitionAssumption
  BY CampusAssumption, RecognitionSame DEF CampusAssumption
<1>2. P!RecognitionInit => P!RecognitionInv
  BY <1>1, PeopleConstants, P!RecognitionInductive
<1>3. P!RecognitionInv /\ [P!RecognitionNext]_(P!recognitionVars) => P!RecognitionInv'
  BY <1>1, PeopleConstants, P!RecognitionInductive
<1> QED BY <1>2, <1>3, RecognitionRun, RecognitionSame DEF RecognitionKept

(* Nobody is recorded by face in a class without a match made in that very  *)
(* class (verification.service.ts, checkin.service.ts).                     *)
THEOREM FaceRecordedWhereMatched == CampusSpec => []RecordedWhereMatched
<1>1. P!RecognitionAssumption
  BY CampusAssumption, RecognitionSame DEF CampusAssumption
<1>2. P!RecognitionInv => P!RecordedWhereMatched
  BY <1>1, PeopleConstants, P!RecognitionInductive
<1>3. RecognitionKept => RecordedWhereMatched
  BY <1>2, RecognitionSame DEF RecognitionKept, RecordedWhereMatched
<1> QED BY <1>3, RecognitionKeep, PTL DEF CampusSpec

(* One face gets a second name only through two enrolments that overlap     *)
(* (verification.service.ts enrollFace).                                    *)
THEOREM SecondNameNeedsOverlap == CampusSpec => SecondNameOnlyByOverlap
<1>1. P!RecognitionAssumption
  BY CampusAssumption, RecognitionSame DEF CampusAssumption
<1>2. P!RecognitionInv /\ [P!RecognitionNext]_(P!recognitionVars) => P!SecondNameOnlyByOverlapStep
  BY <1>1, PeopleConstants, P!RecognitionSteps
<1>3. RecognitionKept /\ [CampusNext]_campusVars => [part = "recognition" => R!SecondNameOnlyByOverlapStep]_campusVars
  BY <1>2, RecognitionRun, RecognitionSame DEF RecognitionKept
<1> QED BY <1>3, RecognitionKeep, PTL DEF CampusSpec, SecondNameOnlyByOverlap

LEMMA ExamRoomsRun ==
  /\ CampusInit /\ part = "exam rooms" => X!ExamRoomsInit
  /\ [CampusNext]_campusVars /\ part' = "exam rooms" => part = "exam rooms"
  /\ [CampusNext]_campusVars /\ part = "exam rooms" => part' = "exam rooms" /\ [X!ExamRoomsNext]_(X!examRoomsVars)
<1>1. CampusInit /\ part = "exam rooms" => X!ExamRoomsInit
  BY DEF CampusInit
<1>2. ASSUME [CampusNext]_campusVars PROVE part' = part /\ (part = "exam rooms" => [X!ExamRoomsNext]_(X!examRoomsVars))
  BY <1>2 DEF CampusNext, QualityStep, AccountsStep, EvaluationsStep, TeachingStep, InvigilationStep,
    RecognitionStep, ExamRoomsStep, RostersStep, DepartmentsStep, FiguresStep, Others, campusVars, instantiated, X!examRoomsVars
<1> QED BY <1>1, <1>2

ExamRoomsKept == part = "exam rooms" => P!ExamRoomsInv

LEMMA ExamRoomsKeep ==
  /\ CampusInit => ExamRoomsKept
  /\ ExamRoomsKept /\ [CampusNext]_campusVars => ExamRoomsKept'
<1>1. P!ExamRoomsAssumption
  BY CampusAssumption, ExamRoomsSame DEF CampusAssumption
<1>2. P!ExamRoomsInit => P!ExamRoomsInv
  BY <1>1, PeopleConstants, P!ExamRoomsInductive
<1>3. P!ExamRoomsInv /\ [P!ExamRoomsNext]_(P!examRoomsVars) => P!ExamRoomsInv'
  BY <1>1, PeopleConstants, P!ExamRoomsInductive
<1> QED BY <1>2, <1>3, ExamRoomsRun, ExamRoomsSame DEF ExamRoomsKept

(* Who is recorded in an exam room was seated there by a version of the     *)
(* plan, however pushes overlap, and is reported in no second room unless   *)
(* the last push committed had overlapped another (exam.service.ts checkIn, *)
(* report; exam.repository.ts replaceTermSessions).                         *)
THEOREM SeatedWhereRecorded == CampusSpec => []SatWhereSeated
<1>1. P!ExamRoomsAssumption
  BY CampusAssumption, ExamRoomsSame DEF CampusAssumption
<1>2. P!ExamRoomsInv => P!SatWhereSeated
  BY <1>1, PeopleConstants, P!ExamRoomsInductive
<1>3. ExamRoomsKept => SatWhereSeated
  BY <1>2, ExamRoomsSame DEF ExamRoomsKept, SatWhereSeated
<1> QED BY <1>3, ExamRoomsKeep, PTL DEF CampusSpec

LEMMA FiguresRun ==
  /\ CampusInit /\ part = "figures" => F!FiguresInit
  /\ [CampusNext]_campusVars /\ part' = "figures" => part = "figures"
  /\ [CampusNext]_campusVars /\ part = "figures" => part' = "figures" /\ [F!FiguresNext]_(F!figuresVars)
<1>1. CampusInit /\ part = "figures" => F!FiguresInit
  BY DEF CampusInit
<1>2. ASSUME [CampusNext]_campusVars PROVE part' = part /\ (part = "figures" => [F!FiguresNext]_(F!figuresVars))
  BY <1>2 DEF CampusNext, QualityStep, AccountsStep, EvaluationsStep, TeachingStep, InvigilationStep,
    RecognitionStep, ExamRoomsStep, RostersStep, DepartmentsStep, FiguresStep, Others, campusVars, instantiated, F!figuresVars
<1> QED BY <1>1, <1>2

FiguresKept == part = "figures" => P!FiguresInv

LEMMA FiguresKeep ==
  /\ CampusInit => FiguresKept
  /\ FiguresKept /\ [CampusNext]_campusVars => FiguresKept'
<1>1. P!FiguresAssumption
  BY CampusAssumption, FiguresSame DEF CampusAssumption
<1>2. P!FiguresInit => P!FiguresInv
  BY <1>1, PeopleConstants, P!FiguresInitInv, P!FiguresStepInv
<1>3. P!FiguresInv /\ [P!FiguresNext]_(P!figuresVars) => P!FiguresInv'
  BY <1>1, PeopleConstants, P!FiguresInitInv, P!FiguresStepInv
<1> QED BY <1>2, <1>3, FiguresRun, FiguresSame DEF FiguresKept

(* What a student's own history adds up to, with the older classes a full   *)
(* page leaves out, is what lecturers, departments and quality assurance    *)
(* count of it (student.repository.ts findAttendanceHistory).               *)
THEOREM HistoryAgreed == CampusSpec => []HistoryAgrees
<1>1. P!FiguresAssumption
  BY CampusAssumption, FiguresSame DEF CampusAssumption
<1>2. P!FiguresInv => P!HistoryAgrees
  BY <1>1, PeopleConstants, P!HistoryAgreesAnywhere
<1>3. FiguresKept => HistoryAgrees
  BY <1>2, FiguresSame DEF FiguresKept, HistoryAgrees
<1> QED BY <1>3, FiguresKeep, PTL DEF CampusSpec

(* The timekeeping log and the on-time rate differ by the rounding of the   *)
(* minutes only, and never by half a minute.                                *)
THEOREM LogAgreed == CampusSpec => []LogAgreesToHalfAMinute
<1>1. P!FiguresAssumption
  BY CampusAssumption, FiguresSame DEF CampusAssumption
<1>2. P!FiguresInv => P!LogAgreesToHalfAMinute
  BY <1>1, PeopleConstants, P!LogAgreesAnywhere
<1>3. FiguresKept => LogAgreesToHalfAMinute
  BY <1>2, FiguresSame DEF FiguresKept, LogAgreesToHalfAMinute
<1> QED BY <1>3, FiguresKeep, PTL DEF CampusSpec

(* Every total is the sum of its rows, whatever a page of classes leaves    *)
(* out for its limit, and an exported sheet differs from                    *)
(* the report only by roster changes and records made twice                 *)
(* (department.repository.ts, "so the rows add up").                        *)
THEOREM RowsAddedUp == CampusSpec => []RowsAddUp
<1>1. P!FiguresAssumption
  BY CampusAssumption, FiguresSame DEF CampusAssumption
<1>2. P!FiguresInv => P!RowsAddUp
  BY <1>1, PeopleConstants, P!RowsAddUpAnywhere
<1>3. FiguresKept => RowsAddUp
  BY <1>2, FiguresSame DEF FiguresKept, RowsAddUp
<1> QED BY <1>3, FiguresKeep, PTL DEF CampusSpec

(* A class still open is counted an absence for nobody, whatever it does to *)
(* the percentages.                                                         *)
THEOREM OpenClassNoAbsence == CampusSpec => OpenClassIsNoAbsence
<1>1. P!FiguresAssumption
  BY CampusAssumption, FiguresSame DEF CampusAssumption
<1>2. P!FiguresInv /\ P!FiguresInv' /\ [P!FiguresNext]_(P!figuresVars) => P!OpenClassIsNoAbsenceStep
  BY <1>1, PeopleConstants, P!VerdictStep
<1>3. FiguresKept /\ FiguresKept' /\ [CampusNext]_campusVars => [part = "figures" => F!OpenClassIsNoAbsenceStep]_campusVars
  BY <1>2, FiguresRun, FiguresSame DEF FiguresKept
<1> QED BY <1>3, FiguresKeep, PTL DEF CampusSpec, OpenClassIsNoAbsence

=============================================================================
