SPECIFICATION Spec
CONSTANTS
  s1 = s1  s2 = s2  nobody = nobody
  Students <- TwoStudents
  NoStudent = nobody
  Kinds <- BoxOnly
  Faults <- WorkingReader
  Capacity = 1
  MaxCommands = 3
INVARIANTS FingerCountsForItsOwner NoOrphanTemplate
PROPERTIES SettledIsFinal RemovalsHappen
CHECK_DEADLOCK FALSE
