SPECIFICATION Spec
CONSTANTS
  s1 = s1  s2 = s2  nobody = nobody
  Students <- TwoStudents
  NoStudent = nobody
  Kinds <- BoxOnly
  Faults <- MessagesLost
  Capacity = 2
  MaxCommands = 3
PROPERTIES RemovalErasesOnlyItsOwn
CHECK_DEADLOCK FALSE
