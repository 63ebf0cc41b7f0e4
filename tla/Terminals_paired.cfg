SPECIFICATION TerminalSpec
CONSTANTS
  d1 = d1  d2 = d2  own = own  foreign = foreign  none = none  o1 = o1  x1 = x1  x2 = x2
  Devices <- TwoDevices
  Classes <- BothClasses
  OwnClasses <- OwnOnly
  NoClass = none
  Officers <- OneOfficer
  Calls <- OneCall
  MaxCodes = 2
INVARIANTS OneDevicePaired RecordsForOwnClasses
PROPERTIES FinishedClassDropped
CHECK_DEADLOCK FALSE
