SPECIFICATION Spec
CONSTANTS
  s1 = s1  c1 = c1  c2 = c2  e1 = e1  e2 = e2
  hall = hall  away = away  nowhere = nowhere
  Students <- OneStudent
  Scans <- OneScan
  Edits <- TwoEdits
  Places <- HallAndAway
  NoPlace = nowhere
  RoomPoint = nowhere
  Methods <- QrOnly
  Meetings <- OneMeeting
  MaxTime = 1
PROPERTIES ClosedIsFinal
