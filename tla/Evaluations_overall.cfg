SPECIFICATION EvalSpec
CONSTANTS
  s1 = s1  s2 = s2  u1 = u1  u2 = u2  l1 = l1  d1 = d1  c1 = c1
  Respondents <- TwoStudents
  Taught <- TwoUnits
  Owners <- OneOwner
  Scopes <- OneScope
  EvalRequests <- OneRequest
  Windows <- OneWindow
  Minimums = {2}
  MaxEditions = 1
  MaxEvalTime = 1
  MaxResponses = 3
INVARIANTS HiddenNotReadOff
CHECK_DEADLOCK FALSE
