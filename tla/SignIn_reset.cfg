SPECIFICATION Spec
CONSTANTS
  b1 = b1  b2 = b2  x1 = x1  x2 = x2
  Role = "DEPARTMENT"
  Browsers <- OneBrowser
  Calls <- TwoCalls
  Requests <- JustForgot
  MaxFailures = 2
  MaxPasswords = 2
  MaxSessions = 1
  MaxRefreshes = 1
  MaxLinks = 2
  MaxTerms = 1
INVARIANTS SignedOutEverywhere
CHECK_DEADLOCK FALSE
