SPECIFICATION ReplayRunSpec
CONSTANTS
  x1 = x1
  x2 = x2
  Exchanges = {x1, x2}
  PerTask = 2
  MaxFaults = 2
  a = a
  b = b
  Texts <- MCTexts
  Requests <- MCRequests
  MaxCalls = 1
  Calls <- MCCalls
  NoCall <- MCNoCall
  MaxId = 2
  ServerId = 1
  MaxFrames = 4
  p1 = p1
  p2 = p2
  Shims = {p1, p2}
  MaxAsks = 3
INVARIANT
  AnswersTheQuestion
CHECK_DEADLOCK FALSE
