SPECIFICATION ReplayRunSpec
CONSTANTS
  x1 = x1
  x2 = x2
  Exchanges = {x1, x2}
  PerTask = 2
  MaxFaults = 2
  a = a
  b = b
  Texts <- MCTexts
  Requests <- MCRequests
  MaxCalls = 2
  Calls <- MCCalls
  NoCall <- MCNoCall
  MaxId = 2
  ServerId = 9
  MaxFrames = 4
  p1 = p1
  p2 = p2
  Shims = {p1, p2}
  MaxAsks = 3
INVARIANTS
  RecordedInFull
  LeavesNothingBehind
  RecordedAnswersOnly
  AnswersTheQuestion
PROPERTY
  EveryCommandEnds
CHECK_DEADLOCK FALSE
