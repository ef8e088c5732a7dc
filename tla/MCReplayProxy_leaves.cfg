SPECIFICATION FairProxySpec
CONSTANTS
  c1 = c1
  c2 = c2
  c3 = c3
  Conns = {c1}
  ClientsMayLeave = TRUE
  Requests <- MCPair
  MaxRecorded = 1
  MaxPeak = 3
  Lookahead = 1
  MinorLimit = 3
  AskLimit = 1
  MessageWeight = 5
  RungWeight = 10000
  DistanceWeight = 10
PROPERTY
  AbandonedCallsGetRecorded
CHECK_DEADLOCK FALSE
