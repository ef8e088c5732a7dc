SPECIFICATION FairProxySpec
CONSTANTS
  c1 = c1
  c2 = c2
  c3 = c3
  Conns = {c1, c2}
  ClientsMayLeave = TRUE
  Requests <- MCClose
  MaxRecorded = 2
  MaxPeak = 2
  Lookahead = 1
  MinorLimit = 3
  AskLimit = 1
  MessageWeight = 5
  RungWeight = 10000
  DistanceWeight = 10
INVARIANTS
  StatsTellFates
  RecordedOnce
PROPERTIES
  LiveCallsGetRecorded
  DrivesMatcher
CHECK_DEADLOCK FALSE
