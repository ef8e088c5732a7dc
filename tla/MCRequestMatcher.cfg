SPECIFICATION MatcherSpec
CONSTANTS
  Requests <- MCRequests
  MaxRecorded = 4
  MaxPeak = 2
  Lookahead = 1
  MinorLimit = 3
  AskLimit = 1
  MessageWeight = 5
  RungWeight = 10000
  DistanceWeight = 10
INVARIANT
  AnsweredOrOwed
PROPERTIES
  ExactOutranksApproximate
  OwnAnswerPreferred
CHECK_DEADLOCK FALSE
