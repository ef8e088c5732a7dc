SPECIFICATION InterceptSpec
CONSTANTS
  one = one
  two = two
  None = None
  s1 = s1
  s2 = s2
  Calls = {one, two}
  Starts <- TwoStreams
  Chunks = 1
  Limit = 1
  Sessions = {s1, s2}
  Goings = 2
CHECK_DEADLOCK FALSE
INVARIANT ClosesAll
