SPECIFICATION FairInterceptSpec
CONSTANTS
  one = one
  two = two
  None = None
  s1 = s1
  s2 = s2
  Calls = {one, two}
  Starts <- AllStarts
  Chunks = 2
  Limit = 1
  Sessions = {s1, s2}
  Goings = 2
INVARIANTS
  EventsAreTrue
  StaysOffline
PROPERTY
  NotLeftHanging
CHECK_DEADLOCK FALSE
