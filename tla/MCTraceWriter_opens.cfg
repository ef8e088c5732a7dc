SPECIFICATION WriterSpec
CONSTANTS
  blobA = blobA
  Contents <- MCContents
  NoSpill = inline
  Events <- MCEvents
  MaxCalls = 2
INVARIANT
  RunOpens
CHECK_DEADLOCK FALSE
