SPECIFICATION FairWriterSpec
CONSTANTS
  blobA = blobA
  Contents <- MCContents
  NoSpill = inline
  Events <- MCEvents
  MaxCalls = 3
INVARIANTS
  BlobsPrecedeLines
  SealDescribesLog
PROPERTIES
  NothingWedges
  ImplementsTraceLog
CHECK_DEADLOCK FALSE
