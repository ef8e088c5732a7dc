SPECIFICATION DiskSpec
CONSTANTS
  plain = plain
  named = named
  welded = welded
  dirtyA = dirtyA
  dirtyB = dirtyB
  clean = clean
  picture = picture
  None = None
  Runs = {1, 2, 3}
  Contents <- MCContents
  Scrubbed <- MCScrubbed
  Fragile = {welded}
  Binary = {picture}
  Histories <- MCHistories
  Recordable <- MCRecordable
  MaxLines = 1
  MaxKills = 1
  Overlap = FALSE
  Payloads <- MCPayloads
  Absent = Absent
  Order <- MCOrder
  Referred <- MCReferred
  Counter = 7
INVARIANT
  LinesStayParseable
CHECK_DEADLOCK FALSE
