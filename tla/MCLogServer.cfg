SPECIFICATION LogSpec
CONSTANTS
  Browser = {b1, b2}
  NoOne = NoOne
  Empty = Empty
  ChanSize = 1
  MaxLogs = 2
  MaxMsg = 3
INVARIANTS
  NothingMissed
  ZombiesSwept
PROPERTY
  LeavesUnlessStalled
CHECK_DEADLOCK FALSE
