SPECIFICATION LogSpec
CONSTANTS
  Browser = {b1, b2}
  NoOne = NoOne
  Empty = Empty
  ChanSize = 1
  MaxLogs = 2
  MaxMsg = 3
INVARIANT OneWriter
CHECK_DEADLOCK FALSE
