SPECIFICATION Spec
CONSTANTS
  b1 = b1
  b2 = b2
  d1 = d1
  d2 = d2
  Browser <- TwoBrowsers
  Device <- TwoDevices
  ChanSize = 1
  Depth = 2
  MaxEntry <- EntriesOf
  Nil = Nil
  NoDev = NoDev
INVARIANTS OneWriter ShownInOrder StreamComplete
PROPERTIES DisconnectedLeave
CHECK_DEADLOCK FALSE
