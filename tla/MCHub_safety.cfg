SPECIFICATION Spec
CONSTANTS
  c1 = c1
  c2 = c2
  c3 = c3
  Client <- ThreeClients
  Buffer = 1
  MaxMsg = 2
  None = None
SYMMETRY Symmetric
INVARIANTS CommonOrder NoEcho EveryoneAddressed ReplyExact NoPanic
CHECK_DEADLOCK FALSE
