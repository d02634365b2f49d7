SPECIFICATION Spec
CONSTANTS
  Conn = {c1, c2}
  Request = {r1}
INVARIANTS
  OrderlyTeardown
  AtMostOneLate

  
CHECK_DEADLOCK FALSE
