SPECIFICATION Spec
CONSTANTS
  d1 = d1
  d2 = d2
  r1 = r1
  r2 = r2
  Device <- TwoDevices
  Key = {k1}
  NoRow = NoRow
  MaxRows = 2
  Request <- TwoRequests
  Name = {root, ann}
  Bootstrap = root
  NoUser = NoUser
  NoSession = NoSession
  MaxUser = 3
  MaxSession = 3
SYMMETRY Symmetric
INVARIANTS
  SessionsOwned
  RowsDistinct
PROPERTIES
  UsersByAdmins
  EditsByPrivileged
  OnlyPurgedRowsVanish
CHECK_DEADLOCK FALSE
