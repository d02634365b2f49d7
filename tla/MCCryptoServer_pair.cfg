SPECIFICATION Spec
CONSTANTS
  c1 = c1
  c2 = c2
  d1 = d1
  d2 = d2
  k1 = k1
  k2 = k2
  k3 = k3
  Conn <- TwoConns
  Device <- TwoDevices
  Key <- ThreeKeys
  BadKey = {k3}
  NoRow = NoRow
  NoDev = NoDev
  NoKey = NoKey
  Garbage = Garbage
  MaxRows = 1
  MaxMsg = 1
  MaxOut = 4
  MaxWeb = 2
SYMMETRY Symmetric
INVARIANTS Authentic Attributed HandshakeFirst
PROPERTIES IdentityFixed
CHECK_DEADLOCK FALSE
