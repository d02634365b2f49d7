SPECIFICATION Spec
CONSTANTS
  c1 = c1
  c2 = c2
  c3 = c3
  d1 = d1
  d2 = d2
  Conn = {c1, c2, c3}
  Device = {d1}
  NoDev = NoDev
  Sanitize <- PlainNames
  Ext <- BothFiles
  MaxBytes = 3
  LineLen = {2}
  IoFaults = {FALSE, TRUE}
  MaxLines = 3
  MaxDay = 2
  NoSession = NoSession
  NoFile = NoFile
SYMMETRY Symmetric
INVARIANTS NoLeak RightFolder SizeKnown
CHECK_DEADLOCK FALSE
