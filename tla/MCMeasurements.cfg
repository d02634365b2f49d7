SPECIFICATION Spec
CONSTANTS
  c1 = c1
  c2 = c2
  d1 = d1
  d2 = d2
  Conn <- TwoConnections
  QueueSize = 1
  BatchSize = 2
  RetentionDays = 1
  MaxMsg <- ThreeMeasurements
  MaxDay = 2
  NoDay = NoDay
  Device = {d1, d2}
  DeviceOf <- SameDevice
  Slot = {1, 2}
  Validity <- MixedValidity
  NotFinite <- OneInfinite
  chartsMaxPoints = 2
  chartsMaxHours = 2
INVARIANTS Accounted StoredInOrder ChartFaithful
PROPERTIES QuietAfterClose CloseReturns Flushed
CHECK_DEADLOCK FALSE
