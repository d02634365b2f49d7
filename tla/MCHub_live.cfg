SPECIFICATION Spec
CONSTANTS
  c1 = c1
  c2 = c2
  c3 = c3
  Client <- TwoClients
  Buffer = 1
  MaxMsg = 2
  None = None
PROPERTIES BroadcastReturns SubscribeReturns DeadConnectionsLeave StopClosesAll
           ImplementsPubSub
CHECK_DEADLOCK FALSE
