SPECIFICATION FairSpec
CONSTANTS
  p1 = p1
  p2 = p2
  Producers = {p1, p2}
  Main = main
  Self = self
  Limit = 1
  MaxMsgs <- MCMaxMsgs
  Pol <- MCPol
INVARIANTS
  TypeOK
  QueueBounded
  NoLostWakeup
  WakeupInv
PROPERTIES
  InboxSpec
  StopReturns
  BlockedSenderReturns
CHECK_DEADLOCK FALSE
