SPECIFICATION FairSpec
CONSTANTS
  split = split
  filt = filt
  dev = dev
  Nodes = {split, filt, dev}
  Main = main
  Source = split
  Targets <- MCTargets
  Policies <- MCPolicies
  Limit = 1
  MaxFeed = 2
INVARIANTS
  TypeOK
  EdgeFifo
  WaitLosesNothing
PROPERTIES
  EverythingArrives
  DropShutdown
  OrderedShutdown
CHECK_DEADLOCK FALSE
