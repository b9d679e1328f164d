SPECIFICATION FairSpec
CONSTANTS
  Kinds = {"serial", "udp"}
  Limit = 1
  MaxReads = 3
  MaxPokes = 2
INVARIANTS
  TypeOK
  NothingStranded
  BlocksContiguous
PROPERTIES
  BlocksSentOn
  StopReturns
CHECK_DEADLOCK FALSE
