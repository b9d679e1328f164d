SPECIFICATION Spec
CONSTANTS
  Kinds = {"serial"}
  Limit = 1
  MaxReads = 3
  MaxPokes = 2
INVARIANTS
  PortGuarded
CHECK_DEADLOCK FALSE
