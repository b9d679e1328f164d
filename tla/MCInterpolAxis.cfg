\* One real interpolation.
CONSTANTS
  Kinds = {"RR"}
  Xs = {"u"}
  Ys = {"s"}
  MaxSize = 4
  Far = 8
SPECIFICATION Spec
INVARIANT AxisKept
CHECK_DEADLOCK FALSE
