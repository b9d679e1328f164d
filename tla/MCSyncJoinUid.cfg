SPECIFICATION Spec
CONSTANTS
  s1 = s1
  s2 = s2
  s3 = s3
  Srcs = {s1, s2, s3}
  Uids = {1, 2, 3}
  MaxArrivals = 3
SYMMETRY MCSymmetry
INVARIANTS
  UidKept
CHECK_DEADLOCK FALSE
