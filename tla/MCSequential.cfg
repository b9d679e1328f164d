\* One axis, two vectors of samples of up to six doubles, messages of up to
\* nine doubles and three angles, spectra of up to eleven points, three
\* sources with three uids, four images.
CONSTANTS
  s1 = s1
  s2 = s2
  s3 = s3
  Srcs = {s1, s2, s3}
  Uids = {1, 2, 3}
  MaxArrivals = 3
  Bodies <- MCBodies
  Kinds = {"RR", "CR"}
  Xs = {"u"}
  Ys = {"s", "t"}
  InterpolSize = 6
  Far = 8
  Angles = {0, 1, 2}
  TransformSize = 9
  MaxN = 11
SPECIFICATION Spec
SYMMETRY MCSymmetry
INVARIANTS
  TypeOK
  InterpolContract
  CachesCurrent
  IndexMaps
  SetsBacked
  JoinsExactly
  NothingStale
  CurrIsImage
  SmoothIsSliced
CHECK_DEADLOCK FALSE
