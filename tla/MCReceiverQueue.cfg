\* Three frames, in blocks that may hold one and more of them.
CONSTANTS
  Messages = 3
  MaxBlock = 9
  MaxQueue = 12
  MaxLost = 0
SPECIFICATION Spec
INVARIANT LongWithoutDelimiters
