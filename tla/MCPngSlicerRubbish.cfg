SPECIFICATION Spec
CONSTANT Bodies <- MCBodies
INVARIANT NoRubbish
CHECK_DEADLOCK FALSE
