SPECIFICATION PoolSpec
CONSTANTS
  NbPages = 3
  Callers = {c1, c2}
INVARIANTS
  NoPageTwice
  ConservedUntilInner
SYMMETRY CallerSymmetry
CHECK_DEADLOCK FALSE
