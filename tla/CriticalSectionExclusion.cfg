SPECIFICATION CSSpec
CONSTANTS
  Threads = {t1, t2}
  None = None
INVARIANT MutualExclusion
