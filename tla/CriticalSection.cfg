SPECIFICATION CSFairSpec
CONSTANTS
  Threads = {t1, t2, t3}
  None = None
INVARIANTS
  HeldWordHasOwner
  ExclusionUntilMidway
PROPERTY SomeoneEnters
