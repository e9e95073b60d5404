SPECIFICATION EventFairSpec
CONSTANTS
  Threads = {boot, w, s}
  None = None
  Waiters = {w}
  Signalers = {s}
  MaxCalls = 4
INVARIANTS
  OnlyCurrentWaits
  SignalNotLost
PROPERTIES
  EveryCallReturns
CHECK_DEADLOCK FALSE
