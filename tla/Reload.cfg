SPECIFICATION FairSpec
CONSTANTS
  Threads = {t1, t2}
  Files = {f}
  Parallel = 1
  Budget = 1
  MaxTroubles = 2
INVARIANTS SaveArmed OneAway ReloadIsFree
PROPERTY FreshCode
CHECK_DEADLOCK FALSE
