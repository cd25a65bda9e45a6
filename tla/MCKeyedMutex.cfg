SPECIFICATION FairSpec
CONSTANTS
  Callers = {c1, c2, c3}
  Keys = {k1, k2}
  Mutexes = {m1, m2, m3}
  None = None
INVARIANTS
  MutualExclusion
  NoStaleEntry
PROPERTIES
  EveryCallReturns
  ImplementsKeyedLock
