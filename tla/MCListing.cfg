\* A listing ends, and the changes of others are bounded.
CHECK_DEADLOCK FALSE
SPECIFICATION Spec
CONSTANTS
  Bucket <- MCBucket
  Keys <- MCKeys
  Nul = 0
  Others <- MCOthers
  Parameters <- MCParameters
  PageLimit = 2
  OverFetch = 2
  MaxChanges = 2
INVARIANTS
  NothingIsSkipped
  NothingIsInvented
  AscendingOnce
  PagesAdvance
