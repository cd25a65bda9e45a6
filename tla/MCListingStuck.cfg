\* A page of rows that are all under one common prefix: the next page is the same.
CHECK_DEADLOCK FALSE
SPECIFICATION Spec
CONSTANTS
  Bucket <- MCBucket
  Keys <- MCKeys
  Nul = 0
  Others <- MCOthers
  Parameters <- MCParameters
  PageLimit = 2
  OverFetch = 2
  MaxChanges = 0
INVARIANT GroupedPagesAdvance
