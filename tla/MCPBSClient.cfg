\* One call: it ends.
CHECK_DEADLOCK FALSE
SPECIFICATION FairSpec
CONSTANTS
  MaxCollisionRetries = 2
  MaxTransientRetries = 3
  BaseDelay = 1
  MaxDelay = 3
  Timeout = 5
  History <- MCHistory
  None = None
  MaxFaults = 3
INVARIANTS
  WithinBudget
  AnswersAreTrue
  ExhaustionIsEarned
PROPERTIES
  EveryCallEnds
