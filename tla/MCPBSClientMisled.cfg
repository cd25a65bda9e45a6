\* The words of IsNotFound in an error of another kind.
CHECK_DEADLOCK FALSE
SPECIFICATION FairSpec
CONSTANTS
  MaxCollisionRetries = 2
  MaxTransientRetries = 3
  BaseDelay = 1
  MaxDelay = 3
  Timeout = 5
  History <- MCHistory
  None = None
  MaxFaults = 3
INVARIANT ForgetLeavesNothing
