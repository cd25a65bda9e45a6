SPECIFICATION FairSpec
CONSTANTS
  b0 = b0
  b1 = b1
  b3 = b3
  Bodies = {b0, b1, b3}
  Size <- MCSize
  None = None
  RangeHeaders <- MCRangeHeaders
  MaxTransientRetries = 3
  MaxFaults = 3
INVARIANTS
  RangeIsWhatWasAsked
  CompleteIsCoherent
  StreamSurvivesBudget
  NoProcessLeft
  ScratchIsRemoved
PROPERTIES
  HeadersInTime
