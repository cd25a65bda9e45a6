SPECIFICATION Spec
CONSTANTS
  a = a
  b = b
  Procs = {p1, p2}
  Keys = {k1}
  Uploads = {u1, u2}
  PartNumbers = {1, 2}
  Data = {a}
  Torn = Torn
  None = None
  Claims <- OneClaims
  KeysMatch = TRUE
  Collecting = FALSE
  Faults = {"body", "copy", "store", "backup", "files"}
  MaxFaults = 1
SYMMETRY Symmetry
INVARIANTS
  NoSplitState
  AcknowledgedPartIsStored
  DeleteClearsKey
  RetryableUnlessStoreFailed
