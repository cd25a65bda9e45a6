SPECIFICATION FairSpec
CONSTANTS
  a = a
  b = b
  Procs = {p1, p2}
  Keys = {k1}
  Uploads = {u1}
  PartNumbers = {1, 2}
  Data = {a, b}
  Torn = Torn
  None = None
  Claims <- FewClaims
  KeysMatch = TRUE
  Collecting = TRUE
  Faults = {"body", "copy", "store", "backup", "files", "crash"}
  MaxFaults = 1
INVARIANT IInv
PROPERTIES
  EveryRequestAnswered
