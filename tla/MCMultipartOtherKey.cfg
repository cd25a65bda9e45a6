SPECIFICATION Spec
CONSTANTS
  a = a
  b = b
  Procs = {p1, p2}
  Keys = {k1, k2}
  Uploads = {u1}
  PartNumbers = {1, 2}
  Data = {a, b}
  Torn = Torn
  None = None
  Claims <- FewClaims
  KeysMatch = FALSE
  Collecting = FALSE
  Faults = {}
  MaxFaults = 0
INVARIANT
  CommitsUnderItsLock
