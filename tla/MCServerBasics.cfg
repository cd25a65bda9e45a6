SPECIFICATION Spec
CHECK_DEADLOCK FALSE
CONSTANTS
  None = None
  Procs = {p1, p2}
  Uploads = {u1, u2}
  MaxFaults = 2
INVARIANTS
  TypeOK
  OneDatabase
PROPERTIES
  OpeningEnds
