SPECIFICATION Spec
CONSTANTS
  k1 = k1
  k2 = k2
  g1 = g1
  Procs = {p1, p2}
  Keys = {k1, k2}
  Groups = {g1}
  Bodies = {b1, b2}
  None = None
  Chars = {"s", "g", "z", "t", "k", "f", "1", "2", "-", "_", ".", "/"}
  Valid = {"s", "g", "z", "t", "k", "f", "1", "2", "-", "_"}
  Underscore = "_"
  Dash = "-"
  Slash = "/"
  Dot = "."
  Extensions <- MCExtensions
  Fallback <- MCFallback
  MaxIDLen = 4
  HashLen = 1
  Segments <- MCSegments
  Hash <- MCHash
  GroupOf <- OneGroup
  MaxCollisionRetries = 1
  MaxTransientRetries = 2
  FreshStamps = TRUE
  Faults = {"attempt", "lost_reply", "store", "crash"}
  MaxFaults = 1
  MaxTime = 2
SYMMETRY Symmetry
INVARIANTS
  NoSharedSnapshot
  LeaksAreFaults
  NotesNameTheKey
PROPERTIES
  OnlyDeleteUnbacks
  ImplementsS3Objects
