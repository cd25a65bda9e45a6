SPECIFICATION Spec
CONSTANTS
  None = None
  Blank = Blank
  c1 = c1
  c2 = c2
  end = end
  noKey = noKey
  noSecret = noSecret
  Credentials <- Bridge
  ClockSkew = 2
  MaxDuration = 16
  Operations <- WithSubresources
  Keys <- AllKeys
  Modes = {"hash", "streaming"}
  Offsets <- AllOffsets
  Ages <- AllAges
  Expires <- AllExpires
  Chunks = {c1, c2}
  End = end
  Payload <- TheBody
  Wires <- CleanWire
INVARIANT ServedAsMeant
