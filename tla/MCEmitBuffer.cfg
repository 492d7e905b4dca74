SPECIFICATION Spec
CONSTANTS
  Emitters = {e1, e2}
  Pingers = {p1}
  Buffers = {b1, b2, b3}
  MaxTicks = 2
  None = None
SYMMETRY Symmetry
INVARIANTS OwnedByOne PingIntact
