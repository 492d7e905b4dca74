SPECIFICATION Spec
CONSTANTS
  Emitters = {e1}
  Pingers = {p1}
  Buffers = {b1, b2, b3, b4}
  MaxTicks = 2
  None = None
SYMMETRY Symmetry
INVARIANT EmitIntact
