SPECIFICATION Spec
CONSTANTS
  Writers = {w1, w2}
  Stored = {w1, w2}
  Callers = {}
  States = {x1, x2}
  Bufs = {b1, b2}
  None = None
  HeaderWrites = 1
  MaxPooled = 1
  MaxWrite = 1
  MaxUnits = 1
SYMMETRY Alike
VIEW View
INVARIANTS
  Exclusive
  HugeBuffersDropped
