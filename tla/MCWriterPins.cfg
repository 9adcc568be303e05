SPECIFICATION Spec
CONSTANTS
  Writers = {w1, w2}
  Stored = {}
  Callers = {}
  States = {x1, x2}
  Bufs = {b1, b2}
  None = None
  HeaderWrites = 1
  MaxPooled = 2
  MaxWrite = 1
  MaxUnits = 1
SYMMETRY Alike
VIEW View
INVARIANT
  ErroredPinsNothing
