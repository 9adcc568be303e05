SPECIFICATION HeaderSpec
CONSTANTS
  Writers = {w1}
  Stored = {}
  Callers = {}
  States = {x1}
  Bufs = {b1}
  None = None
  HeaderWrites = 1
  MaxPooled = 2
  MaxWrite = 2
  MaxUnits = 2
  Base = 4
  Nil = Nil
  Headers <- MCHeaders
  StdHeaders <- MCStdHeaders
INVARIANTS
  HeaderReadsBack
  InvalidRefused
  Recompressed
