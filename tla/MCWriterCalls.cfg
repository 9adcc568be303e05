SPECIFICATION Spec
CONSTANTS
  Writers = {w1}
  Stored = {}
  Callers = {c1}
  States = {x1, x2}
  Bufs = {b1, b2}
  None = None
  HeaderWrites = 2
  MaxPooled = 2
  MaxWrite = 2
  MaxUnits = 3
VIEW View
INVARIANTS
  SinkWellFormed
  CloseDelivers
  FlushDelivers
  FailedHoldsNoScratch
  NoInternalError
  OneShotExact
  Exclusive
PROPERTIES
  NothingAfterError
  CallsReturn
