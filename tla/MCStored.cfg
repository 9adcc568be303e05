SPECIFICATION Spec
CONSTANTS
  WSize = 8
  MaxStored = 15
  PendingBufSize = 16
  Slack = 0
  Slices = {1, 5, 7, 20}
  Flushes = {"none", "sync", "full", "partial", "finish"}
  MaxInput = 34
  MaxFlushes = 2
INVARIANTS
  InOrder
  ConsumesAll
  NeverShort
PROPERTIES
  DirectOnly
  ImplementsCompressor
CHECK_DEADLOCK FALSE
