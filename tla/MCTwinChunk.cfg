SPECIFICATION Spec
CONSTANTS
  ByteBits = 2
  HashBits = 3
  MaxMatch = 4
  WSize = 14
  TooFar = 4
  LitBufsize = 5
  Configs <- MCConfigs
  Inputs <- MCInputs
  Slices = {1, 2, 5, 13}
  Flushes = {"none", "sync", "full", "partial", "finish"}
  Stale <- MCStale
  MaxFlushes = 2
  StreamChunk = 14
  Plans <- ChunkPlans
CHECK_DEADLOCK FALSE
INVARIANT
  ChunkingInvisible
