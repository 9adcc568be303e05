SPECIFICATION Spec
CONSTANTS
  Word = 64
  SendGroup = 48
  BlockGroup = 32
  MaxBits = 15
  LenExtra = 5
  DistExtra = 13
  TreeSends = {1, 2, 3, 7}
  LitBufsize = 4
  StoredSizes = {0, 1}
  MaxHeader = 64
INVARIANTS
  NoBitLost
