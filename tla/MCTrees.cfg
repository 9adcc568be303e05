SPECIFICATION Spec
CONSTANTS
  Literals = 5
  MinMatch = 2
  LenExtra <- MCLenExtra
  DistExtra <- MCDistExtra
  StaticL <- MCStaticL
  StaticD <- MCStaticD
  MaxBits = 3
  MaxBlBits = 3
  ZeroShort = 3
  ZeroLong = 4
  Tallies <- MCTallies
  Slack = {0, 30}
INVARIANTS
  TypeOK
  CompleteCode
  Optimal
  HeaderDecodes
  SmallestChosen
  CodesDecode
