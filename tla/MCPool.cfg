\* Five blocks, searched block by block; sizes from nothing to one more
\* than the pool.
SPECIFICATION ScanSpec
CONSTANTS
  Blocks = 5
  Word = 16
  Sizes = {0, 1, 2, 3, 6}
  Null = Null
INVARIANTS
  TypeOK
  RegionsDisjoint
  UsedIsGranted
  TwiceTheRoomIsEnough
PROPERTIES
  ImplementsFirstFit
