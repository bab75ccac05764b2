\* Sectors of one, of a half and of one and a half blocks.
SPECIFICATION Spec
CONSTANTS
  Units = 6
  BlockSize = 2
  Word = 64
  MaxUnits = 4
  Requests <- Aligned
  Values = {v}
  Erased = Erased
  NoData = NoData
INVARIANTS TypeOK NothingHeld
PROPERTY ImplementsBlockDevice
