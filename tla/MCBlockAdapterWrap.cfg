\* The same sectors on a card twice as large as a word counts bytes.
SPECIFICATION Spec
CONSTANTS
  Units = 8
  BlockSize = 2
  Word = 4
  MaxUnits = 2
  Requests <- Aligned
  Values = {v}
  Erased = Erased
  NoData = NoData
PROPERTY ImplementsBlockDevice
