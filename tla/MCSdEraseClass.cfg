\* A card without the erase commands, on a quiet bus.
SPECIFICATION Spec
CONSTANTS
  NBlocks = 2
  MaxCount = 2
  Erased = Erased
  NoData = NoData
  Classes <- WithoutErase
  MaxPolls = 2
  Values = {v1}
  Ops = {"read", "write", "erase"}
  ReadAttempts = 1
  WriteAttempts = 1
  MaxFaults = 0
INVARIANT
  ErasesOnlyWithClass5
