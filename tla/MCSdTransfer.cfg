\* Two blocks, all requests, two faults of the bus or the card against three
\* attempts, under the fairness of the polling driver.
SPECIFICATION FairSpec
CONSTANTS
  NBlocks = 2
  MaxCount = 2
  Erased = Erased
  NoData = NoData
  Classes <- Physical
  MaxPolls = 2
  Values = {v1}
  Ops = {"read", "write", "erase"}
  ReadAttempts = 3
  WriteAttempts = 3
  MaxFaults = 2
INVARIANTS
  TypeOK
  OkMeansCarriedOut
  SuccessLeavesNothingPending
  EndMeansAllMoved
  RetriesAbsorbDataFaults
PROPERTIES
  ImplementsBlockDevice
  EveryRequestAnswered
