\* Any card, and a few of each thing that can happen to it.
SPECIFICATION FairSpec
CONSTANTS
  Configs <- InitRccConfigs
  MaxFaults = 2
  MaxResets = 2
  MaxPulls = 1
INVARIANTS
  TypeOK
  SignalsOnlySuccess
  LatencySuffices
  OkMeansClocked
  DerivedClocksInRange
PROPERTIES
  FilesSurvive
  StartsUp
  FallsBack
CHECK_DEADLOCK FALSE
