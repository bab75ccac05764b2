\* One operation that fails.
SPECIFICATION Spec
CONSTANTS
  Configs <- InitRccConfigs
  MaxFaults = 1
  MaxResets = 0
  MaxPulls = 0
PROPERTIES
  FormatsOnlyUnformatted
CHECK_DEADLOCK FALSE
