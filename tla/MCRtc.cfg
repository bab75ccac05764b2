SPECIFICATION FairSpec
CONSTANTS
  Ops = {"set_datetime", "set_time", "set_date"}
  Arguments <- Settings
  LastOf <- TwoOfEach
  MaxTicks = 3
  MaxResets = 1
INVARIANTS
  TypeOK
  FieldsAreRecent
  YearKept
PROPERTIES
  CallsReturn
CHECK_DEADLOCK FALSE
