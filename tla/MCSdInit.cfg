\* Every card, two faults and one processor reset anywhere.
SPECIFICATION FairSpec
CONSTANTS
  Kinds <- AllKinds
  MaxTrials = 2
  MaxApp = 2
  MaxPolls = 2
  MaxFaults = 2
  MaxResets = 1
INVARIANTS TypeOK OkMeansAgreed FieldsAgree WideOnlyTogether CleanInitSucceeds
PROPERTY AbsentCardIsReported
CHECK_DEADLOCK FALSE
