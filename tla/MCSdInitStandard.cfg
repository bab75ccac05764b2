\* A card that addresses bytes.
SPECIFICATION Spec
CONSTANTS
  Kinds <- JustStandard
  MaxTrials = 2
  MaxApp = 2
  MaxPolls = 2
  MaxFaults = 0
  MaxResets = 0
INVARIANT ReadyCardIsTaken
CHECK_DEADLOCK FALSE
