SPECIFICATION Spec
CONSTANTS
  Inputs <- MCInputs
  MaxPackets = 4
  MaxDelay = 1
INVARIANTS
  CrashesOnlyInSetup
  Released
  Accounted
  StatusTells
CHECK_DEADLOCK FALSE
