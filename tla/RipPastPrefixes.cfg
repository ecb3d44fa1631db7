CONSTANTS
  Images <- MCImages
  ResetVector = 0
  StartupModes = {"real", "protected", "long"}
SPECIFICATION Spec
INVARIANT RipReachesNextInstruction
CHECK_DEADLOCK FALSE
