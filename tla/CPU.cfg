CONSTANTS
  Images <- MCImages
  ResetVector = 0
  StartupModes = {"real", "protected", "long"}
SPECIFICATION CPUSpec
INVARIANTS
  HostTypeOK
  FlagClearedWhileActive
  QuietOutsideStart
PROPERTIES
  ImplementsSyncStart
  StartReturns
CHECK_DEADLOCK FALSE
