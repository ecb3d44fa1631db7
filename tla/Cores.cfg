CONSTANTS
  MaxCores = 5
  MaxCapacity = 7
  ResetVectors = {0, 65520}
SPECIFICATION Spec
INVARIANTS
  CoresTypeOK
  CoresReady
  OneShareEach
CHECK_DEADLOCK FALSE
