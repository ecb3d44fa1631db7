CONSTANTS
  CommandLines <- MCCommandLines
  ResetVector = 12
  PageSize = 8
  Wrap = 256
  ResetRomSize = 3
  MaxDevices = 3
SPECIFICATION Spec
INVARIANTS
  SystemTypeOK
  ThreadOnlyWhileRunning
PROPERTIES
  ImplementsBoard
  BootEnds
CHECK_DEADLOCK FALSE
