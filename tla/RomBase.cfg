CONSTANTS
  PageSize = 8
  Wrap = 256
  ResetRomSize = 2
  ResetRomFiles = {2}
  MemorySizes = {16, 20}
  Firmwares <- MCFirmwares
  ResetVectors = {0, 2, 5, 6, 7, 13}
  MaxDevices = 4
SPECIFICATION Spec
INVARIANT RomsAtPreferredBase
CHECK_DEADLOCK FALSE
