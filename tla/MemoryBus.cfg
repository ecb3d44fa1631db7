CONSTANTS
  PageSize = 8
  Wrap = 256
  ResetRomSize = 2
  ResetRomFiles = {1, 3}
  MemorySizes = {16, 20}
  Firmwares <- MCFirmwares
  ResetVectors = {0, 2, 4, 5, 6, 7, 13}
  MaxDevices = 4
SPECIFICATION Spec
INVARIANTS
  TypeOK
  ResetRomVisible
  FirmwareWholeOrAbsent
  FirmwareAtPreferredBase
  ReadsStayInDevice
  DumpStaysInDevices
CHECK_DEADLOCK FALSE
