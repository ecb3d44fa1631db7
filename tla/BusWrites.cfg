CONSTANTS
  PageSize = 4
  Wrap = 256
  ResetRomSize = 1
  ResetRomFiles = {1}
  MemorySizes = {36}
  Firmwares <- MCFirmwares
  ResetVectors = {0, 5, 10}
  MaxDevices = 3
  Written <- MCWritten
  MemoryByte = 0
  RomByte = 1
  MaxWrites = 2
SPECIFICATION WriteSpec
INVARIANTS
  ContentsTypeOK
  MemoryWrittenAlone
  SmallWritesDefined
CHECK_DEADLOCK FALSE
