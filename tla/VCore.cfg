CONSTANTS
  Images <- MCImages
  ResetVector = 0
  StartupModes = {"real", "protected", "long"}
SPECIFICATION FairSpec
INVARIANTS
  TypeOK
  PrefixesReflectBytes
  LengthCountsFromOpcode
PROPERTIES
  ImplementsISA
  NarrowWritesKeepHighBytes
  ArithmeticWraps
  DecodeTerminates
CHECK_DEADLOCK FALSE
