SPECIFICATION Spec
CONSTANTS
  Values <- MCValues
  EFERValues <- MCEFERValues
  SetterBits = {}
  StartupModes = {"real", "protected", "long"}
PROPERTY ReservedBitsKept
