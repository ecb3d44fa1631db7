SPECIFICATION Spec
CONSTANTS
  Values <- MCValues
  EFERValues <- MCEFERValues
  SetterBits = {0, 31}
  StartupModes = {"real", "protected", "long"}
INVARIANTS TypeOK OneWayWritesJudgedExactly PagingCanBeLeft
