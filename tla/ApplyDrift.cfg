SPECIFICATION ApplySpec
CONSTANTS
  Files <- MCFiles
  Operation <- MCOperation
  OtherPaths = {"other"}
  InDoubt = InDoubt
  MaxFaults = 0
  MaxEdits = 1
PROPERTIES
  RollbackKeepsUserEdits
