SPECIFICATION RunSpec
CONSTANTS
  Names = {1, 2, 3, 4}
  Texts <- MCTexts
  MaxFunctions = 3
  Requests = {1, 2, 4}
  SymbolFiles <- MCSymbolFiles
  MaxLines = 4
INVARIANTS EveryNameOnce RenamesFound DiffShortest
CHECK_DEADLOCK FALSE
