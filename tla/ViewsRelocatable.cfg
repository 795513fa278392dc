SPECIFICATION Spec
CONSTANTS
  Words = 16
  ImageSize = 8
  Cap = 3
  Layouts <- Relocatable
  Codes <- Whole
INVARIANTS FunctionShown
CHECK_DEADLOCK FALSE
