SPECIFICATION Spec
CONSTANTS
  Words <- All
  Lines <- Short
  Names = {".text"}
  Paths = {"./a.out"}
  Numbers = {"0x10"}
  Ranges = {"0x10-0x20"}
  Architectures = {"arm"}
INVARIANTS EveryWordUnderstood OperandsPresent ColorAsAsked
CHECK_DEADLOCK FALSE
