SPECIFICATION Spec
CONSTANTS
  MaxAddress = 20
  Names = {1, 2, 3, 4}
  HeaderSize = 4
  EntrySize = 2
  Objects <- Arm64Programs
INVARIANTS StubsNamedRight
CHECK_DEADLOCK FALSE
