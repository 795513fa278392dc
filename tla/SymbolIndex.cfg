SPECIFICATION Spec
CONSTANTS
  MaxAddress = 20
  Names = {1, 2, 3, 4}
  HeaderSize = 2
  EntrySize = 2
  Objects <- Files
INVARIANTS InOwnFunction StubsNamedRight ReferenceIsOwn EveryCallSiteFound CallersCall
CHECK_DEADLOCK FALSE
