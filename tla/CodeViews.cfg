SPECIFICATION Spec
CONSTANTS
  Words = 16
  ImageSize = 8
  Cap = 3
  Layouts <- Linked
  Codes <- WithData
INVARIANTS FunctionShown OverloadsAgree AddressShown EverySectionListed DumpShown ShortDumpNoted
CHECK_DEADLOCK FALSE
