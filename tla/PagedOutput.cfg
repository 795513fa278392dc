SPECIFICATION OutputSpec
CONSTANTS
  MaxChunks = 4
  PipeCapacity = 2
  Codes = {0, 3}
INVARIANTS ShownInOrder EverythingShown TerminalHandedBack
PROPERTIES EndsUnlessPaged
