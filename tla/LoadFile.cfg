SPECIFICATION Spec
CONSTANTS
  Words = 128
  Half = 16
  Short = 8
  Outside = "outside"
  Formats = {"Elf", "MachO", "MachOFat", "PeCoff", "Archive", "Unknown"}
  ImageSize <- MCImageSize
  Sizes <- MCSizes
  Headers <- MCHeaders
  RawSections <- MCRawSections
  Segments <- MCSegments
  RawSymbols <- MCRawSymbols
  SymbolIndexes <- MCSymbolIndexes
  DynEntries <- MCDynEntries
  Layout <- MCLayout
  FatArchs <- MCFatArchs
  Commands <- MCCommands
  Nlists <- MCNlists
  MaxFat = 2
  MaxCommands = 4
  MaxSections = 2
  MaxSymbols = 3
  PeLayout <- MCPeLayout
  PeHeaders <- MCPeHeaders
  SectionMaps <- MCSectionMaps
  Descriptors <- MCDescriptors
  Thunks <- MCThunks
  ExportRvas <- MCExportRvas
  CoffSymbols <- MCCoffSymbols
  MaxPeSections = 2
  MaxDescriptors = 2
  MaxThunks = 2
  MaxParsedSymbols = 3
INVARIANTS ElfInside ReadsSucceed RelocationsNamed SlicePreferred ImportsAttributed ExportsJoined SymbolsBounded
