CONSTANTS
  Extensions <- Files
  Parsed <- Stubs
  Names <- AllNames
  Entries <- EntryNames
  MaxObjects = 3
  MaxSections = 16
SPECIFICATION Spec
INVARIANTS ChunksTile SectionsDisjoint SectionsPlaced EntryAtSymbol ImageOfAdded
