CONSTANTS
  InitialCapacity = 4
  MaxDepth = 5
  AllocMayFail = TRUE
SPECIFICATION HSpec
INVARIANTS WithinCapacity SkipInherited FramesMatchGroups
PROPERTIES OneBranchPerGroup ImplementsGroups
