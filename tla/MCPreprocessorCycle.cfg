CONSTANTS
  InitialCapacity = 4
  MaxDepth = 4
  AllocMayFail = FALSE
  Names = {"W", "X", "Y", "Z"}
  OtherTokens = {"+", "0", "1", "2", "010"}
  MaxExpansionDepth = 3
  Decimal <- InBase10
  Detected <- InItsBase
  Width = 6
  Outcome <- Evaluated
  Calls <- CyclicCalls
  Builtins <- NoBuiltins
  LibraryDirs <- Libraries
  MaxNesting = 4
SPECIFICATION Spec
INVARIANT NoCyclicInclusion
