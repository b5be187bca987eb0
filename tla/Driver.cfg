CONSTANTS
  FileNames = {"a", "b"}
  Options = {"-S", "-o", "-Werror", "-Wignor", "-help", "-unknown"}
  MaxArguments = 4
  LineNumbers = {1, 3}
  LineCounts = {0, 2}
  LineWidth = 4
  InitialSlots = 1
  MaxExponentialCapacity = 2
  LinearIncrement = 1
  CapacityWidth = 4
  MaxReports = 2
SPECIFICATION Spec
INVARIANTS EntriesHaveSlots AttributedToFile LineOfNamedFile ExitTells AssemblyOfCleanSources
PROPERTY PrintsEachOnce
