CONSTANTS
  Sources <- Callers
  PlainPrograms = {}
  MaxModifiers = 2
SPECIFICATION CompileSpec
INVARIANT CallsAllowed
