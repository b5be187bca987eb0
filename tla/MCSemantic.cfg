CONSTANTS
  Sources <- SomePrograms
  PlainPrograms <- SomePlainPrograms
  MaxModifiers = 2
SPECIFICATION CompileSpec
INVARIANTS SemanticTypeOK AcceptedIsWellScoped ScopesDecide IrTypeOK ComputesSame
PROPERTY OuterScopesKept
