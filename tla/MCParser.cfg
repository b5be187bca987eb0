CONSTANTS
  Programs <- SomePrograms
  Statements <- AllStatements
  BrokenExpressions <- SomeBrokenExpressions
  Formulas <- SomeFormulas
  MaxModifiers = 2
SPECIFICATION Spec
INVARIANTS PrecedenceRespected StatementsIndependent NamesKept BrokenExpressionIsolated
PROPERTY StepsRead
