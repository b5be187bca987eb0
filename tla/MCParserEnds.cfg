CONSTANTS
  Programs <- SingleStatements
  Statements <- AllStatements
  BrokenExpressions <- SomeBrokenExpressions
  Formulas <- SomeFormulas
  MaxModifiers = 2
SPECIFICATION Spec
INVARIANT ParseReturns
