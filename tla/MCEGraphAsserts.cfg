SPECIFICATION Spec
CONSTANTS
  x = x
  y = y
  f = f
  g = g
  Ids = {1, 2, 3, 4}
  Ops = {x, y, g}
  Arity <- Arities
  Facts = {x, y}
  FactsOf <- OwnFact
INVARIANT AnalysisDrained
