SPECIFICATION FairSpec
CONSTANTS
  x = x
  y = y
  f = f
  g = g
  Ids = {1, 2, 3, 4}
  Ops = {x, y, g}
  Arity <- Arities
  Facts = {x, y}
  FactsOf <- OwnFact
INVARIANTS Congruent MemoRight NodesKept AnalysisRight
PROPERTIES KnowsWhatFollows RebuildEnds
CHECK_DEADLOCK FALSE
