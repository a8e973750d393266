SPECIFICATION Spec
CONSTANTS
  SeparateSyntax = TRUE
  SeparateDiags = FALSE
  DynamicRouting = TRUE
  Commands <- AllCommands
  MaxCommands = 2
INVARIANTS DivergenceIsFatal DivergedIsStopped QueriesSeeEdits
CHECK_DEADLOCK FALSE
