SPECIFICATION FairSpec
CONSTANTS
  SeparateSyntax = TRUE
  SeparateDiags = TRUE
  DynamicRouting = FALSE
  Commands <- OneOfEach
  MaxCommands = 1
INVARIANTS DivergenceIsFatal
PROPERTIES NoLateWithdrawal NoProcessLeft NoPromiseLeft
CHECK_DEADLOCK FALSE
