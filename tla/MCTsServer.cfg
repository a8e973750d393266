SPECIFICATION FairSpec
CONSTANTS
  MaxRequests = 3
  MaxAhead = 1
  Kinds <- AnswerKinds
  Observed = TRUE
INVARIANTS PendingIffCallback NoStall PendingIsOwed
PROPERTIES PromisesSafety PromisesKept
CHECK_DEADLOCK FALSE
