CONSTANTS
  MaxRequests = 4
  MaxAhead = 0
  Kinds <- QueueKinds
  Observed = FALSE
SPECIFICATION Spec
INVARIANTS FenceOrder QueueDiscipline
CHECK_DEADLOCK FALSE
