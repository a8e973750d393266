CONSTANTS
  d1 = d1
  d2 = d2
  t1 = t1
  t2 = t2
  Docs = {d1}
  Texts = {t1, t2}
  Closed = Closed
  Garbled = Garbled
  Batching = FALSE
  RestartLimit = 5
  Insiders = FALSE
  Disturbances <- Interrupted
SPECIFICATION FairSpec
INVARIANTS OneServer RestartsEnd NeverForgotten
PROPERTIES KilledIsReplaced ErrorsPass
CHECK_DEADLOCK FALSE
