CONSTANTS
  d1 = d1
  d2 = d2
  t1 = t1
  t2 = t2
  Docs = {d1, d2}
  Texts = {t1, t2}
  Closed = Closed
  Garbled = Garbled
  Batching = TRUE
  RestartLimit = 1
  Insiders = TRUE
  Disturbances <- Everything
SPECIFICATION Spec
INVARIANT InSync
PROPERTY CommandSeesText
SYMMETRY Symmetry
CHECK_DEADLOCK FALSE
