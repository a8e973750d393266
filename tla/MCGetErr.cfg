SPECIFICATION FairSpec
CONSTANTS
  d1 = d1
  d2 = d2
  d3 = d3
  Docs <- ThreeDocs
  Semantic <- TwoDocs
  ProjectDiags = FALSE
INVARIANTS OneGetErr NothingForgotten PendingIsScheduled
PROPERTIES DiagsArrive
