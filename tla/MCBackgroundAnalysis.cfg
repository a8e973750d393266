SPECIFICATION FairSpec
CONSTANTS
  lib = lib
  app = app
  Files = {lib, app}
  Importers <- ImportersOf
  OnlyOpen = FALSE
  Chains = {c1, c2}
  NoChain = NoChain
  MaxInbox = 2
INVARIANTS NoFileForgotten AnalysisSeesChanges NoPipeLeft
PROPERTY AnalysisEnds
