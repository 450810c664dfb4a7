SPECIFICATION FairVariant
CONSTANTS
  N = 2
  K = 1
  Nodes = {n1}
  RotatingNodes = {}
  NULL = NULL
  R = 2
  SwitchThreshold = 1
  Many = 1
  Few = 1
  MaxExitRetries = 0
  Lazy = FALSE
  KeepsNodes = TRUE
  Searchers = {0}
  Updaters = {0}
  Leavers = {}
  Live = {0}
INVARIANTS TypeOK
PROPERTY StalledThreadsDoNotBlock
