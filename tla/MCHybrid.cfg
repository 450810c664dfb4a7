SPECIFICATION MCSpec
CONSTANTS
  N = 2
  K = 1
  Nodes = {m}
  RotatingNodes = {n1, n2, n3}
  NULL = NULL
  R = 1
  SwitchThreshold = 1
  Many = 1
  Few = 1
  MaxExitRetries = 1
  Lazy = FALSE
  KeepsNodes = FALSE
  Searchers = {0, 1}
  Updaters = {0}
  Leavers = {0}
  Live = {0}
INVARIANTS EachNoUseAfterFree EachRcountIsLength EachOneEpochBehind
PROPERTY EagerRefinesReclamation
SYMMETRY RotatingSymmetry
