SPECIFICATION MCSpec
CONSTANTS
  N = 2
  Nodes = {n1, n2}
  OneNode = {m}
  NoNode = NoNode
  WrapperCap = 1
  MaxExitRetries = 1
  InsertWhenEmpty = TRUE
  MayExit = FALSE
PROPERTY TimelyRefinesReclamation
SYMMETRY NodeSymmetry
