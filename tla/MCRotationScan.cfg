SPECIFICATION MCSpec
CONSTANTS
  N = 2
  K = 1
  Nodes = {n1, n2, n3}
  NULL = NULL
  Inserters = {0, 1}
  Deleters = {0, 1}
  Aged = FALSE
  Exhausts = TRUE
SYMMETRY NodeSymmetry
INVARIANT NoUseAfterFree
CHECK_DEADLOCK FALSE
