SPECIFICATION MCSpec
CONSTANTS
  N = 2
  K = 1
  Nodes = {n1, n2, n3, n4, n5, n6}
  NULL = NULL
  Inserters = {0}
  Deleters = {0}
  Aged = FALSE
  Exhausts = FALSE
SYMMETRY NodeSymmetry
INVARIANTS TypeOK MarkedInTime RcountIsLength
PROPERTY RefinesReclamation
CHECK_DEADLOCK FALSE
