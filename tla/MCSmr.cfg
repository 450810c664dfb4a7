SPECIFICATION FairSpec
CONSTANTS
  N = 2
  Nodes = {n1}
  NULL = NULL
  R = 1
INVARIANTS TypeOK NoUseAfterFree ScanSeesGuards RcountIsLength
PROPERTIES RefinesReclamation ExitEnds
