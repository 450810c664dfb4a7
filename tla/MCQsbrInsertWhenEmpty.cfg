SPECIFICATION TimelySpec
CONSTANTS
  N = 2
  Nodes = {n1, n2}
  NoNode = NoNode
  WrapperCap = 10
  MaxExitRetries = 2
  InsertWhenEmpty = TRUE
  MayExit = FALSE
INVARIANT NoUseAfterFree
