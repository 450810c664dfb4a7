SPECIFICATION Spec
CONSTANTS
  N = 2
  Nodes = {n1, n2}
  NoNode = NoNode
  WrapperCap = 10
  MaxExitRetries = 2
  InsertWhenEmpty = FALSE
  MayExit = FALSE
INVARIANT NoUseAfterFree
