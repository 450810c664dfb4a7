SPECIFICATION FairMode
CONSTANTS
  N = 2
  Nodes = {n1}
  OneNode = {}
  NoNode = NoNode
  WrapperCap = 10
  MaxExitRetries = 1
  InsertWhenEmpty = FALSE
  MayExit = TRUE
INVARIANTS TypeOK RcountIsLimbo OnePlace UpdateIsExclusive
PROPERTIES EpochAdvances AloneDrains ExitEnds
