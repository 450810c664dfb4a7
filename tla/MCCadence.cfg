SPECIFICATION MCSpec
CONSTANTS
  N = 2
  K = 1
  Nodes = {n1}
  NULL = NULL
  R = 2
  MaxAge = 3
  MaxSleep = 1
  ScanTime = 1
  BufferSize = 1
  Opt = TRUE
  Bloom = TRUE
  PerOp = TRUE
  CallsMod = 4
  MaxExitRetries = 1
INVARIANTS TypeOK OldGuardsAreVisible MissedGuardsAreYoung
PROPERTY RefinesReclamation
