SPECIFICATION Spec
CONSTANTS
  Keys = {k1}
  MaxKeys = 0
  MaxMemory = 0
  Evicts = TRUE
  Incremental = TRUE
  AutoRewrite = FALSE
  SampleSize = 20
  Ops = {"SET", "RPUSH", "PERSIST", "INCRBY"}
  MaxTime = 3
  MaxN = 2
  MaxSnapshots = 1
  MaxRestarts = 2
  MaxTail = 1
INVARIANTS RecoversLive
