SPECIFICATION Spec
CONSTANTS
  Keys = {k1}
  MaxKeys = 0
  MaxMemory = 0
  Evicts = TRUE
  Incremental = TRUE
  AutoRewrite = FALSE
  SampleSize = 1
  Ops = {"SET", "RPUSH", "PERSIST", "PEXPIREAT", "INCRBY", "FLUSHALL", "BGREWRITEAOF"}
  MaxTime = 3
  MaxN = 2
  MaxSnapshots = 1
  MaxRestarts = 2
  MaxTail = 1
CHECK_DEADLOCK FALSE
INVARIANTS RecoversUnpurged
