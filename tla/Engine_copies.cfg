SPECIFICATION Spec
CONSTANTS
  Keys = {k1, k2}
  MaxKeys = 0
  MaxMemory = 4
  Evicts = TRUE
  Incremental = TRUE
  AutoRewrite = FALSE
  SampleSize = 1
  Ops = {"RPUSH", "LPOP", "PEXPIREAT", "FLUSHALL", "BGREWRITEAOF", "SAVE", "PSYNC"}
  MaxTime = 2
  MaxN = 2
  MaxSnapshots = 2
  MaxRestarts = 0
  MaxTail = 1
SYMMETRY Perms
INVARIANTS PointInTime MemoryAccounted 
PROPERTIES CopyExact
