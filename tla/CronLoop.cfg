SPECIFICATION LoopSpec
CONSTANTS
  Keys = {k1}
  MaxKeys = 0
  MaxMemory = 0
  Evicts = TRUE
  Incremental = TRUE
  AutoRewrite = TRUE
  SampleSize = 1
  Ops = {"SET", "FLUSHALL", "BGREWRITEAOF", "PSYNC", "SAVE"}
  MaxTime = 2
  MaxN = 0
  MaxSnapshots = 2
  MaxRestarts = 1
  MaxTail = 1
PROPERTIES  RewriteEnds StaleReclaimed
