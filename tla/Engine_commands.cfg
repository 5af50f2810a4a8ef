SPECIFICATION Spec
CONSTANTS
  Keys = {k1, k2, k3}
  MaxKeys = 2
  MaxMemory = 0
  Evicts = FALSE
  Incremental = TRUE
  AutoRewrite = FALSE
  SampleSize = 1
  Ops = {"GET", "KEYS", "SET", "MSET", "INCRBY", "RPUSH", "LPOP", "DEL", "GETDEL", "PEXPIREAT", "PERSIST", "RESTORE", "FLUSHALL"}
  MaxTime = 3
  MaxN = 2
  MaxSnapshots = 0
  MaxRestarts = 0
  MaxTail = 1
SYMMETRY Perms
INVARIANTS TypeOK IndexesAgree KeyLimit
