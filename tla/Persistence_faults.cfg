SPECIFICATION Spec
CONSTANTS
  Fsync = "everysec"
  Faults = {"append", "flush", "fsync", "save", "fsync_dir", "snapshot"}
  MaxRecords = 2
  MaxGen = 3
  Ends = {"closed", "killed"}
  MaxEnds = 1
INVARIANTS TypeOK StartsAgain
