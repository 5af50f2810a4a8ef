SPECIFICATION Spec
CONSTANTS
  Fsync = "everysec"
  Faults = {"flush", "save", "snapshot"}
  MaxRecords = 3
  MaxGen = 3
  Ends = {"closed", "killed"}
  MaxEnds = 2
INVARIANT KilledRecovers
