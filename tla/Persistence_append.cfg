SPECIFICATION Spec
CONSTANTS
  Fsync = "everysec"
  Faults = {"append"}
  MaxRecords = 2
  MaxGen = 1
  Ends = {"closed", "killed"}
  MaxEnds = 1
INVARIANT KilledRecovers
