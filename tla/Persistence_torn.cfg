SPECIFICATION Spec
CONSTANTS
  Fsync = "everysec"
  Faults = {}
  MaxRecords = 2
  MaxGen = 2
  Ends = {"closed", "power"}
  MaxEnds = 1
INVARIANT OlderAofsClean
