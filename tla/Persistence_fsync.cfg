SPECIFICATION Spec
CONSTANTS
  Fsync = "always"
  Faults = {"fsync"}
  MaxRecords = 2
  MaxGen = 2
  Ends = {"closed", "power"}
  MaxEnds = 1
INVARIANT AlwaysSurvives
