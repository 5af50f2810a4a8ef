SPECIFICATION Spec
CONSTANTS
  Fsync = "always"
  Faults = {"flush", "save", "snapshot"}
  MaxRecords = 3
  MaxGen = 3
  Ends = {"closed", "power"}
  MaxEnds = 2
INVARIANT AlwaysSurvives
