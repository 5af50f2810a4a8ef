SPECIFICATION FairSpec
CONSTANTS
  Fsync = "everysec"
  Faults = {}
  MaxRecords = 2
  MaxGen = 1
  Ends = {}
  MaxEnds = 0
PROPERTY EventuallySynced
