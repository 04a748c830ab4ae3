SPECIFICATION FairSpec
CONSTANTS
  Experiments <- MCExperiments
  n_pipelines = 3
  concurrency = 2
  Steps = 2
  MaxLaunches = 2
  MaxFaults = 2
  NoCheckpoint = NoCheckpoint
INVARIANTS
  TypeOK
  OwnCheckpoints
  QuietRoot
  PassIsEarned
PROPERTIES
  RunAllEnds
CHECK_DEADLOCK FALSE
