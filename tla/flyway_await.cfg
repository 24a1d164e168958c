\* Two concurrent processes create one index and wait for it, the second also over what the first left.
SPECIFICATION FairSpec
CONSTANTS
  m1 = m1
  m2 = m2
  Migrators <- TwoMigrators
  NumVersions = 1
  DdlVersions = {1}
  IndexVersions = {1}
  IfNotExists = {1}
  OccMaxRetries = 1
  AwaitAsync = TRUE
  MaxRuns = 1
  MaxRepairs = 1
  MaxRank = 12
INVARIANTS
  AwaitedIndexValid
  RollbackNeverDefeated
PROPERTY
  RunsTerminate
\* The processes stop when their runs are used up.
CHECK_DEADLOCK FALSE
