\* The wait commits the migration half-way through the callback.
SPECIFICATION Spec
CONSTANTS
  m1 = m1
  m2 = m2
  Migrators <- TwoMigrators
  NumVersions = 1
  DdlVersions = {1}
  IndexVersions = {1}
  IfNotExists = {}
  OccMaxRetries = 1
  AwaitAsync = TRUE
  MaxRuns = 1
  MaxRepairs = 0
  MaxRank = 10
INVARIANT
  NothingCommittedToReplay
CHECK_DEADLOCK FALSE
