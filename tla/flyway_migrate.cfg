\* Two concurrent processes, retry on, await off.
SPECIFICATION Spec
CONSTANTS
  m1 = m1
  m2 = m2
  Migrators <- TwoMigrators
  NumVersions = 2
  DdlVersions = {1}
  IndexVersions = {}
  IfNotExists = {}
  OccMaxRetries = 1
  AwaitAsync = FALSE
  MaxRuns = 1
  MaxRepairs = 1
  MaxRank = 10
SYMMETRY MigratorSymmetry
INVARIANTS
  TypeOK
  NothingCommittedToReplay
  ReportedVersionsStick
  QuietHistoryHasNoDuplicates
PROPERTY
  LedgerSpec
\* The processes stop when their runs are used up.
CHECK_DEADLOCK FALSE
