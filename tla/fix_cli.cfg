\* Every command over one stem, its fix and the fix of its fix, files and links,
\* with failures, kills and power losses.
SPECIFICATION Spec
CONSTANTS
  Stems = {a}
  MaxSuffix = 1
  MaxInputs = 2
INVARIANTS
  TypeOK
  FilesAreWhole
  SingleSourceKept
  SuccessIsWritten
  SummaryTellsFailure
\* The command ends.
CHECK_DEADLOCK FALSE
