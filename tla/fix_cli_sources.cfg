\* Expected to be violated: one command overwrites an input of its own.
SPECIFICATION Spec
CONSTANTS
  Stems = {a}
  MaxSuffix = 1
  MaxInputs = 2
INVARIANT
  SourcesKept
CHECK_DEADLOCK FALSE
