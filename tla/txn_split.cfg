\* Every script of up to five statements, fixed and fixed again.
SPECIFICATION FairSpec
CONSTANT MaxLen = 5
INVARIANTS
  TypeOK
  FixedScriptAccepted
  StatementsKept
  ModesAgree
  FixIsIdempotent
PROPERTY
  FixEnds
\* The program ends.
CHECK_DEADLOCK FALSE
