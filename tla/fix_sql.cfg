\* Every script, fixed and fixed again.
SPECIFICATION Spec
CONSTANTS
  Scripts <- MCScripts
  MySqlScripts <- MCMySqlScripts
  DefaultSchema = "public"
  Lowered <- MCLowered
  Reserved = {"order"}
  Unquotable = {"odd"}
INVARIANTS
  TypeOK
  SchemaKept
  StatementsKept
  ModesAgree
  FixIsIdempotent
  FixedIsAccepted
  EachIsAccepted
  TranslationKeepsTables
  DroppedIsTold
\* The program ends.
CHECK_DEADLOCK FALSE
