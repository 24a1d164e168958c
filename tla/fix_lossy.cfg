\* Expected to be violated: some types lose what they keep out without a warning.
SPECIFICATION Spec
CONSTANTS
  Scripts = {}
  MySqlScripts <- MCTypeScripts
  DefaultSchema = "public"
  Lowered <- MCLowered
  Reserved = {"order"}
  Unquotable = {"odd"}
INVARIANT
  LossyIsTold
CHECK_DEADLOCK FALSE
