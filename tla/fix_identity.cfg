\* Expected to be violated: an identity that is folded loses its options.
SPECIFICATION Spec
CONSTANTS
  Scripts <- MCIdentityScripts
  MySqlScripts = {}
  DefaultSchema = "public"
  Lowered <- MCLowered
  Reserved = {"order"}
  Unquotable = {"odd"}
INVARIANT
  FixedIsEquivalent
CHECK_DEADLOCK FALSE
