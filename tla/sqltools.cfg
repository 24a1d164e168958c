\* Three calls of any operations: enough for two opens at once, for a close
\* under a query or a second close, and for a client that is given back while
\* another call uses it.
SPECIFICATION Spec
CONSTANTS
  MaxCalls = 3
  Pools = {p1, p2}
  Clients = {c1}
  None = None
INVARIANTS
  TypeOK
  ClientsAccounted
  PoolsAccounted
  CompletionsFill
PROPERTIES
  CallsEnd
\* Every call ends.
CHECK_DEADLOCK FALSE
