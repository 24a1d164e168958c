\* The status a synthesized SET reports inside a transaction.
SPECIFICATION Spec
CONSTANTS
  Queries <- TransactionQueries
  Names <- OneName
  Bodies <- SelectTexts
  AllowedParams <- TimeZone
  MaxOid = 1
  Capacity = 2
  MaxQueries = 2
INVARIANT
  StatusIsTrue
CHECK_DEADLOCK FALSE
