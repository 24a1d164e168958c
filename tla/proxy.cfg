\* pg_dump's queries in any order, with drops, closes and cut streams.
SPECIFICATION FairSpec
CONSTANTS
  Queries <- DumpQueries
  Names <- OneName
  Bodies <- SelectTexts
  AllowedParams <- TimeZone
  MaxOid = 1
  Capacity = 2
  MaxQueries = 3
INVARIANT
  TypeOK
PROPERTIES
  DialogueSpec
  QueriesEnd
  ConnectionsEnd
\* A connection ends.
CHECK_DEADLOCK FALSE
