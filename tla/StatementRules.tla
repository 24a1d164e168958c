---------------------------- MODULE StatementRules ----------------------------
(***************************************************************************)
(* The rules of dsql-lint over a single statement                          *)
(* (src/dsql-lint/src/rules/errors.rs): what `check` reports of a statement *)
(* and what it makes of it, for lint and fix alike.                        *)
(*                                                                         *)
(* A statement holds what the rules look at and what DSQL tells apart.     *)
(* Every operator F that rewrites has a companion FFound, the reports it   *)
(* makes, in their order; the order among the columns and constraints of   *)
(* one table is left out.                                                  *)
(***************************************************************************)
EXTENDS SqlScript

Found(r, f) == [rule |-> r, fix_result |-> f]
Report(condition, r, f) == IF condition THEN <<Found(r, f)>> ELSE <<>>

\* The reports on each element of a set, or on each of a sequence.
OfEach(F(_), S) == FlattenSeq(LET seq == SetToSeq(S) IN [k \in DOMAIN seq |-> F(seq[k])])
InTurn(F(_), seq) == FlattenSeq([k \in DOMAIN seq |-> F(seq[k])])

------------------------------------------------------------------------------
(* Caches, foreign keys, columns.                                          *)

\* Bug: the hole between 1 and 65536 begins one later.
validate_cache_options_OffByOne(cache) == IF cache > 2 /\ ~IsCache(cache) THEN 1 ELSE cache

validate_cache_options(cache) == IF cache >= 0 /\ ~IsCache(cache) THEN 1 ELSE cache
CacheFound(r, cache) ==
  Report(cache >= 0 /\ ~IsCache(cache), r, Warned) \o Report(cache = CacheExpression, r, Unfixable)

\* Added where it is missing.
cache_1_option(cache) == IF cache = CacheMissing THEN 1 ELSE cache
CacheMissingFound(r, cache) == Report(cache = CacheMissing, r, Fixed)

check_foreign_key(f) == [f EXCEPT !.enforced = "default"]
ForeignKeyFound(f) ==
  Report(f.match = "partial", "ForeignKeyMatchPartial", Unfixable)
    \o Report(f.enforced = "enforced", "ForeignKeyEnforced", Fixed)
    \o Report(f.enforced = "not_enforced", "ForeignKeyEnforced", Warned)

\* SERIAL, of any width, becomes an identity, and an identity a bigint.
IdentityColumn(c) ==
  [c EXCEPT !.type = "bigint",
            !.identity = IF c.type = "serial" THEN identity_cache_1
                         ELSE {[i EXCEPT !.cache = validate_cache_options(@)] : i \in c.identity}]

\* Bug: the clause stays unless it names a C collation.
check_column_KeepsCollate(c, in_alter_table) ==
  LET typed == IF in_alter_table \/ (c.type # "serial" /\ c.identity = {}) THEN c ELSE IdentityColumn(c)
  IN [typed EXCEPT !.collate = IF @ = "C" THEN "none" ELSE @,
                   !.references = {check_foreign_key(f) : f \in @}]

check_column(c, in_alter_table) ==
  LET typed == IF in_alter_table \/ (c.type # "serial" /\ c.identity = {}) THEN c ELSE IdentityColumn(c)
  IN [typed EXCEPT !.collate = "none", !.references = {check_foreign_key(f) : f \in @}]

\* ADD COLUMN takes no identity, in whatever way it is written.
ColumnFound(c, in_alter_table) ==
  Report(c.type = "serial", "SerialType", IF in_alter_table THEN Unfixable ELSE Warned)
    \o Report(c.type = "array", "ArrayType", Unfixable)
    \o Report(c.type = "numeric_wide", "NumericBounds", Unfixable)
    \o (IF in_alter_table THEN Report(c.identity # {}, "IdentityType", Unfixable)
        ELSE Report(c.identity # {} /\ c.type \notin {"bigint", "serial"}, "IdentityType", Warned)
               \o OfEach(LAMBDA i : CacheFound("IdentityCache", i.cache), c.identity))
    \o OfEach(ForeignKeyFound, c.references)
    \o Report(c.collate # "none", "Collation", IF c.collate = "C" THEN Fixed ELSE Warned)

------------------------------------------------------------------------------
(* CREATE TABLE.                                                           *)

\* The clauses of a table, in the order in which they are looked for.
TableClauses ==
  <<[clause |-> "temporary", rule |-> "TempTable", fix_result |-> Warned],
    [clause |-> "partition_by", rule |-> "PartitionBy", fix_result |-> Warned],
    [clause |-> "inherits", rule |-> "Inherits", fix_result |-> Warned],
    [clause |-> "as_query", rule |-> "CreateTableAs", fix_result |-> Unfixable],
    [clause |-> "tablespace", rule |-> "Tablespace", fix_result |-> Warned],
    [clause |-> "storage", rule |-> "UnsupportedCreateTableWithStorageParameters", fix_result |-> Warned],
    [clause |-> "partition_of", rule |-> "UnsupportedPartitionOf", fix_result |-> Unfixable],
    [clause |-> "on_commit", rule |-> "UnsupportedOnCommit", fix_result |-> Warned]>>

check_identity_cache_missing(c) ==
  [c EXCEPT !.identity = {[i EXCEPT !.cache = cache_1_option(@)] : i \in @}]

check_constraint(c) == IF c.type = "foreign_key" THEN check_foreign_key(c) ELSE c

check_create_table(s) ==
  [s EXCEPT !.columns = [n \in DOMAIN @ |-> check_identity_cache_missing(check_column(@[n], FALSE))],
            !.constraints = {check_constraint(c) : c \in @},
            !.clauses = @ \ {t.clause : t \in {t \in Range(TableClauses) : t.fix_result = Warned}}]

CreateTableFound(s) ==
  LET foreignKeys == {c \in s.constraints : c.type = "foreign_key"}
      OfColumn(n) == ColumnFound(s.columns[n], FALSE)
      Cacheless(n) ==
        OfEach(LAMBDA i : CacheMissingFound("IdentityCacheMissing", i.cache), s.columns[n].identity)
  IN OfEach(OfColumn, DOMAIN s.columns) \o OfEach(ForeignKeyFound, foreignKeys)
       \o InTurn(LAMBDA t : Report(t.clause \in s.clauses, t.rule, t.fix_result), TableClauses)
       \o OfEach(Cacheless, DOMAIN s.columns)

------------------------------------------------------------------------------
(* ALTER TABLE, operation by operation.                                    *)

AddsConstraint(o, types) == o.op = "add_constraint" /\ o.constraint.type \in types

AlteredOperation(o) ==
  CASE o.op = "add_column" -> [o EXCEPT !.definition = check_column(@, TRUE)]
    [] AddsConstraint(o, {"foreign_key", "check"}) ->
         [o EXCEPT !.constraint = check_constraint(@), !.not_valid = TRUE]
    [] o.op = "add_identity" -> [o EXCEPT !.cache = cache_1_option(validate_cache_options(@))]
    [] OTHER -> o

check_alter_table(s) ==
  [s EXCEPT !.ops = [k \in DOMAIN @ |-> AlteredOperation(@[k])],
            !.async = @ \/ \E k \in DOMAIN s.ops : s.ops[k].op = "validate_constraint"]

\* check_alter_table, check_add_column_constraints and check_alter_table_operations
\* go through the operations one after another.
ColumnsAndConstraints(o, async) ==
  CASE o.op = "add_column" -> ColumnFound(o.definition, TRUE)
    [] AddsConstraint(o, {"foreign_key"}) ->
         ForeignKeyFound(o.constraint) \o Report(~o.not_valid, "ForeignKeyNotValid", Warned)
    [] AddsConstraint(o, {"check"}) -> Report(~o.not_valid, "CheckNotValid", Warned)
    [] AddsConstraint(o, {"primary_key_using_index"}) ->
         <<Found("AtUnsupportedPrimaryKeyUsingIndex", Unfixable)>>
    [] o.op = "row_level_security" -> <<Found("AtUnsupportedRowLevelSecurity", Unfixable)>>
    [] o.op = "replica_identity" -> <<Found("AtUnsupportedReplicaIdentity", Unfixable)>>
    [] o.op = "rule" -> <<Found("AtUnsupportedRewriteRule", Unfixable)>>
    [] o.op = "validate_constraint" -> Report(~async, "ValidateConstraintAsync", Warned)
    [] OTHER -> <<>>

AddedColumns(o) ==
  IF o.op # "add_column" THEN <<>>
  ELSE Report(o.definition.not_null \/ o.definition.default # NoDefault \/ o.definition.literal # {},
              "AddColumnConstraint", Unfixable)
         \o Report(o.definition.references # {}, "AddColumnConstraint", Unfixable)

Operations(o) ==
  CASE o.op = "set_type" -> <<Found("AtUnsupportedAlterColumnSetType", Unfixable)>>
    [] o.op = "set_not_null" -> <<Found("AtUnsupportedAlterColumnSetNotNull", Unfixable)>>
    [] AddsConstraint(o, {"unique"}) -> <<Found("AtUnsupportedAddUnique", Unfixable)>>
    [] AddsConstraint(o, {"primary_key"}) -> <<Found("AtUnsupportedAddPrimaryKey", Unfixable)>>
    [] o.op = "add_identity" ->
         CacheMissingFound("IdentityCacheMissing", o.cache) \o CacheFound("IdentityCache", o.cache)
    [] OTHER -> <<>>

AlterTableFound(s) ==
  InTurn(LAMBDA o : ColumnsAndConstraints(o, s.async), s.ops)
    \o InTurn(AddedColumns, s.ops) \o InTurn(Operations, s.ops)

------------------------------------------------------------------------------
(* Indexes, sequences, statistics, transactions.                           *)

check_create_index(s) ==
  [s EXCEPT !.concurrently = FALSE, !.async = TRUE, !.using = "none", !.sort = "none"]
CreateIndexFound(s) ==
  Report(s.concurrently, "IndexConcurrently", Warned)
    \o Report(~s.concurrently /\ ~s.async, "IndexAsync", Warned)
    \o Report(s.using # "none", "IndexUsing", IF s.using = "btree" THEN Fixed ELSE Warned)
    \o Report(s.sort # "none", "IndexSortDirection", IF s.sort = "asc" THEN Fixed ELSE Warned)
    \o Report(s.volatile, "IndexVolatileFunction", Unfixable)

check_sequence_type(type) == IF type = "none" THEN type ELSE "bigint"
SequenceTypeFound(type) == Report(type \notin {"none", "bigint"}, "SequenceType", Warned)

\* An ALTER SEQUENCE without a CACHE keeps the sequence's own.
check_alter_sequence(s) ==
  [s EXCEPT !.type = check_sequence_type(@), !.cache = validate_cache_options(@)]
AlterSequenceFound(s) == SequenceTypeFound(s.type) \o CacheFound("SequenceCache", s.cache)

check_create_sequence(s) ==
  [s EXCEPT !.type = check_sequence_type(@), !.cache = cache_1_option(validate_cache_options(@))]
CreateSequenceFound(s) ==
  AlterSequenceFound(s) \o CacheMissingFound("SequenceCacheMissing", s.cache)

\* SET STATISTICS DEFAULT is -1.
StatisticsDefault == "default"
check_statistics_target(s) == [s EXCEPT !.target = IF @ = StatisticsDefault THEN "in_range" ELSE @]
StatisticsFound(s) ==
  Report(s.target = StatisticsDefault, "StatisticsTarget", Fixed)
    \o Report(s.target = "out_of_range", "StatisticsTarget", Unfixable)

\* BEGIN and SET SESSION CHARACTERISTICS.
check_transaction_isolation(s) ==
  [s EXCEPT !.level = IF @ = "none" THEN @ ELSE "repeatable_read"]
TransactionFound(s) ==
  Report(s.level \notin {"none", "repeatable_read"}, "TransactionIsolation", Warned)

------------------------------------------------------------------------------
(* Statements that have no place in DSQL.                                  *)

\* check_unsupported_statements, in three parts.
UnsupportedCreates ==
  [materialized_view |-> "UnsupportedMaterializedView",
   create_trigger |-> "UnsupportedCreateTrigger", create_extension |-> "UnsupportedCreateExtension",
   create_function_plpgsql |-> "UnsupportedCreateFunctionNonSql",
   create_procedure |-> "UnsupportedCreateProcedure", create_database |-> "UnsupportedCreateDatabase",
   create_policy |-> "UnsupportedCreatePolicy", savepoint |-> "UnsupportedSavepoint",
   release_savepoint |-> "UnsupportedReleaseSavepoint",
   rollback_to_savepoint |-> "UnsupportedRollbackToSavepoint",
   declare_cursor |-> "UnsupportedDeclareCursor", create_type |-> "UnsupportedCreateType",
   create_server |-> "UnsupportedCreateServer"]

UnsupportedAlters ==
  [vacuum |-> "UnsupportedVacuum", alter_index |-> "UnsupportedAlterIndex",
   alter_view |-> "UnsupportedAlterViewAsQuery", copy_file |-> "UnsupportedCopyFromFile",
   lock_table |-> "UnsupportedLockTable", alter_aggregate |-> "UnsupportedAlterAggregate",
   alter_function_property |-> "UnsupportedAlterFunctionProperty",
   alter_policy |-> "UnsupportedAlterPolicy", alter_type |-> "UnsupportedAlterType",
   alter_role_property |-> "UnsupportedAlterRoleProperty", alter_role_set |-> "UnsupportedAlterRoleSet"]

UnsupportedSession ==
  [alter_user |-> "UnsupportedAlterUser", drop_materialized_view |-> "UnsupportedDropMaterializedView",
   drop_type |-> "UnsupportedDropType", listen |-> "UnsupportedListen",
   unlisten |-> "UnsupportedUnlisten", notify |-> "UnsupportedNotify", load |-> "UnsupportedLoad",
   prepare |-> "UnsupportedPrepare", deallocate_named |-> "UnsupportedDeallocate",
   discard |-> "UnsupportedDiscard", drop_trigger |-> "UnsupportedDropTrigger",
   drop_policy |-> "UnsupportedDropPolicy"]

\* check_truncate and check_transaction_isolation have these.
UnsupportedStatements ==
  UnsupportedCreates @@ UnsupportedAlters @@ UnsupportedSession
    @@ [truncate |-> "Truncate", set_transaction |-> "SetTransaction",
        set_isolation_parameter |-> "SetTransaction"]

\* An expression may name the default collation, and a column may not.
SupportedCollations == {"none", "C", "default"}

UnsupportedFound(s) ==
  CASE s.kind = "create_view" ->
         Report(s.temporary, "UnsupportedTempView", Warned)
           \o Report(s.collate \notin SupportedCollations, "Collation", Unfixable)
    [] s.kind = "query" -> Report(s.collate \notin SupportedCollations, "Collation", Unfixable)
    [] OTHER -> IF s.kind \notin DOMAIN UnsupportedStatements THEN <<>>
                ELSE <<Found(UnsupportedStatements[s.kind], Unfixable)>>

------------------------------------------------------------------------------
(* errors::check.                                                          *)

check(s) ==
  CASE s.kind = "create_table" -> check_create_table(s)
    [] s.kind = "alter_table" -> check_alter_table(s)
    [] s.kind = "create_index" -> check_create_index(s)
    [] s.kind = "create_sequence" -> check_create_sequence(s)
    [] s.kind = "alter_sequence" -> check_alter_sequence(s)
    [] s.kind = "alter_statistics" -> check_statistics_target(s)
    [] s.kind \in {"begin", "set_session"} -> check_transaction_isolation(s)
    [] s.kind = "create_view" -> [s EXCEPT !.temporary = FALSE]
    [] OTHER -> s

CheckFound(s) ==
  CASE s.kind = "create_table" -> CreateTableFound(s)
    [] s.kind = "alter_table" -> AlterTableFound(s)
    [] s.kind = "create_index" -> CreateIndexFound(s)
    [] s.kind = "create_sequence" -> CreateSequenceFound(s)
    [] s.kind = "alter_sequence" -> AlterSequenceFound(s)
    [] s.kind = "alter_statistics" -> StatisticsFound(s)
    [] s.kind \in {"begin", "set_session"} -> TransactionFound(s)
    [] OTHER -> UnsupportedFound(s)

\* What the PostgreSQL grammar does not take, pg_dump's two forms among it.
Parses(s) ==
  /\ s.kind \notin {"dump_identity", "set_compression", "unparsable"}
  /\ s.kind = "create_table" => \A c \in s.constraints : c.type # "fulltext"

\* A part that does not parse is reported and kept as it is.
check_statement(p) == IF Parses(p.stmt) THEN [p EXCEPT !.stmt = check(@)] ELSE p
StatementFound(p) ==
  LET found == IF Parses(p.stmt) THEN CheckFound(p.stmt) ELSE <<Found("ParseError", Unfixable)>>
  IN [k \in DOMAIN found |-> Diagnostic(found[k].rule, p.line, found[k].fix_result)]

check_statements(ps) ==
  Result([k \in DOMAIN ps |-> check_statement(ps[k])],
         FlattenSeq([k \in DOMAIN ps |-> StatementFound(ps[k])]))

------------------------------------------------------------------------------
(* check_primary_key_removals, over the whole script.                      *)

PrimaryKeys(s) == {c \in s.constraints \cup InlineConstraints(s.columns) : c.type = "primary_key"}

\* The name that PostgreSQL gives a primary key that has none.
ConstraintName(table, c) == IF c.name = NoName THEN table.name \o <<"pkey">> ELSE c.name

\* The last CREATE TABLE with a primary key before part i, of the table it alters.
Target(ps, i) ==
  LET tables == {k \in OfKind(ps, "create_table") :
                   /\ k < i
                   /\ PrimaryKeys(ps[k].stmt) # {}
                   /\ refs_match(ps[k].stmt.table, ps[i].stmt.table)}
  IN IF tables = {} THEN {} ELSE {Max(tables)}

Removes(o, create) ==
  \E c \in PrimaryKeys(create) :
    \/ o.op = "drop_constraint" /\ o.name = ConstraintName(create.table, c)
    \/ o.op = "drop_column" /\ o.column = c.column

check_primary_key_removals(ps) ==
  FlattenSeq([i \in DOMAIN ps |->
    IF i \notin OfKind(ps, "alter_table") THEN <<>>
    ELSE LET removals == {n \in DOMAIN ps[i].stmt.ops :
                            \E k \in Target(ps, i) : Removes(ps[i].stmt.ops[n], ps[k].stmt)}
         IN [n \in 1..Cardinality(removals) |-> Diagnostic("PrimaryKeyRemoval", ps[i].line, Unfixable)]])
==============================================================================
