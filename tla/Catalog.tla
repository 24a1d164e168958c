-------------------------------- MODULE Catalog --------------------------------
(***************************************************************************)
(* What a script means: a reference interpreter of PostgreSQL's catalog    *)
(* (Run), and which statements Aurora DSQL takes of those that PostgreSQL  *)
(* takes (DsqlAccepts).  Neither is code of the repository; both are       *)
(* modelled from how the rules and the tests of dsql-lint speak of them.   *)
(***************************************************************************)
EXTENDS SqlScript

CONSTANT DefaultSchema   \* where PostgreSQL finds an unqualified name

Qualified(n) == IF n.schema = NoSchema THEN [n EXCEPT !.schema = DefaultSchema] ELSE n

EmptyCatalog == [ok |-> TRUE, tables |-> <<>>, sequences |-> {}, owned |-> {}, indexes |-> {}]
Refused(db) == [db EXCEPT !.ok = FALSE]

\* The sequence of an identity column of table t, as PostgreSQL names it.
IdentitiesOf(t, columns) ==
  {[schema |-> t.schema, name |-> t.name \o <<c, "seq">>] :
     c \in {c \in DOMAIN columns : columns[c].identity # {}}}

\* Keys are indexes, and indexes share a namespace with tables and sequences.
IndexesOf(t, constraints) ==
  {[schema |-> t.schema, name |-> c.name] :
     c \in {c \in constraints : c.type \in {"primary_key", "unique"} /\ c.name # NoName}}

Relations(db) ==
  DOMAIN db.tables \cup db.sequences \cup db.owned
    \cup {[schema |-> i.table.schema, name |-> i.name] : i \in db.indexes}
    \cup UNION {IndexesOf(t, db.tables[t].constraints) : t \in DOMAIN db.tables}

\* A literal is a number, a string (the type reads it), a boolean, a bit or hex
\* string, an expression that gives a timestamp, or null.
Numeric == {"smallint", "integer", "bigint", "numeric", "double", "float", "real"}
DatesAndTimes == {"timestamp", "date", "time"}
DefaultFits(type, literal) ==
  CASE literal.form = "null" -> TRUE
    [] type = "boolean" ->
         literal.form = "boolean" \/ (literal.form = "string" /\ literal.value \in {"0", "1"})
    [] type = "bytea" -> literal.form = "string"
    [] type \in DatesAndTimes ->
         literal.form = "expression" \/ (literal.form = "string" /\ literal.value # "zero_date")
    [] type \in Numeric -> literal.form \in {"number", "string"}
    [] OTHER -> literal.form = "string"

NotNull(t, column) ==
  t.columns[column].not_null
  \/ \E c \in t.constraints : c.type = "primary_key" /\ c.column = column

KeyName(t, c) ==
  CASE c.name # NoName -> c.name
    [] c.type = "primary_key" -> t.name \o <<"pkey">>
    [] c.type = "unique" -> t.name \o <<c.column, "key">>
    [] c.type = "check" -> t.name \o <<c.column, "check">>
    [] OTHER -> t.name \o <<c.column, "fkey">>

\* A constraint on columns that the table has, on a table that is there.
ConstraintAllowed(db, t, columns, constraints, c) ==
  /\ c.column \in columns
  /\ c.type = "primary_key" => \A d \in constraints : d.type # "primary_key"
  /\ c.type = "foreign_key" => c.match # "partial" /\ Qualified(c.target) \in DOMAIN db.tables \cup {t}
  /\ IndexesOf(t, {c}) \cap Relations(db) = {}
  /\ c.name # NoName => \A d \in constraints : d.name # c.name

\* Stored as DSQL has it: foreign keys are enforced, and C is the collation.  What is
\* written at a column is a constraint of its table.
Stored(c) == IF c.type = "foreign_key" /\ c.enforced = "enforced" THEN [c EXCEPT !.enforced = "default"] ELSE c
StoredColumn(c) ==
  [c EXCEPT !.default = Qualified(@), !.collate = IF @ = "C" THEN "none" ELSE @,
            !.references = {Stored(f) : f \in @}, !.inline = {},
            !.identity = {[i EXCEPT !.cache = IF @ = CacheMissing THEN 1 ELSE @] : i \in @}]

ColumnAllowed(db, t, c) ==
  /\ c.type # "numeric_wide"
  /\ c.default # NoDefault => Qualified(c.default) \in db.sequences \cup db.owned
  /\ \A l \in c.literal : DefaultFits(c.type, l)
  /\ c.identity # {} => c.type \in {"smallint", "integer", "bigint"} /\ c.default = NoDefault /\ c.literal = {}
  /\ \A f \in c.references : f.match # "partial" /\ Qualified(f.target) \in DOMAIN db.tables \cup {t}

------------------------------------------------------------------------------
(* ALTER TABLE, one operation after another.                               *)

OpAllowed(db, t, o) ==
  LET table == db.tables[t] IN
  CASE o.op = "add_constraint" ->
         ConstraintAllowed(db, t, DOMAIN table.columns, table.constraints, o.constraint)
    [] o.op = "set_default" ->
         /\ o.column \in DOMAIN table.columns
         /\ table.columns[o.column].identity = {}
         /\ Qualified(o.sequence) \in db.sequences \cup db.owned
    [] o.op = "add_identity" ->
         /\ o.column \in DOMAIN table.columns
         /\ table.columns[o.column].identity = {}
         /\ table.columns[o.column].default = NoDefault
         /\ table.columns[o.column].type \in {"integer", "bigint"}
         /\ NotNull(table, o.column)
    [] o.op = "add_column" ->
         /\ o.column \notin DOMAIN table.columns
         /\ ColumnAllowed(db, t, o.definition)
         /\ LET inline == InlineConstraints(o.column :> o.definition)
            IN \A c \in inline :
                 ConstraintAllowed(db, t, {o.column}, table.constraints \cup (inline \ {c}), c)
    [] o.op \in {"drop_column", "set_type", "set_not_null"} -> o.column \in DOMAIN table.columns
    [] o.op = "drop_constraint" -> \E c \in table.constraints : KeyName(t, c) = o.name
    [] o.op = "validate_constraint" ->
         \E c \in table.constraints : c.type \in {"check", "foreign_key"} /\ c.name = o.name
    [] OTHER -> TRUE

OpEffect(db, t, o) ==
  CASE o.op = "add_constraint" -> [db EXCEPT !.tables[t].constraints = @ \cup {Stored(o.constraint)}]
    [] o.op = "set_default" -> [db EXCEPT !.tables[t].columns[o.column].default = Qualified(o.sequence)]
    [] o.op = "add_identity" ->
         [db EXCEPT !.tables[t].columns[o.column].identity = identity_with_cache(o.cache),
                    !.owned = @ \cup {[schema |-> t.schema, name |-> t.name \o <<o.column, "seq">>]}]
    [] o.op = "add_column" ->
         [db EXCEPT !.tables[t].columns = o.column :> StoredColumn(o.definition) @@ @,
                    !.tables[t].constraints = @ \cup InlineConstraints(o.column :> o.definition),
                    !.owned = @ \cup IdentitiesOf(t, o.column :> o.definition)]
    [] o.op = "drop_column" ->
         [db EXCEPT !.tables[t].columns = [c \in DOMAIN @ \ {o.column} |-> @[c]],
                    !.tables[t].constraints = {c \in @ : c.column # o.column}]
    [] o.op = "drop_constraint" -> [db EXCEPT !.tables[t].constraints = {c \in @ : KeyName(t, c) # o.name}]
    [] o.op = "set_type" -> [db EXCEPT !.tables[t].columns[o.column].type = "text"]
    [] o.op = "set_not_null" -> [db EXCEPT !.tables[t].columns[o.column].not_null = TRUE]
    [] OTHER -> db

Alter(db, t, ops) ==
  FoldLeft(LAMBDA d, o : IF d.ok /\ OpAllowed(d, t, o) THEN OpEffect(d, t, o) ELSE Refused(d), db, ops)

------------------------------------------------------------------------------
(* The statements.                                                         *)

\* A table's constraints, one after another: one primary key, wherever it is written.
TableConstraints(s) == s.constraints \cup InlineConstraints(s.columns)
Constrainable(db, t, s) ==
  /\ \A c \in s.constraints \cap InlineConstraints(s.columns) : c.type # "primary_key"
  /\ \A c \in TableConstraints(s) :
       ConstraintAllowed(db, t, DOMAIN s.columns, TableConstraints(s) \ {c}, c) /\ IndexesOf(t, {c}) # {t}

CreateTable(db, s) ==
  LET t == Qualified(s.table) IN
  IF /\ t \notin Relations(db)
     /\ \A c \in DOMAIN s.columns : ColumnAllowed(db, t, s.columns[c])
     /\ Constrainable(db, t, s)
     /\ "on_commit" \in s.clauses => "temporary" \in s.clauses
     /\ "fulltext" \notin {c.type : c \in s.constraints}
  THEN [db EXCEPT
          !.tables = t :> [columns |-> [c \in DOMAIN s.columns |-> StoredColumn(s.columns[c])],
                           constraints |-> {Stored(c) : c \in TableConstraints(s)}] @@ @,
          !.owned = @ \cup IdentitiesOf(t, s.columns)]
  ELSE Refused(db)

DropTable(db, s) ==
  LET t == Qualified(s.table) IN
  IF t \in DOMAIN db.tables
  THEN [db EXCEPT !.tables = [u \in DOMAIN @ \ {t} |-> @[u]],
                  !.owned = @ \ IdentitiesOf(t, db.tables[t].columns),
                  !.indexes = {i \in @ : i.table # t}]
  ELSE IF s.if_exists THEN db ELSE Refused(db)

CreateIndex(db, s) ==
  LET t == Qualified(s.table) IN
  IF /\ t \in DOMAIN db.tables
     /\ s.column \in DOMAIN db.tables[t].columns
     /\ [schema |-> t.schema, name |-> s.name] \notin Relations(db)
  THEN [db EXCEPT !.indexes = @ \cup {[table |-> t, name |-> s.name, column |-> s.column]}]
  ELSE Refused(db)

DumpIdentity(db, s) ==
  LET t == Qualified(s.table) IN
  IF /\ t \in DOMAIN db.tables
     /\ OpAllowed(db, t, [op |-> "add_identity", column |-> s.column])
     /\ Qualified(s.sequence) \notin Relations(db)
  THEN [db EXCEPT !.tables[t].columns[s.column].identity = {[cache |-> s.cache, options |-> s.options]},
                  !.owned = @ \cup {Qualified(s.sequence)}]
  ELSE Refused(db)

CreateSequence(db, s) ==
  IF Qualified(s.sequence) \in Relations(db) THEN Refused(db)
  ELSE [db EXCEPT !.sequences = @ \cup {Qualified(s.sequence)}]

Require(db, condition) == IF condition THEN db ELSE Refused(db)

\* A statement that PostgreSQL takes leaves a catalog that is ok.
Execute(db, s) ==
  CASE ~db.ok -> db
    [] s.kind = "create_table" -> CreateTable(db, s)
    [] s.kind = "drop_table" -> DropTable(db, s)
    [] s.kind = "create_index" -> CreateIndex(db, s)
    [] s.kind = "create_sequence" -> CreateSequence(db, s)
    [] s.kind \in {"alter_sequence", "use_sequence"} ->
         Require(db, Qualified(s.sequence) \in db.sequences \cup db.owned)
    [] s.kind = "alter_table" ->
         IF Qualified(s.table) \in DOMAIN db.tables THEN Alter(db, Qualified(s.table), s.ops) ELSE Refused(db)
    [] s.kind = "dump_identity" -> DumpIdentity(db, s)
    [] s.kind = "set_compression" -> Require(db, Qualified(s.table) \in DOMAIN db.tables)
    [] s.kind = "unparsable" -> Refused(db)
    [] OTHER -> db

Run(ps) == FoldLeft(LAMBDA db, p : Execute(db, p.stmt), EmptyCatalog, ps)

------------------------------------------------------------------------------
(* Aurora DSQL takes these statements, in a database that PostgreSQL would  *)
(* have after the ones before.                                             *)

DsqlReference(f) == f.match # "partial" /\ f.enforced = "default"
DsqlConstraint(c) ==
  c.type \in {"primary_key", "unique", "check", "foreign_key"} /\ (c.type = "foreign_key" => DsqlReference(c))

DsqlColumn(c) ==
  /\ c.type \in Numeric \cup DatesAndTimes \cup {"boolean", "bytea", "text", "varchar"}
  /\ c.collate = "none"
  /\ \A i \in c.identity : c.type = "bigint" /\ IsCache(i.cache)
  /\ \A f \in c.references : DsqlReference(f)

\* An operation as it is written, and the table that it needs.
DsqlOperation(s, o) ==
  CASE o.op = "add_column" ->
         LET c == o.definition
         IN /\ DsqlColumn(c) /\ ~c.not_null
            /\ c.default = NoDefault /\ c.literal = {} /\ c.identity = {} /\ c.references = {}
    [] o.op = "add_constraint" ->
         o.constraint.type \in {"check", "foreign_key"} /\ o.not_valid /\ DsqlConstraint(o.constraint)
    [] o.op = "add_identity" -> IsCache(o.cache)
    [] o.op = "validate_constraint" -> s.async
    [] OTHER -> o.op \in {"set_default", "drop_column", "drop_constraint"}

DsqlTarget(table, s, o) ==
  CASE o.op = "add_identity" ->
         /\ o.column \in DOMAIN table.columns
         /\ table.columns[o.column].type = "bigint" /\ NotNull(table, o.column)
    [] o.op = "drop_column" -> \A c \in table.constraints : c.type = "primary_key" => c.column # o.column
    [] o.op = "drop_constraint" ->
         \A c \in table.constraints : c.type = "primary_key" => KeyName(s.table, c) # o.name
    [] OTHER -> TRUE

\* Kinds of statement that need nothing more.
DsqlPlain ==
  {"create_function_sql", "query", "copy_stdin", "alter_function_rename", "alter_role_rename",
   "deallocate_all", "drop_trigger_if_exists", "create_view", "rollback", "use_sequence", "drop_table"}

DsqlCollations == {"none", "C", "default"}

\* A statement of DSQL's dialect, but for what is written at a column that is added.
DsqlButForInline(s) ==
  CASE s.kind = "create_table" ->
         /\ s.clauses = {}
         /\ \A c \in DOMAIN s.columns : DsqlColumn(s.columns[c])
         /\ \A c \in s.constraints : DsqlConstraint(c)
    [] s.kind = "alter_table" -> \A k \in DOMAIN s.ops : DsqlOperation(s, s.ops[k])
    [] s.kind = "create_index" ->
         s.async /\ ~s.concurrently /\ s.using = "none" /\ s.sort = "none" /\ ~s.volatile
    [] s.kind = "create_sequence" -> s.type \in {"none", "bigint"} /\ IsCache(s.cache)
    [] s.kind = "alter_sequence" ->
         s.type \in {"none", "bigint"} /\ (s.cache = CacheMissing \/ IsCache(s.cache))
    [] s.kind = "alter_statistics" -> s.target = "in_range"
    [] s.kind \in {"begin", "set_session"} -> s.level \in {"none", "repeatable_read"}
    [] s.kind = "create_view" -> ~s.temporary /\ s.collate \in DsqlCollations
    [] s.kind = "query" -> s.collate \in DsqlCollations
    [] OTHER -> s.kind \in DsqlPlain

\* A column is added without a UNIQUE, PRIMARY KEY or CHECK of its own.
AddsNoInline(s) ==
  s.kind = "alter_table" =>
    \A k \in DOMAIN s.ops : s.ops[k].op = "add_column" => s.ops[k].definition.inline = {}

\* A statement of DSQL's dialect.
DsqlStatement(s) == DsqlButForInline(s) /\ AddsNoInline(s)

DsqlAccepts(db, s) ==
  /\ DsqlStatement(s)
  /\ s.kind = "alter_table" =>
       \A k \in DOMAIN s.ops : DsqlTarget(db.tables[Qualified(s.table)], s, s.ops[k])
==============================================================================
