------------------------------ MODULE MySqlDialect ------------------------------
(***************************************************************************)
(* The translation of a mysqldump into statements for PostgreSQL           *)
(* (src/dsql-lint/src/mysql.rs), before the rules for DSQL are applied to  *)
(* it.  A MySQL table has columns with MySQL's types and options, a seed,  *)
(* and KEYs among its constraints; a default is a form and a value.        *)
(* Columns are given by their names: backticks are modelled on the names   *)
(* of tables and constraints.                                              *)
(***************************************************************************)
EXTENDS SqlScript

CONSTANTS Lowered,     \* words with a capital letter, and what folding makes of each
          Reserved,    \* words that PostgreSQL reserves
          Unquotable   \* words with a quote behind a backslash

Found(r, f) == [rule |-> r, fix_result |-> f]
Report(condition, r) == IF condition THEN <<Found(r, Warned)>> ELSE <<>>

------------------------------------------------------------------------------
(* Identifiers.                                                            *)

\* Bug: the case of a name is not looked at.
is_bare_safe_ident_AnyCase(name) == Range(name) \cap Unquotable = {}

is_bare_safe_ident(name) == Range(name) \cap (DOMAIN Lowered \cup Unquotable) = {}
is_pg_reserved_word(name) == \E w \in Reserved : name = <<w>>
double_quotable(name) == Range(name) \cap Unquotable = {}
needs_double_quote(name) == ~is_bare_safe_ident(name) \/ is_pg_reserved_word(name)

\* A name that can be neither bare nor quoted keeps its backticks.
unquote_ident(name) ==
  [name |-> name,
   quote |-> IF ~needs_double_quote(name) THEN "bare" ELSE IF double_quotable(name) THEN "double" ELSE "backtick"]

\* What PostgreSQL reads: a set of at most one name.
PostgresReads(ident) ==
  CASE ident.quote = "double" -> {ident.name}
    [] ident.quote = "bare" /\ ident.name \notin {<<w>> : w \in Reserved} ->
         {[k \in DOMAIN ident.name |->
             IF ident.name[k] \in DOMAIN Lowered THEN Lowered[ident.name[k]] ELSE ident.name[k]]}
    [] OTHER -> {}

Emitted(name) == PostgresReads(unquote_ident(name))
Read(name) == CHOOSE n \in Emitted(name) : TRUE

\* {table}_{name}
qualify_index_ident(table, name) == table.name \o name

------------------------------------------------------------------------------
(* Types and defaults.                                                     *)

\* The next signed type, without the sign's constraint.
Unsigned ==
  [smallint_unsigned |-> "integer", int_unsigned |-> "bigint", bigint_unsigned |-> "numeric",
   double_unsigned |-> "double", float_unsigned |-> "float", real_unsigned |-> "real",
   decimal_unsigned |-> "numeric"]

Spelled ==
  [tinyint_1 |-> "boolean", bool |-> "boolean", bit_1 |-> "boolean",
   tinyint |-> "smallint", tinyint_unsigned |-> "smallint",
   mediumint |-> "integer", mediumint_unsigned |-> "integer", int |-> "integer", year |-> "integer",
   datetime |-> "timestamp", blob |-> "bytea", binary |-> "bytea", bit |-> "bytea", longtext |-> "text"]

normalize_data_type(type) ==
  CASE type \in DOMAIN Unsigned -> Unsigned[type]
    [] type \in DOMAIN Spelled -> Spelled[type]
    [] type = "enum" -> "varchar"
    [] type = "set" -> "text"
    [] OTHER -> type

TypeFound(type) ==
  Report(type \in DOMAIN Unsigned, "MysqlUnsignedWidened")
    \o Report(type = "enum", "MysqlEnumToVarchar") \o Report(type = "set", "MysqlSetToText")

recast_bool_default(l) ==
  CASE l.form \in {"boolean", "null"} -> {l}
    [] l.form \in {"number", "string", "bits", "hex"} /\ l.value \in {"0", "1"} ->
         {[form |-> "boolean", value |-> l.value]}
    [] OTHER -> {}

\* Bits and hex become the text form of bytea.
recast_bytea_default(l) ==
  CASE l.form = "null" -> {l}
    [] l.form \in {"bits", "hex"} -> {[form |-> "string", value |-> l.value]}
    [] OTHER -> {}

\* Hex is read as a number, if 64 bits hold it.
recast_hex_numeric_default(l) ==
  IF l.form # "hex" THEN {l}
  ELSE IF l.value = "too_long" THEN {} ELSE {[form |-> "number", value |-> l.value]}

has_zero_date_segment(l) == l.form = "string" /\ l.value = "zero_date"

\* The default of a column that has this type now: none if PostgreSQL would not
\* take it.
normalize_default(type, default) ==
  LET l == IF default.form = "double_quoted" THEN [default EXCEPT !.form = "string"] ELSE default
  IN CASE type = "boolean" -> recast_bool_default(l)
       [] type = "bytea" -> recast_bytea_default(l)
       [] type \in {"timestamp", "date", "time"} -> IF has_zero_date_segment(l) THEN {} ELSE {l}
       [] type \in {"smallint", "integer", "bigint", "numeric", "double", "float", "real"} ->
            recast_hex_numeric_default(l)
       [] OTHER -> {l}

------------------------------------------------------------------------------
(* CREATE TABLE.                                                           *)

\* The dump's seed, if a bigint holds it, is where the identity starts.
normalize_auto_increment(seed) ==
  [cache |-> 65536, options |-> IF seed = "seed" THEN "start" ELSE "default"]

\* An AUTO_INCREMENT column is a bigint identity, whatever its type and default.
normalize_column(c, seed) ==
  LET type == IF c.auto_increment THEN "bigint" ELSE normalize_data_type(c.type)
  IN [type |-> type, not_null |-> c.not_null, default |-> NoDefault,
      identity |-> IF c.auto_increment THEN {normalize_auto_increment(seed)} ELSE {},
      collate |-> "none", references |-> {}, inline |-> {},
      literal |-> IF c.auto_increment THEN {} ELSE UNION {normalize_default(type, l) : l \in c.literal}]

\* Bug: the default is judged by the type that the column had.
ColumnFound_OldType(c) ==
  LET kept == UNION {normalize_default(c.type, l) : l \in c.literal}
  IN (IF c.auto_increment THEN <<Found("MysqlAutoIncrementToIdentity", Warned)>> ELSE TypeFound(c.type))
       \o Report(~c.auto_increment /\ c.literal # {} /\ kept = {}, "MysqlInvalidDefaultDropped")
       \o Report(c.on_update, "MysqlOnUpdateDropped")

ColumnFound(c) ==
  LET kept == normalize_column(c, "absent").literal
  IN (IF c.auto_increment THEN <<Found("MysqlAutoIncrementToIdentity", Warned)>> ELSE TypeFound(c.type))
       \o Report(~c.auto_increment /\ c.literal # {} /\ kept = {}, "MysqlInvalidDefaultDropped")
       \o Report(c.on_update, "MysqlOnUpdateDropped")

\* KEYs are lifted; the prefix of a key's column is dropped.
Lifted(s) == {c \in s.constraints : c.type = "index"}

\* The name of a UNIQUE is its table's and its own.
ConstraintIdent(table, c) ==
  IF c.type \in {"unique", "index"} /\ c.name # NoName THEN qualify_index_ident(table, c.name) ELSE c.name

unquote_constraint(table, c) ==
  IF c.type = "foreign_key"
  THEN [type |-> c.type, name |-> Read(c.name), column |-> c.column,
        target |-> [c.target EXCEPT !.name = Read(@)], match |-> c.match, enforced |-> c.enforced]
  ELSE [type |-> c.type, name |-> Read(ConstraintIdent(table, c)), column |-> c.column]

ConstraintFound(c) ==
  Report(c.type \in {"unique", "index"} /\ c.name # NoName, "MysqlIndexRenamed")
    \o Report(c.type \in {"primary_key", "unique"} /\ c.prefix, "MysqlIndexPrefixDropped")

\* CREATE INDEX, which the rules make ASYNC.
lift_index(table, c) ==
  [kind |-> "create_index", table |-> [table EXCEPT !.name = Read(@)],
   name |-> Read(ConstraintIdent(table, c)), column |-> c.column,
   async |-> FALSE, concurrently |-> FALSE, using |-> "none", sort |-> "none", volatile |-> FALSE]

Unparsable == [kind |-> "unparsable"]
Readable(names) == \A n \in names : Emitted(n) # {}

normalize_table(s) ==
  LET inline == s.constraints \ Lifted(s)
  IN IF Readable({s.table.name} \cup {ConstraintIdent(s.table, c) : c \in inline}
                 \cup {c.target.name : c \in {c \in inline : c.type = "foreign_key"}})
     THEN [kind |-> "create_table", table |-> [s.table EXCEPT !.name = Read(@)],
           columns |-> [n \in DOMAIN s.columns |-> normalize_column(s.columns[n], s.seed)],
           constraints |-> {unquote_constraint(s.table, c) : c \in inline}, clauses |-> {}]
     ELSE Unparsable

IndexStatement(s, c) ==
  IF Readable({s.table.name, ConstraintIdent(s.table, c)}) THEN lift_index(s.table, c) ELSE Unparsable

TableFound(s) ==
  LET names == SetToSeq(DOMAIN s.columns)
      constraints == SetToSeq(s.constraints)
  IN FlattenSeq([k \in DOMAIN names |-> ColumnFound(s.columns[names[k]])])
       \o FlattenSeq([k \in DOMAIN constraints |-> ConstraintFound(constraints[k])])

normalize_statement(s) ==
  CASE s.kind = "drop_table" ->
         <<IF Readable({s.table.name}) THEN [s EXCEPT !.table.name = Read(@)] ELSE Unparsable>>
    [] s.kind = "create_table" ->
         LET keys == SetToSeq(Lifted(s))
         IN <<normalize_table(s)>> \o [k \in DOMAIN keys |-> IndexStatement(s, keys[k])]
    [] OTHER -> <<s>>

------------------------------------------------------------------------------
(* The statements of a dump.                                               *)

is_mysql_only_noise(s) == s.kind \in {"lock_tables", "unlock_tables", "set", "use"}
is_dml(s) == s.kind \in {"insert", "update", "delete"}

Modifiers ==
  {"temporary", "or", "replace", "if", "not", "exists", "definer", "sql", "security", "algorithm",
   "undefined", "merge", "invoker"}

\* The keywords of a statement that does not parse.
opens_create_table(words) ==
  \E k \in 2..Len(words) :
    words[1] = "create" /\ words[k] = "table" /\ \A j \in 2..(k - 1) : words[j] \in Modifiers

\* A statement that is no CREATE TABLE and does not parse is noise, too.
Translated(s) ==
  CASE s.kind = "unparsable" -> IF opens_create_table(s.words) THEN <<Unparsable>> ELSE <<>>
    [] is_mysql_only_noise(s) \/ is_dml(s) -> <<>>
    [] OTHER -> normalize_statement(s)

TranslationFound(s) ==
  CASE is_dml(s) -> <<Found("MysqlDataStatementDropped", Unfixable)>>
    [] s.kind = "create_table" -> TableFound(s)
    [] OTHER -> <<>>

\* What comes from a statement has its line.
fix_sql_mysql(ps) ==
  LET Parts(p) == LET out == Translated(p.stmt) IN [k \in DOMAIN out |-> [line |-> p.line, stmt |-> out[k]]]
      Diagnostics(p) == LET found == TranslationFound(p.stmt)
                        IN [k \in DOMAIN found |-> Diagnostic(found[k].rule, p.line, found[k].fix_result)]
  IN Result(FlattenSeq([k \in DOMAIN ps |-> Parts(ps[k])]),
            FlattenSeq([k \in DOMAIN ps |-> Diagnostics(ps[k])]))

\* Bug: the translation's diagnostics stay ahead of the others.
SortedByLine_Appended(ds, lines) == ds

\* The diagnostics of translation and rules, by line.
SortedByLine(ds, lines) ==
  FlattenSeq([l \in 1..lines |->
    FlattenSeq([k \in DOMAIN ds |-> IF ds[k].line = l THEN <<ds[k]>> ELSE <<>>])])

------------------------------------------------------------------------------
(* What a MySQL dump means: the tables it leaves.                           *)

\* Powers of two that bound the values of a type from below and from above.
Bits(low, high) == [low |-> low, high |-> high]
MySqlRange ==
  [tinyint |-> Bits(7, 7), tinyint_unsigned |-> Bits(0, 8), smallint |-> Bits(15, 15),
   smallint_unsigned |-> Bits(0, 16), mediumint |-> Bits(23, 23), mediumint_unsigned |-> Bits(0, 24),
   year |-> Bits(0, 12), int |-> Bits(31, 31), int_unsigned |-> Bits(0, 32), bigint |-> Bits(63, 63),
   bigint_unsigned |-> Bits(0, 64), float_unsigned |-> Bits(0, 128), real_unsigned |-> Bits(0, 1024),
   double_unsigned |-> Bits(0, 1024), decimal_unsigned |-> Bits(0, 216)]
PostgresRange ==
  [smallint |-> Bits(15, 15), integer |-> Bits(31, 31), bigint |-> Bits(63, 63),
   float |-> Bits(1024, 1024), real |-> Bits(128, 128), double |-> Bits(1024, 1024),
   numeric |-> Bits(65536, 65536)]

\* Every value that MySQL stores can be stored.
Holds(type, as) ==
  type \in DOMAIN MySqlRange =>
    /\ as \in DOMAIN PostgresRange
    /\ MySqlRange[type].low <= PostgresRange[as].low /\ MySqlRange[type].high <= PostgresRange[as].high

\* Keeps values out by the sign or by a list of values; a YEAR has no sign, either.
Restricts(type) == type \in {"enum", "set"} \/ (type \in DOMAIN MySqlRange /\ MySqlRange[type].low = 0)

MySqlTables(ps) ==
  FoldLeft(LAMBDA tables, p :
             CASE p.stmt.kind = "create_table" -> p.stmt.table :> p @@ tables
               [] p.stmt.kind = "drop_table" -> [t \in DOMAIN tables \ {p.stmt.table} |-> tables[t]]
               [] OTHER -> tables,
           <<>>, ps)
==============================================================================
