--------------------------------- MODULE FixSql ---------------------------------
(***************************************************************************)
(* dsql-lint's fix_sql and fix_sql_mysql (src/dsql-lint/src/lint.rs,       *)
(* src/dsql-lint/src/mysql.rs): the passes in their order, each over what   *)
(* the ones before it have left, and lint_sql, which runs the same checks  *)
(* on the script as it is.  fix_ddl_transactions, the last pass, has a      *)
(* module of its own (TxnSplit).                                           *)
(***************************************************************************)
EXTENDS Idioms, StatementRules, Catalog

CONSTANTS Scripts,                        \* what PostgreSQL takes
          MySqlScripts,                   \* what MySQL takes
          Lowered, Reserved, Unquotable   \* the words of MySqlDialect

MySql == INSTANCE MySqlDialect

\* What the parsers give of a statement: the fields of its kind, finitely many columns
\* and constraints, and an ALTER TABLE's operations in a sequence.  Of words they are
\* those that the rules and the reference tell apart.
ColumnTypes ==
  Numeric \cup DatesAndTimes \cup {"boolean", "bytea", "text", "varchar", "serial", "array", "numeric_wide"}
ConstraintTypes == {"primary_key", "unique", "check", "foreign_key", "fulltext"}
ClauseNames == {t.clause : t \in Range(TableClauses)}
OperationKinds ==
  {"add_column", "add_constraint", "add_identity", "set_default", "validate_constraint", "drop_column",
   "drop_constraint", "set_type", "set_not_null", "row_level_security", "replica_identity", "rule"}
StatementKinds ==
  DOMAIN UnsupportedStatements \cup DsqlPlain
    \cup {"create_table", "alter_table", "create_index", "create_sequence", "alter_sequence", "alter_statistics",
          "begin", "set_session", "dump_identity", "set_compression", "unparsable"}

IsForeignKey(f) == {"match", "enforced"} \subseteq DOMAIN f
IsConstraint(c) ==
  "type" \in DOMAIN c /\ c.type \in ConstraintTypes /\ (c.type = "foreign_key" => IsForeignKey(c))
CacheOption == {cache \in Int : cache >= CacheExpression}
IsIdentity(i) == "cache" \in DOMAIN i /\ i.cache \in CacheOption
InlineTypes == {"primary_key", "unique", "check"}
IsColumn(c) ==
  /\ {"type", "not_null", "default", "literal", "identity", "collate", "references", "inline"} \subseteq DOMAIN c
  /\ c.type \in ColumnTypes
  /\ IsFiniteSet(c.identity) /\ IsFiniteSet(c.references)
  /\ (\A i \in c.identity : IsIdentity(i)) /\ \A f \in c.references : IsForeignKey(f)
  /\ \A i \in c.inline : {"type", "name"} \subseteq DOMAIN i /\ i.type \in InlineTypes
IsTable(s) ==
  /\ {"columns", "constraints"} \subseteq DOMAIN s
  /\ IsFiniteSet(DOMAIN s.columns) /\ IsFiniteSet(s.constraints)
IsCreateTable(s) ==
  /\ IsTable(s) /\ {"table", "clauses"} \subseteq DOMAIN s
  /\ \A n \in DOMAIN s.columns : IsColumn(s.columns[n])
  /\ \A c \in s.constraints : IsConstraint(c)
  /\ s.clauses \subseteq ClauseNames
IsOperation(o) ==
  /\ "op" \in DOMAIN o /\ o.op \in OperationKinds
  /\ o.op = "add_column" => "definition" \in DOMAIN o /\ IsColumn(o.definition)
  /\ o.op = "add_constraint" =>
       /\ {"constraint", "not_valid"} \subseteq DOMAIN o /\ o.constraint.type # "fulltext"
       /\ o.constraint.type = "primary_key_using_index" \/ IsConstraint(o.constraint)
  /\ o.op = "add_identity" => IsIdentity(o)
IsAlter(s) ==
  /\ {"table", "ops", "async"} \subseteq DOMAIN s
  /\ s.ops \in Seq(Range(s.ops)) /\ Len(s.ops) > 0 /\ \A o \in Range(s.ops) : IsOperation(o)
IsSequence(s) == {"sequence", "type"} \subseteq DOMAIN s /\ IsIdentity(s)
IsStatement(s) ==
  /\ "kind" \in DOMAIN s /\ s.kind \in StatementKinds
  /\ s.kind = "create_table" => IsCreateTable(s)
  /\ s.kind = "alter_table" => IsAlter(s)
  /\ s.kind = "create_index" => {"concurrently", "async", "using", "sort", "volatile"} \subseteq DOMAIN s
  /\ s.kind \in {"create_sequence", "alter_sequence"} => IsSequence(s)
  /\ s.kind = "dump_identity" => IsIdentity(s)
  /\ s.kind = "alter_statistics" =>
       "target" \in DOMAIN s /\ s.target \in {StatisticsDefault, "in_range", "out_of_range"}
  /\ s.kind \in {"begin", "set_session"} => "level" \in DOMAIN s
  /\ s.kind = "create_view" => {"temporary", "collate"} \subseteq DOMAIN s

\* MySQL's CREATE TABLE, when it does not parse, is known by its keywords.
MySqlColumnTypes == ColumnTypes \cup DOMAIN MySql!Unsigned \cup DOMAIN MySql!Spelled \cup {"enum", "set"}
IsMySqlTable(s) ==
  /\ IsTable(s)
  /\ \A n \in DOMAIN s.columns : s.columns[n].type \in MySqlColumnTypes
  /\ \A c \in s.constraints : c.type \in ConstraintTypes \cup {"index"}
IsMySqlStatement(s) ==
  CASE s.kind = "create_table" -> IsMySqlTable(s)
    [] s.kind = "unparsable" ->
         /\ s.words \in Seq(Range(s.words))
         /\ s.object = "table" =>
              \E k \in 2..Len(s.words) :
                /\ s.words[1] = "create" /\ s.words[k] = "table"
                /\ \A j \in 2..(k - 1) : s.words[j] \in {"or", "replace", "temporary"}
    [] MySql!is_mysql_only_noise(s) \/ MySql!is_dml(s) -> TRUE
    [] OTHER -> IsStatement(s)

ASSUME ScriptsAssumption ==
  /\ \A s \in Scripts : s \in Seq(Range(s)) /\ \A k \in DOMAIN s : IsStatement(s[k])
  /\ \A s \in MySqlScripts : s \in Seq(Range(s)) /\ \A k \in DOMAIN s : IsMySqlStatement(s[k])

VARIABLES source,       \* the statements of the file
          dialect,      \* the option --dialect
          input,        \* the parts before the first pass
          parts,        \* the parts, as rewritten so far
          pass,         \* the pass that comes next
          diagnostics,  \* what the passes reported
          run           \* the first run, or a second one on its output

vars == <<source, dialect, input, parts, pass, diagnostics, run>>

Passes ==
  <<"serial", "unique", "primary_key", "identity_targets", "identity_adds", "compression",
    "primary_key_removals", "statements", "sort", "done">>

Numbered(script) == [i \in DOMAIN script |-> [line |-> i, stmt |-> script[i]]]

Init ==
  /\ \/ dialect = "postgres" /\ source \in {Numbered(s) : s \in Scripts}
     \/ dialect = "mysql" /\ source \in {Numbered(s) : s \in MySqlScripts}
  /\ input = source
  /\ parts = source
  /\ pass = IF dialect = "mysql" THEN 0 ELSE 1
  /\ diagnostics = <<>>
  /\ run = "first"

Translate ==
  /\ pass = 0
  /\ input' = MySql!fix_sql_mysql(source).parts
  /\ parts' = input'
  /\ diagnostics' = MySql!fix_sql_mysql(source).diagnostics
  /\ pass' = 1
  /\ UNCHANGED <<source, dialect, run>>

Apply(name, result) ==
  /\ pass > 0 /\ Passes[pass] = name
  /\ parts' = result.parts
  /\ diagnostics' = diagnostics \o result.diagnostics
  /\ pass' = pass + 1
  /\ UNCHANGED <<source, dialect, input, run>>

FixSerialIdioms == Apply("serial", fix_serial_idioms(parts))
FixAlterAddUnique == Apply("unique", fix_constraints(parts, "unique"))
FixAlterAddPrimaryKey == Apply("primary_key", fix_constraints(parts, "primary_key"))
CheckIdentityAlterTargets ==
  Apply("identity_targets", Result(parts, check_identity_alter_targets(parts)))
FixIdentityAdds == Apply("identity_adds", fix_identity_adds(parts))
FixSetCompression == Apply("compression", fix_set_compression(parts))
CheckPrimaryKeyRemovals ==
  Apply("primary_key_removals", Result(parts, check_primary_key_removals(parts)))
CheckStatements == Apply("statements", check_statements(parts))

\* A translation's diagnostics are sorted with those of the passes.
SortDiagnostics ==
  /\ pass > 0 /\ Passes[pass] = "sort"
  /\ diagnostics' = IF dialect = "mysql" THEN MySql!SortedByLine(diagnostics, Len(source)) ELSE diagnostics
  /\ pass' = pass + 1
  /\ UNCHANGED <<source, dialect, input, parts, run>>

\* The command is run again on its own output.
Rerun ==
  /\ pass > 0 /\ Passes[pass] = "done" /\ run = "first"
  /\ source' = parts /\ input' = parts
  /\ dialect' = "postgres"
  /\ pass' = 1
  /\ diagnostics' = <<>>
  /\ run' = "second"
  /\ UNCHANGED parts

Next ==
  \/ Translate
  \/ FixSerialIdioms \/ FixAlterAddUnique \/ FixAlterAddPrimaryKey
  \/ CheckIdentityAlterTargets \/ FixIdentityAdds \/ FixSetCompression
  \/ CheckPrimaryKeyRemovals \/ CheckStatements \/ SortDiagnostics
  \/ Rerun

Spec == Init /\ [][Next]_vars

\* lint_sql's passes, which rewrite nothing.
lint_sql(ps) ==
  check_serial_idioms(ps) \o check_constraints(ps, "unique")
    \o check_constraints(ps, "primary_key") \o check_identity_alter_targets(ps)
    \o check_identity_adds(ps) \o check_set_compression(ps)
    \o check_primary_key_removals(ps) \o check_statements(ps).diagnostics

------------------------------------------------------------------------------
(* What is checked.                                                        *)

Done == pass > 0 /\ Passes[pass] = "done"
FirstDone == Done /\ run = "first"
Kept(i) == \E k \in DOMAIN parts : parts[k].line = input[i].line
Reported(l) == \E k \in DOMAIN diagnostics : diagnostics[k].line = l
Errors(ds) == {d \in Range(ds) : d.fix_result = Unfixable}
Diagnostics(r, f) == {d \in Range(diagnostics) : d.rule = r /\ d.fix_result = f}
ErrorAt(l) == \E d \in Errors(diagnostics) : d.line = l

\* The parts come from the file's lines in their order, no diagnostic points past
\* its end, and those of a MySQL dump come in the order of its lines.
TypeOK ==
  /\ dialect \in {"postgres", "mysql"} /\ run \in {"first", "second"}
  /\ pass \in 0..Len(Passes) /\ (pass = 0 => dialect = "mysql")
  /\ \A k \in DOMAIN parts : \E i \in DOMAIN source : source[i].line = parts[k].line
  /\ \A j, k \in DOMAIN parts : j < k => parts[j].line <= parts[k].line
  /\ \A k \in DOMAIN diagnostics : \E i \in DOMAIN source : source[i].line = diagnostics[k].line
  /\ Done /\ dialect = "mysql" =>
       \A j, k \in DOMAIN diagnostics : j < k => diagnostics[j].line <= diagnostics[k].line

\* A script in which names and columns are as a dump has them: of two tables with
\* one name, no ALTER is unqualified; pg_dump's identities name the schema of every
\* table; no sequence is used before the table that it fills exists; and a
\* key is on columns of the CREATE TABLE.
Namesakes ==
  {i \in OfKind(input, "create_table") :
     \E k \in OfKind(input, "create_table") \ {i} : input[k].stmt.table.name = input[i].stmt.table.name}

UniqueNames ==
  Namesakes = {} \/
    /\ \A i \in OfKind(input, "alter_table") : input[i].stmt.table.schema # NoSchema
    /\ OfKind(input, "dump_identity") = {}
       \/ \A i \in Namesakes : input[i].stmt.table.schema # NoSchema

UsedBy(s) ==
  CASE s.kind = "use_sequence" -> {s.sequence}
    [] s.kind = "create_table" -> {s.columns[c].default : c \in DOMAIN s.columns}
    [] s.kind = "alter_table" -> {s.ops[k].sequence : k \in {k \in DOMAIN s.ops : s.ops[k].op = "set_default"}}
    [] OTHER -> {}

TableBeforeUse ==
  \A d \in Range(detect_serial_idioms(input)) : \A i \in 1..d.table :
    \A s \in UsedBy(input[i].stmt) : ~refs_match(s, input[d.sequence].stmt.sequence)

OpsOf(i) == Range(input[i].stmt.ops)
ColumnsFromTheStart ==
  \A i, j \in OfKind(input, "alter_table") : \A o \in OpsOf(i), p \in OpsOf(j) :
    ~(o.op = "add_column" /\ AddsConstraint(p, {"primary_key", "unique"}) /\ p.constraint.column = o.column)

DumpShaped == UniqueNames /\ TableBeforeUse /\ ColumnsFromTheStart
DumpedAsDefault ==
  \A i \in OfKind(input, "dump_identity") : input[i].stmt.options = "default"

\* The user is told that a statement is not what it was.  SERIAL's warning, which
\* every fold of a sequence brings, is no more than that.
Told ==
  \E d \in Range(diagnostics) :
    d.fix_result = Unfixable \/ (d.fix_result = Warned /\ d.rule # "SerialSequenceIdiom")

\* Up to the identity that takes the place of a sequence, and to caches.
SameColumn(a, b) ==
  LET Uncached(c) == [c EXCEPT !.identity = {[i EXCEPT !.cache = 1] : i \in @}]
  IN Uncached(a) = Uncached(b) \/ (a.default # NoDefault /\ Uncached(b) = make_identity_column(a))

SameSchema(a, b) ==
  /\ DOMAIN a.tables = DOMAIN b.tables
  /\ a.indexes = b.indexes
  /\ \A t \in DOMAIN a.tables :
       /\ a.tables[t].constraints = b.tables[t].constraints
       /\ DOMAIN a.tables[t].columns = DOMAIN b.tables[t].columns
       /\ \A c \in DOMAIN a.tables[t].columns :
            SameColumn(a.tables[t].columns[c], b.tables[t].columns[c])

Equivalent == Run(parts).ok /\ SameSchema(Run(input), Run(parts))

\* A fixed dump runs, and builds the tables, columns, constraints, defaults and
\* indexes of the original, unless the user was told otherwise (all passes of
\* fix_statements together).
SchemaKept == FirstDone /\ DumpShaped /\ DumpedAsDefault /\ ~Told => Equivalent

\* What is reported as fixed is equivalent (dsql-lint/README.md), identities with
\* options among it.
FixedIsEquivalent == FirstDone /\ DumpShaped /\ ~Told => Equivalent

\* Statements leave the script only as part of an idiom: each ALTER that is gone is
\* reported at its line, or is wiring of a sequence of which some column became an
\* identity.  No table of a MySQL dump is lost without an error.
StatementsKept ==
  FirstDone =>
    /\ \A i \in DOMAIN input : Kept(i) \/
         LET s == input[i].stmt IN
           \/ s.kind \in {"alter_table", "dump_identity", "set_compression"} /\ Reported(input[i].line)
           \/ \E d \in Range(detect_serial_idioms(input)) :
                i \in {d.sequence, d.alter} \/ is_sequence_ownership_change(s, input[d.sequence].stmt.sequence)
    /\ dialect = "mysql" => \A i \in DOMAIN source :
         LET s == source[i].stmt IN
           s.kind \in {"insert", "update", "delete"} \/ (s.kind = "unparsable" /\ s.object = "table")
             => ErrorAt(source[i].line)

\* Lint and fix agree: they report the same idioms, although fix runs each pass on
\* what the ones before it have left; an error that lint reports and fix does not is
\* about a statement that fix folded, or about one that names what it folded; and an
\* error that fix reports and lint does not is about a name that changed, or about a
\* primary key that was folded.
Idiomatic == {"SerialSequenceIdiom", "AlterAddUniqueCollapse", "AlterAddPrimaryKeyCollapse",
              "IdentityAddGeneratedCollapse", "AlterColumnSetCompressionStrip"}
IsFixedIdiom(d) == d.rule \in Idiomatic /\ d.fix_result # Unfixable
PrimaryKeyFolded == \E d \in Range(diagnostics) : d.rule = "AlterAddPrimaryKeyCollapse"
ModesAgree ==
  FirstDone /\ dialect = "postgres" =>
    LET lint == lint_sql(input)
        Gone(l) == \A k \in DOMAIN parts : parts[k].line # l
    IN /\ SelectSeq(lint, IsFixedIdiom) = SelectSeq(diagnostics, IsFixedIdiom)
       /\ \A e \in Errors(lint) \ Errors(diagnostics) :
            Gone(e.line) \/ (e.rule = "IdentityNotNull" /\ PrimaryKeyFolded)
       /\ \A e \in Errors(diagnostics) \ Errors(lint) :
            e.rule = "SerialSequenceIdiom" \/ (e.rule = "PrimaryKeyRemoval" /\ PrimaryKeyFolded)

\* A second run changes nothing, finds nothing more to fix, and has no new error,
\* whichever dialect the first one read.
FixIsIdempotent ==
  Done /\ run = "second" => parts = input /\ \A d \in Range(diagnostics) : d.fix_result = Unfixable

\* A dump that is fixed without an error runs to its end, and DSQL takes each of its
\* statements, unless a warning tells of a sequence whose name is another now.  No dump
\* adds a column with a constraint of its own.
AddedBare == \A i \in DOMAIN input : AddsNoInline(input[i].stmt)
FixedIsAccepted ==
  FirstDone /\ dialect = "postgres" /\ DumpShaped /\ AddedBare /\ Errors(diagnostics) = {} =>
    /\ Run(parts).ok \/ Diagnostics("IdentityAddGeneratedCollapse", Warned) # {}
    /\ \A k \in DOMAIN parts : DsqlAccepts(Run(SubSeq(parts, 1, k - 1)), parts[k].stmt)

\* Of any script, a dump or not, in either dialect: what DSQL does not take of a
\* statement, a rule rewrites or reports, but for the UNIQUE, PRIMARY KEY and CHECK of a
\* column that an ALTER TABLE adds.  No rule looks at these; no pass writes one, either:
\* they stand where the input has them.
EachIsAccepted ==
  Done /\ Errors(diagnostics) = {} =>
    \A k \in DOMAIN parts :
      /\ DsqlButForInline(parts[k].stmt)
      /\ AddsNoInline(parts[k].stmt)
         \/ \E i \in DOMAIN input : input[i].line = parts[k].line /\ ~AddsNoInline(input[i].stmt)

------------------------------------------------------------------------------
(* MySQL.                                                                  *)

Tables == MySql!MySqlTables(source)
Translating == FirstDone /\ dialect = "mysql"

\* Names that a dump brings together.
EmittedNames ==
  [k \in {k \in DOMAIN parts : parts[k].stmt.kind = "create_index"} |-> parts[k].stmt.name]
UniquesOf(s) == {c.name : c \in {c \in s.constraints : c.type = "unique" /\ c.name # NoName}}
NamesStayUnique ==
  Translating =>
    /\ \A j, k \in DOMAIN EmittedNames : EmittedNames[j] = EmittedNames[k] => j = k
    /\ \A k \in DOMAIN EmittedNames : \A t \in OfKind(parts, "create_table") :
         EmittedNames[k] \notin {parts[t].stmt.table.name} \cup UniquesOf(parts[t].stmt)
    /\ \A t, u \in OfKind(parts, "create_table") :
         /\ t # u => UniquesOf(parts[t].stmt) \cap UniquesOf(parts[u].stmt) = {}
         /\ parts[u].stmt.table.name \notin UniquesOf(parts[t].stmt)

Keys(constraints, types) == {<<c.type, c.column>> : c \in {c \in constraints : c.type \in types}}
References(constraints) ==
  {<<c.column, c.target.name>> : c \in {c \in constraints : c.type = "foreign_key"}}

SameTable(db, t) ==
  LET mysql == Tables[t].stmt
      table == db.tables[Qualified(t)]
  IN /\ DOMAIN table.columns = DOMAIN mysql.columns
     /\ Keys(table.constraints, {"primary_key", "unique"}) = Keys(mysql.constraints, {"primary_key", "unique"})
     /\ References(table.constraints) = References(mysql.constraints)
     /\ {i.column : i \in {i \in db.indexes : i.table = Qualified(t)}}
          = {c.column : c \in {c \in mysql.constraints : c.type = "index"}}
     /\ \A n \in DOMAIN mysql.columns :
          LET c == mysql.columns[n]
              d == table.columns[n]
          IN /\ d.not_null = c.not_null
             /\ (d.identity # {}) = c.auto_increment
             /\ \A i \in d.identity : (i.options = "start") = (mysql.seed = "seed")
             /\ ~c.auto_increment => MySql!Holds(c.type, d.type)
             /\ \A l \in d.literal : \E m \in c.literal : m.value = l.value

\* A dump that is translated without an error about a table runs on DSQL and
\* leaves the tables of the dump, under their names, with their keys, foreign keys,
\* indexes, identities and seeds, types that hold every value, and the same default
\* where one is left (normalize_statement and the rules after it).
TranslationKeepsTables ==
  Translating /\ NamesStayUnique /\ (\A e \in Errors(diagnostics) : e.rule = "MysqlDataStatementDropped") =>
    LET db == Run(parts) IN
      /\ db.ok
      /\ DOMAIN db.tables = {Qualified(t) : t \in DOMAIN Tables}
      /\ \A t \in DOMAIN Tables : SameTable(db, t)
      /\ \A k \in DOMAIN parts : DsqlAccepts(Run(SubSeq(parts, 1, k - 1)), parts[k].stmt)

\* What a table loses on the way, by the rule that tells of it: a counter, a list of
\* values, a default, an update on write, a name, the prefix of a key.
Lost(i) ==
  LET s == source[i].stmt
      db == Run(parts)
      t == Qualified(s.table)
      Left(n) == db.tables[t].columns[n]
      Names == {x.name : x \in {x \in db.indexes : x.table = t} \cup db.tables[t].constraints}
      Plain == {n \in DOMAIN s.columns : ~s.columns[n].auto_increment}
  IN [MysqlAutoIncrementToIdentity |-> DOMAIN s.columns \ Plain,
      MysqlEnumToVarchar |-> {n \in Plain : s.columns[n].type = "enum" /\ Left(n).type # "enum"},
      MysqlSetToText |-> {n \in Plain : s.columns[n].type = "set" /\ Left(n).type # "set"},
      MysqlInvalidDefaultDropped |-> {n \in Plain : s.columns[n].literal # {} /\ Left(n).literal = {}},
      MysqlOnUpdateDropped |-> {n \in DOMAIN s.columns : s.columns[n].on_update},
      MysqlIndexRenamed |-> {c \in s.constraints : c.type \in {"unique", "index"} /\ c.name \notin Names},
      MysqlIndexPrefixDropped |-> {c \in s.constraints : c.type \in {"primary_key", "unique"} /\ c.prefix}]

ToldAt(i, rules) == {k \in DOMAIN diagnostics : diagnostics[k].line = i /\ diagnostics[k].rule \in rules}
TableLines == {Tables[t].line : t \in DOMAIN Tables}

\* What the database does not have of a dump's table is told, at the table's line, each
\* loss by its rule, and nothing is told that was not lost (normalize_statement's
\* warnings against what all the passes leave).
DroppedIsTold ==
  Translating /\ Run(parts).ok =>
    \A i \in TableLines : \A rule \in DOMAIN Lost(i) :
      Cardinality(Lost(i)[rule]) = Cardinality(ToldAt(i, {rule}))

\* "A lossy translation (e.g. enum -> VARCHAR, unsigned -> signed) emits a WARNING"
\* (dsql-lint/README.md): each column whose new type takes what MySQL's kept out.
LossyIsTold ==
  Translating =>
    \A i \in TableLines :
      LET columns == source[i].stmt.columns
          loosened == {n \in DOMAIN columns : ~columns[n].auto_increment /\ MySql!Restricts(columns[n].type)}
      IN Cardinality(loosened)
           <= Cardinality(ToldAt(i, {"MysqlUnsignedWidened", "MysqlEnumToVarchar", "MysqlSetToText"}))
==============================================================================
