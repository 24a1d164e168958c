-------------------------------- MODULE MCFixSql --------------------------------
(* Instances of FixSql for TLC: every script that PostgreSQL takes over two     *)
(* alphabets that bring the statements of an idiom together; each statement the *)
(* rules know, after a table; and MySQL dumps, table by table and statement by  *)
(* statement.                                                                   *)
EXTENDS FixSql

Name(s, n) == [schema |-> s, name |-> n]
Column(t, n) ==
  [type |-> t, not_null |-> n, default |-> NoDefault, identity |-> {}, collate |-> "none",
   references |-> {}, literal |-> {}, inline |-> {}]
Inline(k, n) == [type |-> k, name |-> n]
ColumnWith(t, inline) == [Column(t, FALSE) EXCEPT !.inline = inline]
CreateTableWith(t, cs, constraints, clauses) ==
  [kind |-> "create_table", table |-> t, columns |-> cs, constraints |-> constraints, clauses |-> clauses]
TableOf(t, cs) == CreateTableWith(t, cs, {}, {})
SequenceOf(s, type, cache) == [kind |-> "create_sequence", sequence |-> s, type |-> type, cache |-> cache]
ChangeSequence(s, change, type, cache) ==
  [kind |-> "alter_sequence", sequence |-> s, change |-> change, type |-> type, cache |-> cache]
OwnSequence(s) == ChangeSequence(s, "owned_by", "none", CacheMissing)
UseSequence(s) == [kind |-> "use_sequence", sequence |-> s]
AlterWith(t, ops, async) == [kind |-> "alter_table", table |-> t, ops |-> ops, async |-> async]
AlterTable(t, ops) == AlterWith(t, ops, FALSE)
SetDefault(c, s) == [op |-> "set_default", column |-> c, sequence |-> s]
Constraint(k, n, c) == [type |-> k, name |-> n, column |-> c]
ForeignKey(n, c, t, match, enforced) ==
  [type |-> "foreign_key", name |-> n, column |-> c, target |-> t, match |-> match, enforced |-> enforced]
AddConstraint(c, not_valid) == [op |-> "add_constraint", constraint |-> c, not_valid |-> not_valid]
AddKey(k, c) == AddConstraint(Constraint(k, NoName, c), FALSE)
AddIdentityTo(c, cache) == [op |-> "add_identity", column |-> c, cache |-> cache]
AddColumn(c, definition) == [op |-> "add_column", column |-> c, definition |-> definition]
DumpIdentityOf(t, c, s, cache, options) ==
  [kind |-> "dump_identity", table |-> t, column |-> c, sequence |-> s, cache |-> cache, options |-> options]
SetCompression(t) == [kind |-> "set_compression", table |-> t]

T == Name("public", <<"t">>)
U == Name("public", <<"u">>)
BareT == Name(NoSchema, <<"t">>)
OtherT == Name("other", <<"t">>)
TSeq == Name("public", <<"t", "id", "seq">>)
BareTSeq == Name(NoSchema, <<"t", "id", "seq">>)
Seq1 == Name("public", <<"q", "x">>)

------------------------------------------------------------------------------
\* One or two tables, sequences of their own, shared or under another name.
SerialStatements ==
  {TableOf(T, [id |-> Column("integer", TRUE), k |-> Column("text", FALSE)]),
   TableOf(U, [id |-> [Column("bigint", FALSE) EXCEPT !.default = TSeq]]),
   SequenceOf(TSeq, "none", 1), SequenceOf(Seq1, "integer", CacheMissing),
   OwnSequence(TSeq), OwnSequence(BareTSeq), UseSequence(TSeq),
   AlterTable(T, <<SetDefault("id", TSeq)>>), AlterTable(T, <<SetDefault("k", TSeq)>>),
   AlterTable(BareT, <<SetDefault("id", Seq1)>>),
   AlterTable(T, <<SetDefault("k", TSeq), AddKey("unique", "k")>>),
   AlterTable(BareT, <<AddKey("primary_key", "id")>>)}

\* Tables of one name in two schemas, named with and without it.
FoldStatements ==
  {TableOf(n, [id |-> Column(b, TRUE), k |-> Column("bigint", FALSE)]) :
     n \in {T, BareT, OtherT}, b \in {"integer", "bigint"}}
  \cup {AlterTable(n, <<AddKey("unique", "k")>>) : n \in {T, BareT, OtherT}}
  \cup {AlterTable(T, <<AddKey("primary_key", "id")>>),
        AlterTable(BareT, <<AddColumn("z", Column("text", FALSE))>>), AlterTable(T, <<AddKey("unique", "z")>>),
        AlterTable(T, <<AddKey("unique", "k"), AddKey("primary_key", "k")>>),
        AlterTable(T, <<[op |-> "drop_constraint", name |-> <<"t", "pkey">>]>>),
        AlterTable(T, <<AddIdentityTo("id", 1)>>), AlterTable(BareT, <<AddIdentityTo("k", CacheMissing)>>),
        DumpIdentityOf(T, "id", TSeq, CacheMissing, "default"), DumpIdentityOf(T, "id", Seq1, 20, "default"),
        UseSequence(Seq1), SetCompression(BareT)}

\* The scripts of at most n statements that PostgreSQL takes.
Accepted(alphabet, n) ==
  LET upTo[k \in 0..n] ==
        IF k = 0 THEN {<<>>}
        ELSE {<<>>} \cup {s \in {Append(s, x) : s \in upTo[k - 1], x \in alphabet} : Run(Numbered(s)).ok}
  IN upTo[n]

------------------------------------------------------------------------------
\* What the rules look at: columns, clauses, constraints and operations.
Caches == {CacheMissing, CacheExpression, 0, 1, 2, 65535, 65536}
Identities == {{}} \cup {identity_with_cache(c) : c \in Caches}
Collations == {"none", "C", "icu"}
ExpressionCollations == Collations \cup {"default"}
ColumnTables ==
  {TableOf(T, [id |-> [Column(type, TRUE) EXCEPT !.identity = i, !.collate = c]]) :
     type \in {"integer", "bigint"}, i \in Identities, c \in Collations}
  \cup {TableOf(T, [id |-> [Column(type, TRUE) EXCEPT !.collate = c]]) :
     type \in {"text", "serial", "array", "numeric_wide"}, c \in Collations}
References_ ==
  {ForeignKey(n, "id", T, match, enforced) :
     n \in {NoName, <<"fk">>}, match \in {"simple", "full", "partial"},
     enforced \in {"default", "enforced", "not_enforced"}}
ReferenceTables ==
  {CreateTableWith(T, [id |-> Column("bigint", TRUE)], {f}, {}) : f \in References_}
  \cup {TableOf(T, [id |-> [Column("bigint", TRUE) EXCEPT !.references = {f}]]) : f \in References_}
Clauses == {t.clause : t \in Range(TableClauses)}
ClauseTables ==
  {CreateTableWith(T, [id |-> Column("bigint", TRUE)], {}, cs) : cs \in {cs \in SUBSET Clauses : Cardinality(cs) <= 3}}

Base(key) ==
  CreateTableWith(T, [id |-> Column("bigint", TRUE), k |-> Column("integer", FALSE)],
                  {Constraint("check", <<"positive">>, "k")} \cup key, {})
InlineBase(n) ==
  TableOf(T, [id |-> ColumnWith("bigint", {Inline("primary_key", n)}), k |-> ColumnWith("integer", {Inline("check", <<"positive">>)})])
Bases == {Base({}), Base({Constraint("primary_key", NoName, "id")}),
          Base({Constraint("primary_key", <<"main">>, "id")}), InlineBase(NoName), InlineBase(<<"main">>)}
Ops ==
  {AddColumn("z", c) :
     c \in {Column("text", FALSE), Column("bigint", TRUE), Column("serial", FALSE),
            [Column("text", FALSE) EXCEPT !.collate = "icu"],
            [Column("bigint", FALSE) EXCEPT !.literal = {[form |-> "number", value |-> "0"]}],
            ColumnWith("bigint", {Inline("unique", NoName)}), ColumnWith("bigint", {Inline("check", NoName)}),
            ColumnWith("bigint", {Inline("primary_key", NoName)}),
            [Column("bigint", FALSE) EXCEPT !.identity = identity_cache_1],
            [Column("bigint", FALSE) EXCEPT !.references = {ForeignKey(NoName, "z", T, "simple", "enforced")}]}}
  \cup {AddConstraint(Constraint("check", <<"c1">>, "k"), v) : v \in BOOLEAN}
  \cup {AddConstraint(ForeignKey(<<"f1">>, "k", T, "simple", e), v) : e \in {"default", "not_enforced"}, v \in BOOLEAN}
  \cup {AddConstraint(Constraint("primary_key_using_index", NoName, "id"), FALSE),
        AddKey("unique", "k"), AddIdentityTo("id", CacheMissing), AddIdentityTo("id", 20), AddIdentityTo("k", 1)}
  \cup {[op |-> "drop_constraint", name |-> n] : n \in {<<"main">>, <<"t", "pkey">>, <<"positive">>}}
  \cup {[op |-> o, column |-> c] : o \in {"drop_column", "set_type", "set_not_null"}, c \in {"id", "k"}}
  \cup {[op |-> o] : o \in {"row_level_security", "replica_identity", "rule"}}
  \cup {[op |-> "validate_constraint", name |-> n] : n \in {<<"positive">>, <<"c1">>}}
Altered == {<<b, AlterWith(T, <<o>>, a)>> : b \in Bases, o \in Ops, a \in BOOLEAN}
           \cup {<<b, AlterTable(T, <<o, p>>)>> : b \in Bases, o, p \in Ops}

Indexes ==
  {[kind |-> "create_index", table |-> T, name |-> <<"i">>, column |-> "k", async |-> a,
    concurrently |-> c, using |-> u, sort |-> s, volatile |-> v] :
     a, c, v \in BOOLEAN, u \in {"none", "btree", "hash"}, s \in {"none", "asc", "desc"}}
Sequences == {SequenceOf(TSeq, t, c) : t \in {"none", "bigint", "integer"}, c \in Caches}
SequenceChanges ==
  {ChangeSequence(TSeq, "options", t, c) : t \in {"none", "bigint", "integer"}, c \in Caches}
Others ==
  {[kind |-> k] : k \in DOMAIN UnsupportedStatements \cup (DsqlPlain \ {"query", "create_view", "use_sequence", "drop_table"})}
  \cup {[kind |-> "query", collate |-> c] : c \in ExpressionCollations}
  \cup {[kind |-> "create_view", temporary |-> t, collate |-> c] : t \in BOOLEAN, c \in ExpressionCollations}
  \cup {[kind |-> "alter_statistics", target |-> t] : t \in {"in_range", "out_of_range", StatisticsDefault}}
  \cup {[kind |-> k, level |-> l] : k \in {"begin", "set_session"},
                                    l \in {"none", "repeatable_read", "serializable"}}
  \cup {[kind |-> "drop_table", table |-> T, if_exists |-> TRUE]}

RuleScripts ==
  {s \in {<<t>> : t \in ColumnTables \cup ReferenceTables \cup ClauseTables \cup Sequences \cup Others}
         \cup Altered
         \cup {<<Base({}), i>> : i \in Indexes}
         \cup {<<SequenceOf(TSeq, "bigint", 1), c>> : c \in SequenceChanges}
         \cup {<<o, p>> : o \in Others, p \in {SequenceOf(TSeq, "none", CacheMissing)}} :
     Run(Numbered(s)).ok}

MCScripts == Accepted(SerialStatements, 5) \cup Accepted(FoldStatements, 4) \cup RuleScripts

\* A table whose identity the dump gives options.
MCIdentityScripts ==
  Accepted({TableOf(T, [id |-> Column("bigint", TRUE), k |-> Column("text", FALSE)]),
            AlterTable(T, <<AddKey("primary_key", "id")>>), AlterTable(T, <<AddKey("unique", "k")>>),
            SetCompression(T), DumpIdentityOf(T, "id", TSeq, 1, "default"),
            DumpIdentityOf(T, "id", TSeq, 1, "increment")}, 4)

------------------------------------------------------------------------------
MCLowered == [Users |-> "users"]

\* MySQL.  A column is as mysqldump writes it: a default fits its type.
MySqlColumn(type) ==
  [type |-> type, not_null |-> FALSE, literal |-> {}, auto_increment |-> FALSE, on_update |-> FALSE]
Default(form, value) == [form |-> form, value |-> value]
MySqlDefaults ==
  [tinyint_1 |-> {Default("string", "0"), Default("string", "7"), Default("number", "1")},
   bit_1 |-> {Default("bits", "1")}, bit |-> {Default("bits", "101")},
   int |-> {Default("string", "7"), Default("hex", "2"), Default("hex", "too_long")},
   datetime |-> {Default("expression", "now"), Default("string", "zero_date"), Default("string", "day")},
   date |-> {Default("string", "zero_date"), Default("null", "null")},
   binary |-> {Default("hex", "2"), Default("double_quoted", "x")},
   varchar |-> {Default("string", "x"), Default("double_quoted", "x")}, enum |-> {Default("string", "x")}]
\* A dump has no REAL: MySQL calls it DOUBLE.
MySqlTypes ==
  (DOMAIN MySql!Unsigned \ {"real_unsigned"}) \cup DOMAIN MySql!Spelled \cup {"enum", "set", "varchar", "bigint", "numeric", "date"}
MySqlTable(t, cs, constraints, seed) ==
  [kind |-> "create_table", table |-> Name(NoSchema, t), columns |-> cs, constraints |-> constraints, seed |-> seed]
Key(k, n, c, prefix) == [type |-> k, name |-> n, column |-> c, prefix |-> prefix]
MySqlReference(n, c, t) ==
  [type |-> "foreign_key", name |-> n, column |-> c, target |-> Name(NoSchema, t), match |-> "simple",
   enforced |-> "default"]

\* Two columns of any type, one of them with a default.
TypeTables ==
  {MySqlTable(<<"t">>, [a |-> MySqlColumn(x), b |-> [MySqlColumn(y) EXCEPT !.literal = {d}]], {}, "absent") :
     x \in MySqlTypes, <<y, d>> \in UNION {{<<y, d>> : d \in MySqlDefaults[y]} : y \in DOMAIN MySqlDefaults}}
  \cup {MySqlTable(<<"t">>, [a |-> [MySqlColumn(x) EXCEPT !.auto_increment = TRUE, !.not_null = TRUE],
                            b |-> [MySqlColumn("datetime") EXCEPT !.on_update = u]], {}, seed) :
          x \in {"int", "bigint_unsigned"}, u \in BOOLEAN, seed \in {"absent", "seed", "unusable"}}

\* Of each type a column.
MCTypeScripts == {<<MySqlTable(<<"t">>, [a |-> MySqlColumn(x)], {}, "absent")>> : x \in MySqlTypes}

TwoColumns == [id |-> [MySqlColumn("int") EXCEPT !.not_null = TRUE], name |-> MySqlColumn("varchar")]
KeySets ==
  SUBSET {Key("primary_key", NoName, "id", FALSE), Key("unique", <<"name">>, "name", TRUE),
          Key("index", <<"by", "name">>, "name", TRUE), Key("index", <<"id">>, "id", FALSE)}
TableNames == {<<"t">>, <<"Users">>, <<"order">>, <<"odd">>, <<"order", "item">>}
KeyTables == {MySqlTable(n, TwoColumns, ks, "absent") : n \in TableNames, ks \in KeySets}
ReferringTables ==
  {MySqlTable(<<"order", "item">>, TwoColumns, {MySqlReference(<<"fk">>, "id", <<"order">>)} \cup ks, "absent") :
     ks \in SUBSET {Key("index", <<"id">>, "id", FALSE), Key("fulltext", <<"ft">>, "name", FALSE)}}
OrderTables ==
  {MySqlTable(<<"order">>, TwoColumns, {Key("primary_key", NoName, "id", FALSE)} \cup ks, "absent") :
     ks \in SUBSET {Key("index", <<"item", "id">>, "id", FALSE), Key("unique", <<"name">>, "name", FALSE)}}

Unparsed(words, object) == [kind |-> "unparsable", words |-> words, object |-> object]
Noise ==
  {[kind |-> k] : k \in {"lock_tables", "unlock_tables", "set", "use", "insert", "update", "delete"}}
  \cup {Unparsed(<<"create", "table">>, "table"), Unparsed(<<"create", "temporary", "table">>, "table"),
        Unparsed(<<"create", "algorithm", "undefined", "view">>, "view"), Unparsed(<<"insert">>, "none")}
Drop(t) == [kind |-> "drop_table", table |-> Name(NoSchema, t), if_exists |-> TRUE]

MCMySqlScripts ==
  {<<t>> : t \in TypeTables \cup KeyTables}
  \cup {<<Drop(<<"Users">>), n, t>> : n \in Noise, t \in KeyTables}
  \cup {<<t, n, u>> : t \in OrderTables, n \in Noise, u \in ReferringTables}
  \cup {<<t, Drop(t.table.name), t>> : t \in KeyTables}
==============================================================================
