-------------------------------- MODULE Idioms --------------------------------
(***************************************************************************)
(* The passes of dsql-lint over several statements                         *)
(* (src/dsql-lint/src/rules/serial_idiom.rs, constraint_collapse.rs and    *)
(* identity_idiom.rs): each finds statements that belong together by the   *)
(* names they use, folds them into the CREATE TABLE and drops what it has  *)
(* folded.  A check reports what the fix of the same name would do, and    *)
(* rewrites nothing.                                                       *)
(***************************************************************************)
EXTENDS SqlScript

\* An ALTER TABLE with this operation and no other.
SoleOp(ps, op) ==
  {i \in OfKind(ps, "alter_table") : Len(ps[i].stmt.ops) = 1 /\ ps[i].stmt.ops[1].op = op}

\* The idioms at these parts, at most one at each, in the order of the script.
FoundAt(ps, alters, Idiom(_)) ==
  FlattenSeq([i \in DOMAIN ps |-> IF i \in alters THEN SetToSeq(Idiom(i)) ELSE <<>>])

\* The script with the idioms of each CREATE TABLE folded into it.
Rewritten(ps, idioms, Fold(_, _)) ==
  [t \in DOMAIN ps |->
     LET folded == {d \in Range(idioms) : d.table = t}
     IN IF folded = {} THEN ps[t] ELSE [ps[t] EXCEPT !.stmt = Fold(@, folded)]]

------------------------------------------------------------------------------
(* SERIAL: a table, its sequence and the default that links them.          *)

auto_sequence_name(table, column) == table \o <<column, "seq">>

\* The identity column's own sequence, which PostgreSQL names.
IdentitySequence(table, column) ==
  [schema |-> table.schema, name |-> auto_sequence_name(table.name, column)]

detect_serial_idioms(ps) ==
  LET Idiom(i) ==
        LET op == ps[i].stmt.ops[1]
            tables == {k \in OfKind(ps, "create_table") : op.column \in DOMAIN ps[k].stmt.columns}
        IN {[table |-> t, sequence |-> s, column |-> op.column, alter |-> i] :
              t \in pick_best_match([k \in tables |-> ps[k].stmt.table], ps[i].stmt.table),
              s \in pick_best_match([k \in OfKind(ps, "create_sequence") |-> ps[k].stmt.sequence],
                                    op.sequence)}
  IN FoundAt(ps, SoleOp(ps, "set_default"), Idiom)

make_identity_column(c) ==
  [c EXCEPT !.type = "bigint", !.default = NoDefault, !.identity = identity_cache_1]

is_sequence_ownership_change(stmt, sequence) ==
  /\ stmt.kind = "alter_sequence" /\ stmt.change \in {"owned_by", "owner_to"}
  /\ refs_match(stmt.sequence, sequence)

check_serial_idioms(ps) ==
  LET idioms == detect_serial_idioms(ps)
  IN [k \in DOMAIN idioms |->
        Diagnostic("SerialSequenceIdiom", ps[idioms[k].table].line, Warned)]

\* Statements that name the old sequence are reported, unless the identity's has
\* its name.
SerialDiagnostics(ps, d) ==
  LET line == ps[d.table].line
      renamed == IdentitySequence(ps[d.table].stmt.table, d.column) # ps[d.sequence].stmt.sequence
  IN (IF renamed THEN <<Diagnostic("SerialSequenceIdiom", line, Unfixable)>> ELSE <<>>)
       \o <<Diagnostic("SerialSequenceIdiom", line, Warned)>>

SerialRedundant(ps, d) ==
  <<d.sequence, d.alter>>
    \o SetToSeq({i \in DOMAIN ps :
                   is_sequence_ownership_change(ps[i].stmt, ps[d.sequence].stmt.sequence)})

FoldSequences(s, folded) ==
  [s EXCEPT !.columns = [n \in DOMAIN @ |->
     IF \E d \in folded : d.column = n THEN make_identity_column(@[n]) ELSE @[n]]]

fix_serial_idioms(ps) ==
  LET idioms == detect_serial_idioms(ps)
  IN Result(drop_parts(Rewritten(ps, idioms, FoldSequences),
                       FlattenSeq([k \in DOMAIN idioms |-> SerialRedundant(ps, idioms[k])])),
            FlattenSeq([k \in DOMAIN idioms |-> SerialDiagnostics(ps, idioms[k])]))

------------------------------------------------------------------------------
(* UNIQUE and PRIMARY KEY: constraint_collapse.rs.                         *)

Rule(type) == IF type = "unique" THEN "AlterAddUniqueCollapse" ELSE "AlterAddPrimaryKeyCollapse"

detect_constraints(ps, type) ==
  LET Idiom(i) ==
        {[table |-> t, constraint |-> ps[i].stmt.ops[1].constraint, alter |-> i] :
           t \in pick_best_match([k \in {k \in OfKind(ps, "create_table") : k < i} |-> ps[k].stmt.table],
                                 ps[i].stmt.table)}
  IN FoundAt(ps, {k \in SoleOp(ps, "add_constraint") : ps[k].stmt.ops[1].constraint.type = type}, Idiom)

check_constraints(ps, type) ==
  LET idioms == detect_constraints(ps, type)
  IN [k \in DOMAIN idioms |-> Diagnostic(Rule(type), ps[idioms[k].alter].line, Fixed)]

FoldConstraints(s, folded) == [s EXCEPT !.constraints = @ \cup {d.constraint : d \in folded}]

fix_constraints(ps, type) ==
  LET idioms == detect_constraints(ps, type)
  IN Result(drop_parts(Rewritten(ps, idioms, FoldConstraints), [k \in DOMAIN idioms |-> idioms[k].alter]),
            check_constraints(ps, type))

------------------------------------------------------------------------------
(* Identity: identity_idiom.rs.                                            *)

\* The closest CREATE TABLE before part i that matches and has the column.
Closest(ps, i, table, column) ==
  LET tables == {k \in OfKind(ps, "create_table") :
                   /\ k < i
                   /\ refs_match(ps[k].stmt.table, table)
                   /\ column \in DOMAIN ps[k].stmt.columns}
  IN IF tables = {} THEN {} ELSE {Max(tables)}

IsNotNull(ct, column) ==
  ct.columns[column].not_null
  \/ \E c \in ct.constraints \cup InlineConstraints(ct.columns) : c.type = "primary_key" /\ c.column = column

\* An ALTER ... ADD GENERATED that DSQL takes, on a column it does not.
IdentityTargetDiagnostics(ps, i, op) ==
  FlattenSeq(SetToSeq(
    {LET ct == ps[k].stmt IN
       (IF ct.columns[op.column].type = "bigint" THEN <<>>
        ELSE <<Diagnostic("IdentityType", ps[i].line, Unfixable)>>)
         \o (IF IsNotNull(ct, op.column) THEN <<>>
             ELSE <<Diagnostic("IdentityNotNull", ps[i].line, Unfixable)>>) :
       k \in Closest(ps, i, ps[i].stmt.table, op.column)}))

check_identity_alter_targets(ps) ==
  FlattenSeq([i \in DOMAIN ps |->
    IF i \notin OfKind(ps, "alter_table") THEN <<>>
    ELSE FlattenSeq([k \in DOMAIN ps[i].stmt.ops |->
           IF ps[i].stmt.ops[k].op # "add_identity" THEN <<>>
           ELSE IdentityTargetDiagnostics(ps, i, ps[i].stmt.ops[k])])])

\* A cache that is not there, or is no integer, is 1 without a word.
parse_cache(cache) == IF cache >= 0 THEN cache ELSE 1

\* pg_dump's form, which does not parse: it names the sequence.
detect_identity_adds(ps) ==
  LET Add(i) == {[table |-> t, alter |-> i, column |-> ps[i].stmt.column, cache |-> parse_cache(ps[i].stmt.cache)] :
                   t \in Closest(ps, i, ps[i].stmt.table, ps[i].stmt.column)}
  IN FoundAt(ps, OfKind(ps, "dump_identity"), Add)

\* The dump's setval names a sequence that the inline identity will not have.
setval_may_miss(stmt) == stmt.sequence.name # auto_sequence_name(stmt.table.name, stmt.column)

check_identity_adds(ps) ==
  LET adds == detect_identity_adds(ps)
  IN [k \in DOMAIN adds |->
        Diagnostic("IdentityAddGeneratedCollapse", ps[adds[k].alter].line,
                   IF setval_may_miss(ps[adds[k].alter].stmt) THEN Warned ELSE Fixed)]

\* The dump's cache is kept, the last one of a column; its other options are not.
FoldIdentities(s, folded) ==
  [s EXCEPT !.columns = [n \in DOMAIN @ |->
     LET adds == {a \in folded : a.column = n}
         last == CHOOSE a \in adds : \A b \in adds : b.alter <= a.alter
     IN IF adds = {} THEN @[n] ELSE [@[n] EXCEPT !.identity = identity_with_cache(last.cache)]]]

fix_identity_adds(ps) ==
  LET adds == detect_identity_adds(ps)
  IN Result(drop_parts(Rewritten(ps, adds, FoldIdentities), [k \in DOMAIN adds |-> adds[k].alter]),
            check_identity_adds(ps))

------------------------------------------------------------------------------
(* SET COMPRESSION, wherever it stands.                                    *)

check_set_compression(ps) ==
  FlattenSeq([i \in DOMAIN ps |->
    IF i \notin OfKind(ps, "set_compression") THEN <<>>
    ELSE <<Diagnostic("AlterColumnSetCompressionStrip", ps[i].line, Fixed)>>])

\* Bug: one at most.
fix_set_compression_First(ps) ==
  LET found == check_set_compression(ps)
  IN IF found = <<>> THEN Result(ps, <<>>)
     ELSE Result(drop_parts(ps, <<Min(OfKind(ps, "set_compression"))>>), <<found[1]>>)

fix_set_compression(ps) ==
  Result(drop_parts(ps, SetToSeq(OfKind(ps, "set_compression"))), check_set_compression(ps))
==============================================================================
