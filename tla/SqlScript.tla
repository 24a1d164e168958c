------------------------------ MODULE SqlScript ------------------------------
(***************************************************************************)
(* What the passes of dsql-lint's fix_sql share: the parts of a script, the *)
(* diagnostics, and the matching of names (src/dsql-lint/src/lint.rs,      *)
(* src/dsql-lint/src/rules/name_match.rs).                                 *)
(*                                                                         *)
(* Statements are abstract.  A name is a schema and the words that "_"     *)
(* joins, folded and unquoted, so that `{table}_{column}_seq` is a longer  *)
(* list of words; columns are single words.  A part is a statement and the *)
(* line it came from; the diagnostics of a statement have its line.        *)
(***************************************************************************)
EXTENDS Integers, FiniteSetsExt, SequencesExt, TLC

NoSchema == "(none)"
NoName == <<>>
NoDefault == [schema |-> "(no default)", name |-> NoName]

\* A CACHE clause that is not there, or is no integer.
CacheMissing == -1
CacheExpression == -2
IsCache(cache) == cache = 1 \/ cache >= 65536

\* GENERATED AS IDENTITY, as a set of at most one: its cache, and whether its
\* START, INCREMENT, MINVALUE, MAXVALUE or CYCLE is not the default.
identity_with_cache(cache) == {[cache |-> cache, options |-> "default"]}
identity_cache_1 == identity_with_cache(1)

\* The UNIQUE, PRIMARY KEY and CHECK that are written at a column.
InlineConstraints(columns) ==
  UNION {{[type |-> i.type, name |-> i.name, column |-> n] : i \in columns[n].inline} : n \in DOMAIN columns}

Fixed == "fixed"
Warned == "fixed_with_warning"
Unfixable == "unfixable"

Diagnostic(r, l, f) == [rule |-> r, line |-> l, fix_result |-> f]
Result(ps, ds) == [parts |-> ps, diagnostics |-> ds]

------------------------------------------------------------------------------
(* name_match.rs.                                                          *)

refs_match(a, b) ==
  /\ a.name = b.name
  /\ a.schema = NoSchema \/ b.schema = NoSchema \/ a.schema = b.schema

\* Bug: the first match, exact or not.
pick_best_match_First(refs, target) ==
  LET matches == {i \in DOMAIN refs : refs_match(refs[i], target)}
  IN IF matches # {} THEN {Min(matches)} ELSE {}

\* The first of these parts (a function to their names) whose name matches exactly,
\* else the first that matches with a schema missing: a set of at most one part.
pick_best_match(refs, target) ==
  LET matches == {i \in DOMAIN refs : refs_match(refs[i], target)}
      exact == {i \in matches : refs[i].schema # NoSchema /\ target.schema # NoSchema}
  IN IF exact # {} THEN {Min(exact)} ELSE IF matches # {} THEN {Min(matches)} ELSE {}

\* Bug: an index that is listed twice takes the next part with it.
drop_parts_NoDedup(ps, indices) ==
  FoldRight(LAMBDA i, rest : IF i \in DOMAIN rest THEN RemoveAt(rest, i) ELSE rest,
            SortSeq(indices, <), ps)

\* Removed from the end, each once, so that no removal shifts the next.
drop_parts(ps, indices) ==
  FoldLeft(LAMBDA rest, i : IF i \in Range(indices) THEN RemoveAt(rest, i) ELSE rest,
           ps, [k \in DOMAIN ps |-> Len(ps) + 1 - k])

OfKind(ps, k) == {i \in DOMAIN ps : ps[i].stmt.kind = k}
==============================================================================
