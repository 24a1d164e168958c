--------------------------- MODULE FixSqlOutputProofs ---------------------------
(***************************************************************************)
(* What FixSql writes, for scripts of any length.                          *)
(*                                                                         *)
(* A second run changes nothing and finds nothing more to fix: what a pass *)
(* is after is gone once it has run, no later pass brings it back, and the *)
(* rules settle a statement at once.  Without an error every statement is  *)
(* one of DSQL's: what a rule does not rewrite it reports.                 *)
(***************************************************************************)
EXTENDS FixSqlProofs

------------------------------------------------------------------------------
(* Reports of nothing but errors.                                          *)

\* Of findings or diagnostics.
OnlyErrors(ds) == IsSeq(ds) /\ \A d \in Range(ds) : d.fix_result = Unfixable

LEMMA NoErrors == OnlyErrors(<<>>)
BY EmptyIsSeq DEF OnlyErrors

LEMMA OneError ==
  ASSUME NEW d, d.fix_result = Unfixable
  PROVE  OnlyErrors(<<d>>)
BY SingletonIsSeq DEF OnlyErrors

LEMMA ErrorsConcat ==
  ASSUME NEW s, NEW t, OnlyErrors(s), OnlyErrors(t)
  PROVE  OnlyErrors(s \o t)
<1>1. IsSeq(s \o t) /\ Range(s \o t) = Range(s) \cup Range(t)
  BY ConcatIsSeq DEF OnlyErrors
<1> DEFINE st == s \o t
<1> HIDE DEF st
<1>2. OnlyErrors(st)
  BY <1>1 DEF OnlyErrors, st
<1> QED  BY <1>2 DEF st

LEMMA ErrorsFlattened ==
  ASSUME NEW n \in Nat, NEW seqs, seqs = [k \in 1..n |-> seqs[k]], \A k \in 1..n : OnlyErrors(seqs[k])
  PROVE  OnlyErrors(FlattenSeq(seqs))
<1> DEFINE flat == FlattenSeq(seqs)
<1>1. IsSeq(seqs) /\ Len(seqs) = n
  BY FunctionIsSeq
<1>2. Flattened(flat, n, seqs)
  BY <1>1, FlattenSeqIs DEF OnlyErrors
<1> HIDE DEF flat
<1>3. PICK b \in [1..Len(flat) -> 1..n] : \A j \in 1..Len(flat) : flat[j] \in Range(seqs[b[j]])
  BY <1>2 DEF Flattened
<1>4. ASSUME NEW d \in Range(flat)
      PROVE  d.fix_result = Unfixable
  <2>1. PICK j \in 1..Len(flat) : flat[j] = d
    BY <1>2, SeqFacts DEF Flattened
  <2>2. b[j] \in 1..n /\ d \in Range(seqs[b[j]])
    BY <1>3, <2>1
  <2> QED  BY <2>2 DEF OnlyErrors
<1> QED  BY <1>2, <1>4 DEF OnlyErrors, Flattened, flat

LEMMA ReportErrors ==
  ASSUME NEW c, NEW r, NEW f, c => f = Unfixable
  PROVE  OnlyErrors(Report(c, r, f))
<1>1. f = Unfixable => OnlyErrors(<<Found(r, f)>>)
  BY OneError DEF Found
<1> QED  BY <1>1, NoErrors, Zenon DEF Report

\* Nothing flattened is nothing.
LEMMA FlattenedNothing ==
  ASSUME NEW n \in Nat, NEW seqs, seqs = [k \in 1..n |-> seqs[k]], \A k \in 1..n : seqs[k] = <<>>
  PROVE  FlattenSeq(seqs) = <<>>
<1> DEFINE flat == FlattenSeq(seqs)
<1>1. IsSeq(seqs) /\ Len(seqs) = n /\ \A k \in 1..n : IsSeq(seqs[k]) /\ Range(seqs[k]) = {}
  BY FunctionIsSeq, EmptyIsSeq
<1>2. Flattened(flat, n, seqs)
  BY <1>1, FlattenSeqIs
<1> HIDE DEF flat
<1>3. PICK b \in [1..Len(flat) -> 1..n] : \A j \in 1..Len(flat) : flat[j] \in Range(seqs[b[j]])
  BY <1>2 DEF Flattened
<1>4. Len(flat) \in Nat /\ flat \in Seq(Range(flat))
  BY <1>2, SeqFacts DEF Flattened, IsSeq
<1>5. \A j \in 1..Len(flat) : FALSE
  BY <1>1, <1>3
<1>6. flat = <<>>
  BY <1>4, <1>5
<1> QED  BY <1>6 DEF flat

------------------------------------------------------------------------------
(* The rules settle a statement.                                           *)

SameFunction(f, g) ==
  /\ f = [x \in DOMAIN f |-> f[x]] /\ g = [x \in DOMAIN g |-> g[x]]
  /\ DOMAIN f = DOMAIN g /\ \A x \in DOMAIN f : f[x] = g[x]
LEMMA Extensional ==
  ASSUME NEW f, NEW g, SameFunction(f, g)
  PROVE  f = g
BY DEF SameFunction

\* A CACHE that the rules leave alone, and report, if at all, as an error.
Settled(cache) == cache \in Int /\ cache # CacheMissing /\ (cache < 0 \/ IsCache(cache))

LEMMA CacheSettles ==
  ASSUME NEW cache \in CacheOption
  PROVE  Settled(cache_1_option(validate_cache_options(cache)))
BY DEF CacheOption, Settled, cache_1_option, validate_cache_options, CacheMissing, IsCache

LEMMA SettledCache ==
  ASSUME NEW cache, Settled(cache)
  PROVE  validate_cache_options(cache) = cache /\ cache_1_option(cache) = cache
BY DEF Settled, cache_1_option, validate_cache_options, CacheMissing, IsCache

LEMMA SettledCacheFound ==
  ASSUME NEW cache, Settled(cache), NEW r
  PROVE  OnlyErrors(CacheFound(r, cache)) /\ OnlyErrors(CacheMissingFound(r, cache))
<1>1. ~(cache >= 0 /\ ~IsCache(cache)) /\ ~(cache = CacheMissing)
  BY DEF Settled, IsCache
<1> QED  BY <1>1, ReportErrors, ErrorsConcat DEF CacheFound, CacheMissingFound

\* A column that check_column, and check_identity_cache_missing in CREATE TABLE,
\* leave alone.
SettledKeys(S) == \A f \in S : f.enforced = "default" /\ check_foreign_key(f) = f
SettledIdentities(S) ==
  \A i \in S : Settled(i.cache) /\ i = [x \in DOMAIN i |-> i[x]] /\ "cache" \in DOMAIN i

LEMMA ForeignKeySettles ==
  ASSUME NEW f, IsForeignKey(f)
  PROVE  check_foreign_key(f).enforced = "default" /\ check_foreign_key(check_foreign_key(f)) = check_foreign_key(f)
<1> DEFINE g == check_foreign_key(f)
           h == [g EXCEPT !.enforced = "default"]
<1>1. g = [x \in DOMAIN g |-> g[x]] /\ "enforced" \in DOMAIN g /\ g.enforced = "default"
  BY DEF check_foreign_key, IsForeignKey
<1>2. check_foreign_key(g) = h
  BY DEF check_foreign_key
<1> HIDE DEF g
<1>3. SameFunction(h, g)
  BY <1>1 DEF SameFunction
<1> QED  BY <1>1, <1>2, <1>3, Extensional DEF g

LEMMA KeysSettle ==
  ASSUME NEW S, \A f \in S : IsForeignKey(f)
  PROVE  SettledKeys({check_foreign_key(f) : f \in S})
BY ForeignKeySettles DEF SettledKeys

LEMMA KeysSettled ==
  ASSUME NEW S, SettledKeys(S)
  PROVE  {check_foreign_key(f) : f \in S} = S
BY DEF SettledKeys

LEMMA SettledKeyFound ==
  ASSUME NEW f, f.enforced = "default"
  PROVE  OnlyErrors(ForeignKeyFound(f))
<1> DEFINE A == Report(f.match = "partial", "ForeignKeyMatchPartial", Unfixable)
           B == Report(f.enforced = "enforced", "ForeignKeyEnforced", Fixed)
           C == Report(f.enforced = "not_enforced", "ForeignKeyEnforced", Warned)
<1>1. OnlyErrors(A) /\ OnlyErrors(B) /\ OnlyErrors(C)
  BY ReportErrors
<1> HIDE DEF A, B, C
<1>2. OnlyErrors(A \o B \o C)
  BY <1>1, ErrorsConcat
<1> QED  BY <1>2 DEF ForeignKeyFound, A, B, C

LEMMA SettledKeysFound ==
  ASSUME NEW S, IsFiniteSet(S), \A f \in S : f.enforced = "default"
  PROVE  OnlyErrors(OfEach(ForeignKeyFound, S))
<1> DEFINE q == SetToSeq(S)
           seqs == [k \in DOMAIN q |-> ForeignKeyFound(q[k])]
<1>1. IsSeq(q) /\ Range(q) = S
  BY SetToSeqIs
<1>2. DOMAIN q = 1..Len(q) /\ Len(q) \in Nat /\ \A k \in 1..Len(q) : q[k] \in S
  BY <1>1, SeqFacts
<1>3. OfEach(ForeignKeyFound, S) = FlattenSeq(seqs)
  BY DEF OfEach
<1> HIDE DEF q
<1>4. /\ seqs = [k \in 1..Len(q) |-> seqs[k]]
      /\ \A k \in 1..Len(q) : OnlyErrors(seqs[k])
  BY <1>2, SettledKeyFound
<1> HIDE DEF seqs
<1> QED  BY <1>2, <1>3, <1>4, ErrorsFlattened

LEMMA SettledIdentitiesFound ==
  ASSUME NEW S, IsFiniteSet(S), SettledIdentities(S)
  PROVE  /\ OnlyErrors(OfEach(LAMBDA i : CacheFound("IdentityCache", i.cache), S))
         /\ OnlyErrors(OfEach(LAMBDA i : CacheMissingFound("IdentityCacheMissing", i.cache), S))
<1> DEFINE q == SetToSeq(S)
           cached == [k \in DOMAIN q |-> CacheFound("IdentityCache", q[k].cache)]
           missing == [k \in DOMAIN q |-> CacheMissingFound("IdentityCacheMissing", q[k].cache)]
<1>1. IsSeq(q) /\ Range(q) = S
  BY SetToSeqIs
<1>2. DOMAIN q = 1..Len(q) /\ Len(q) \in Nat /\ \A k \in 1..Len(q) : q[k] \in S
  BY <1>1, SeqFacts
<1>3. /\ OfEach(LAMBDA i : CacheFound("IdentityCache", i.cache), S) = FlattenSeq(cached)
      /\ OfEach(LAMBDA i : CacheMissingFound("IdentityCacheMissing", i.cache), S) = FlattenSeq(missing)
  BY DEF OfEach
<1> HIDE DEF q
<1>4. \A k \in 1..Len(q) : OnlyErrors(cached[k]) /\ OnlyErrors(missing[k])
  BY <1>2, SettledCacheFound DEF SettledIdentities
<1>5. cached = [k \in 1..Len(q) |-> cached[k]] /\ missing = [k \in 1..Len(q) |-> missing[k]]
  BY <1>2
<1> HIDE DEF cached, missing
<1> QED  BY <1>2, <1>3, <1>4, <1>5, ErrorsFlattened

\* Caches that no rule replaces.
LEMMA IdentitiesSettled ==
  ASSUME NEW S, SettledIdentities(S)
  PROVE  /\ {[i EXCEPT !.cache = validate_cache_options(@)] : i \in S} = S
         /\ {[i EXCEPT !.cache = cache_1_option(@)] : i \in S} = S
<1>1. ASSUME NEW i \in S
      PROVE  [i EXCEPT !.cache = validate_cache_options(@)] = i /\ [i EXCEPT !.cache = cache_1_option(@)] = i
  <2>1. /\ i = [x \in DOMAIN i |-> i[x]] /\ "cache" \in DOMAIN i
        /\ validate_cache_options(i.cache) = i.cache /\ cache_1_option(i.cache) = i.cache
    BY SettledCache DEF SettledIdentities
  <2> DEFINE a == [i EXCEPT !.cache = validate_cache_options(@)]
             b == [i EXCEPT !.cache = cache_1_option(@)]
  <2>2. SameFunction(a, i) /\ SameFunction(b, i)
    BY <2>1 DEF SameFunction
  <2> QED  BY <2>2, Extensional
<1> QED  BY <1>1

\* What a CREATE TABLE's column becomes.
ColumnIn(c) == check_identity_cache_missing(check_column(c, FALSE))
SettledColumn(c) ==
  /\ c = [x \in DOMAIN c |-> c[x]] /\ IsColumn(c)
  /\ c.collate = "none" /\ SettledKeys(c.references)
  /\ c.type # "serial" /\ (c.identity # {} => c.type = "bigint") /\ SettledIdentities(c.identity)

LEMMA ColumnSettles ==
  ASSUME NEW c, IsColumn(c)
  PROVE  SettledColumn(ColumnIn(c))
<1> DEFINE typed == IF c.type # "serial" /\ c.identity = {} THEN c ELSE IdentityColumn(c)
           keys == {check_foreign_key(f) : f \in typed.references}
           checked == [typed EXCEPT !.collate = "none", !.references = keys]
           cached == {[i EXCEPT !.cache = cache_1_option(@)] : i \in checked.identity}
           new == [checked EXCEPT !.identity = cached]
<1>1. ColumnIn(c) = new
  BY DEF ColumnIn, check_column, check_identity_cache_missing
<1>2. IsColumn(new)
  <2>1. IsColumn(check_column(c, FALSE))
    BY CheckColumnIs
  <2>2. IsColumn(ColumnIn(c))
    BY <2>1, CacheMissingIs DEF ColumnIn
  <2> HIDE DEF new
  <2> QED  BY <1>1, <2>2
<1>3. IsColumn(typed)
  BY IdentityColumnIs
<1>4. /\ typed.type # "serial" /\ (typed.identity # {} => typed.type = "bigint")
      /\ \A i \in typed.identity : Settled(cache_1_option(i.cache))
  <2>1. CASE c.type # "serial" /\ c.identity = {}
    BY <2>1
  <2>2. CASE ~(c.type # "serial" /\ c.identity = {})
    <3>1. /\ IdentityColumn(c).type = "bigint"
          /\ IdentityColumn(c).identity =
               IF c.type = "serial" THEN identity_cache_1
               ELSE {[i EXCEPT !.cache = validate_cache_options(@)] : i \in c.identity}
      BY DEF IdentityColumn, IsColumn
    <3>2. \A i \in identity_cache_1 : Settled(cache_1_option(i.cache))
      BY DEF identity_cache_1, identity_with_cache, Settled, cache_1_option, CacheMissing, IsCache
    <3>3. \A i \in c.identity : Settled(cache_1_option([i EXCEPT !.cache = validate_cache_options(@)].cache))
      BY CacheSettles DEF IsColumn, IsIdentity
    <3> QED  BY <2>2, <3>1, <3>2, <3>3
  <2> QED  BY <2>1, <2>2
<1> HIDE DEF typed
<1>5. SettledKeys(keys)
  BY <1>3, KeysSettle DEF IsColumn
<1> HIDE DEF keys
<1>6. /\ checked.collate = "none" /\ checked.references = keys /\ checked.type = typed.type
      /\ checked.identity = typed.identity /\ DOMAIN checked = DOMAIN typed
  BY <1>3 DEF IsColumn
<1> HIDE DEF checked
<1>7. SettledIdentities(cached) /\ (cached # {} => typed.identity # {})
  BY <1>3, <1>4, <1>6 DEF SettledIdentities, IsColumn, IsIdentity
<1> HIDE DEF cached
<1>8. /\ new.collate = "none" /\ new.references = keys /\ new.type = typed.type /\ new.identity = cached
      /\ new = [x \in DOMAIN new |-> new[x]]
  BY <1>3, <1>6 DEF IsColumn
<1> HIDE DEF new
<1> QED  BY <1>1, <1>2, <1>4, <1>5, <1>7, <1>8 DEF SettledColumn

LEMMA ColumnSettled ==
  ASSUME NEW c, SettledColumn(c)
  PROVE  ColumnIn(c) = c
<1> DEFINE keys == {check_foreign_key(f) : f \in c.references}
           validated == {[i EXCEPT !.cache = validate_cache_options(@)] : i \in c.identity}
           given == {[i EXCEPT !.cache = cache_1_option(@)] : i \in c.identity}
           one == [c EXCEPT !.type = "bigint", !.identity = validated]
           typed == IF c.identity = {} THEN c ELSE IdentityColumn(c)
           two == [c EXCEPT !.collate = "none", !.references = keys]
           three == [c EXCEPT !.identity = given]
<1>1. /\ c = [x \in DOMAIN c |-> c[x]]
      /\ {"type", "identity", "collate", "references"} \subseteq DOMAIN c
      /\ keys = c.references /\ c.collate = "none" /\ c.type # "serial"
      /\ (c.identity # {} => c.type = "bigint")
      /\ validated = c.identity /\ given = c.identity
  BY KeysSettled, IdentitiesSettled DEF SettledColumn, IsColumn
<1>2. typed = c
  <2>1. IdentityColumn(c) = one
    BY <1>1 DEF IdentityColumn
  <2> HIDE DEF validated
  <2>2. c.identity # {} => SameFunction(one, c)
    BY <1>1 DEF SameFunction
  <2> HIDE DEF one
  <2> QED  BY <2>1, <2>2, Extensional
<1>3. check_column(c, FALSE) = [typed EXCEPT !.collate = "none", !.references = {check_foreign_key(f) : f \in @}]
  BY <1>1 DEF check_column
<1>4. [c EXCEPT !.collate = "none", !.references = {check_foreign_key(f) : f \in @}] = two
  BY <1>1
<1>5. check_identity_cache_missing(c) = three
  BY DEF check_identity_cache_missing
<1> HIDE DEF keys, validated, given, typed
<1>6. SameFunction(two, c) /\ SameFunction(three, c)
  BY <1>1 DEF SameFunction
<1> HIDE DEF two, three
<1> QED  BY <1>2, <1>3, <1>4, <1>5, <1>6, Extensional DEF ColumnIn

\* A column in ALTER TABLE keeps its type and identity, and is refused if it has one.
AddedColumn(c) ==
  /\ c = [x \in DOMAIN c |-> c[x]] /\ IsColumn(c)
  /\ c.collate = "none" /\ SettledKeys(c.references)

LEMMA AddedSettles ==
  ASSUME NEW c, IsColumn(c)
  PROVE  AddedColumn(check_column(c, TRUE)) /\ check_column(check_column(c, TRUE), TRUE) = check_column(c, TRUE)
<1> DEFINE keys == {check_foreign_key(f) : f \in c.references}
           new == [c EXCEPT !.collate = "none", !.references = keys]
           again == [new EXCEPT !.collate = "none", !.references = {check_foreign_key(f) : f \in new.references}]
<1>1. check_column(c, TRUE) = new
  BY DEF check_column
<1>2. IsColumn(new)
  <2>1. IsColumn(check_column(c, TRUE))
    BY CheckColumnIs
  <2> HIDE DEF new
  <2> QED  BY <1>1, <2>1
<1>3. SettledKeys(keys)
  BY KeysSettle DEF IsColumn
<1>4. {check_foreign_key(f) : f \in keys} = keys
  BY <1>3, KeysSettled
<1>5. check_column(new, TRUE) = again
  BY DEF check_column
<1> HIDE DEF keys
<1>6. /\ new = [x \in DOMAIN new |-> new[x]] /\ new.collate = "none" /\ new.references = keys
      /\ {"collate", "references"} \subseteq DOMAIN new
  BY DEF IsColumn
<1> HIDE DEF new
<1>7. SameFunction(again, new)
  <2>1. again = [new EXCEPT !.collate = "none", !.references = keys]
    BY <1>4, <1>6
  <2> HIDE DEF again
  <2> QED  BY <1>6, <2>1 DEF SameFunction
<1> HIDE DEF again
<1>8. AddedColumn(new) /\ check_column(new, TRUE) = new
  BY <1>2, <1>3, <1>5, <1>6, <1>7, Extensional DEF AddedColumn
<1> QED  BY <1>1, <1>8

LEMMA SettledColumnFound ==
  ASSUME NEW c, NEW in_alter_table \in BOOLEAN,
         IF in_alter_table THEN AddedColumn(c) ELSE SettledColumn(c)
  PROVE  OnlyErrors(ColumnFound(c, in_alter_table))
<1> DEFINE A == Report(c.type = "serial", "SerialType", IF in_alter_table THEN Unfixable ELSE Warned)
           B == Report(c.type = "array", "ArrayType", Unfixable)
           C == Report(c.type = "numeric_wide", "NumericBounds", Unfixable)
           D1 == Report(c.identity # {}, "IdentityType", Unfixable)
           D2 == Report(c.identity # {} /\ c.type \notin {"bigint", "serial"}, "IdentityType", Warned)
           D3 == OfEach(LAMBDA i : CacheFound("IdentityCache", i.cache), c.identity)
           D == IF in_alter_table THEN D1 ELSE D2 \o D3
           E == OfEach(ForeignKeyFound, c.references)
           F == Report(c.collate # "none", "Collation", IF c.collate = "C" THEN Fixed ELSE Warned)
<1>1. IsColumn(c) /\ c.collate = "none" /\ SettledKeys(c.references)
  BY DEF AddedColumn, SettledColumn
<1>2. OnlyErrors(B) /\ OnlyErrors(C) /\ OnlyErrors(D1) /\ OnlyErrors(F)
  BY <1>1, ReportErrors
<1>3. OnlyErrors(A)
  BY ReportErrors DEF SettledColumn
<1>4. OnlyErrors(E)
  BY <1>1, SettledKeysFound DEF IsColumn, SettledKeys
<1>5. ~in_alter_table => OnlyErrors(D2) /\ OnlyErrors(D3)
  BY ReportErrors, SettledIdentitiesFound DEF SettledColumn, IsColumn
<1>6. ColumnFound(c, in_alter_table) = A \o B \o C \o D \o E \o F
  BY DEF ColumnFound
<1> HIDE DEF A, B, C, D1, D2, D3, E, F
<1>7. OnlyErrors(D)
  BY <1>2, <1>5, ErrorsConcat
<1> HIDE DEF D
<1>8. OnlyErrors(A \o B)
  BY <1>2, <1>3, ErrorsConcat
<1>9. OnlyErrors(A \o B \o C)
  BY <1>2, <1>8, ErrorsConcat
<1>10. OnlyErrors(A \o B \o C \o D)
  BY <1>7, <1>9, ErrorsConcat
<1>11. OnlyErrors(A \o B \o C \o D \o E)
  BY <1>4, <1>10, ErrorsConcat
<1> QED  BY <1>2, <1>6, <1>11, ErrorsConcat

\* A statement that the rules take as it is.
Rests(s) == IsStatement(s) /\ check(s) = s /\ OnlyErrors(CheckFound(s))

\* The clauses of a CREATE TABLE that the rules can remove.
Removable == {t.clause : t \in {t \in Range(TableClauses) : t.fix_result = Warned}}

LEMMA CreateTableFoundErrors ==
  ASSUME NEW s, IsStatement(s), s.kind = "create_table",
         \A n \in DOMAIN s.columns : SettledColumn(s.columns[n]),
         \A c \in s.constraints : c.type = "foreign_key" => c.enforced = "default",
         s.clauses \cap Removable = {}
  PROVE  OnlyErrors(CreateTableFound(s))
<1> DEFINE q == SetToSeq(DOMAIN s.columns)
           columns == [k \in DOMAIN q |-> ColumnFound(s.columns[q[k]], FALSE)]
           cacheless == [k \in DOMAIN q |->
             OfEach(LAMBDA i : CacheMissingFound("IdentityCacheMissing", i.cache), s.columns[q[k]].identity)]
           clauses == [k \in DOMAIN TableClauses |->
             Report(TableClauses[k].clause \in s.clauses, TableClauses[k].rule, TableClauses[k].fix_result)]
           foreignKeys == {c \in s.constraints : c.type = "foreign_key"}
           keys == OfEach(ForeignKeyFound, foreignKeys)
<1>1. IsFiniteSet(DOMAIN s.columns) /\ IsFiniteSet(s.constraints)
  BY TableFacts
<1>2. IsSeq(q) /\ Range(q) = DOMAIN s.columns
  BY <1>1, SetToSeqIs
<1>3. DOMAIN q = 1..Len(q) /\ Len(q) \in Nat /\ \A k \in 1..Len(q) : q[k] \in DOMAIN s.columns
  BY <1>2, SeqFacts
<1>4. CreateTableFound(s) = FlattenSeq(columns) \o keys \o FlattenSeq(clauses) \o FlattenSeq(cacheless)
  BY DEF CreateTableFound, OfEach, InTurn
<1> HIDE DEF q
<1>5. \A k \in 1..Len(q) : OnlyErrors(columns[k]) /\ OnlyErrors(cacheless[k])
  <2> SUFFICES ASSUME NEW k \in 1..Len(q)
               PROVE  OnlyErrors(columns[k]) /\ OnlyErrors(cacheless[k])
    OBVIOUS
  <2>1. SettledColumn(s.columns[q[k]])
    BY <1>3
  <2>2. OnlyErrors(ColumnFound(s.columns[q[k]], FALSE))
    BY <2>1, SettledColumnFound
  <2>3. OnlyErrors(OfEach(LAMBDA i : CacheMissingFound("IdentityCacheMissing", i.cache), s.columns[q[k]].identity))
    BY <2>1, SettledIdentitiesFound DEF SettledColumn, IsColumn
  <2> QED  BY <1>3, <2>2, <2>3
<1>6. columns = [k \in 1..Len(q) |-> columns[k]] /\ cacheless = [k \in 1..Len(q) |-> cacheless[k]]
  BY <1>3
<1>7. OnlyErrors(FlattenSeq(columns)) /\ OnlyErrors(FlattenSeq(cacheless))
  <2> HIDE DEF columns, cacheless
  <2> QED  BY <1>3, <1>5, <1>6, ErrorsFlattened
<1>8. OnlyErrors(FlattenSeq(clauses))
  <2>1. DOMAIN TableClauses = 1..8
    BY DEF TableClauses
  <2>2. ASSUME NEW k \in 1..8
        PROVE  OnlyErrors(clauses[k])
    <3>1. TableClauses[k] \in Range(TableClauses) /\ TableClauses[k].fix_result \in {Warned, Unfixable}
      BY <2>1 DEF Range, TableClauses
    <3>2. TableClauses[k].clause \in s.clauses => TableClauses[k].fix_result = Unfixable
      BY <3>1 DEF Removable
    <3> QED  BY <2>1, <3>2, ReportErrors
  <2>3. clauses = [k \in 1..8 |-> clauses[k]]
    BY <2>1
  <2> HIDE DEF clauses
  <2> QED  BY <2>2, <2>3, ErrorsFlattened
<1>9. OnlyErrors(keys)
  <2>1. IsFiniteSet(foreignKeys)
    BY <1>1, FS_Subset
  <2> QED  BY <2>1, SettledKeysFound
<1> HIDE DEF columns, cacheless, clauses, keys
<1>10. OnlyErrors(FlattenSeq(columns) \o keys)
  BY <1>7, <1>9, ErrorsConcat
<1>11. OnlyErrors(FlattenSeq(columns) \o keys \o FlattenSeq(clauses))
  BY <1>8, <1>10, ErrorsConcat
<1> QED  BY <1>4, <1>7, <1>11, ErrorsConcat

LEMMA ConstraintSettles ==
  ASSUME NEW c, IsConstraint(c)
  PROVE  LET new == check_constraint(c)
         IN check_constraint(new) = new /\ (new.type = "foreign_key" => new.enforced = "default")
BY CheckConstraintIs, ForeignKeySettles DEF check_constraint, IsConstraint

LEMMA CreateTableRests ==
  ASSUME NEW s, IsStatement(s), s.kind = "create_table"
  PROVE  Rests(check_create_table(s))
<1> DEFINE columns == [n \in DOMAIN s.columns |-> ColumnIn(s.columns[n])]
           constraints == {check_constraint(c) : c \in s.constraints}
           clauses == s.clauses \ Removable
           new == [s EXCEPT !.columns = columns, !.constraints = constraints, !.clauses = clauses]
           columns2 == [n \in DOMAIN new.columns |-> ColumnIn(new.columns[n])]
           constraints2 == {check_constraint(c) : c \in new.constraints}
           clauses2 == new.clauses \ Removable
           again == [new EXCEPT !.columns = columns2, !.constraints = constraints2, !.clauses = clauses2]
<1>1. /\ {"kind", "table", "columns", "constraints", "clauses"} \subseteq DOMAIN s
      /\ \A n \in DOMAIN s.columns : IsColumn(s.columns[n])
      /\ \A c \in s.constraints : IsConstraint(c)
  BY TableFacts
<1>2. check_create_table(s) = new /\ check_create_table(new) = again
  BY DEF check_create_table, ColumnIn, Removable
<1>3. \A n \in DOMAIN columns : SettledColumn(columns[n])
  BY <1>1, ColumnSettles
<1>4. \A c \in constraints : check_constraint(c) = c /\ (c.type = "foreign_key" => c.enforced = "default")
  BY <1>1, ConstraintSettles
<1>5. clauses \cap Removable = {} /\ clauses \ Removable = clauses
  OBVIOUS
<1>6. columns = [n \in DOMAIN columns |-> columns[n]]
  OBVIOUS
<1> HIDE DEF columns, constraints, clauses
<1>7. /\ new = [x \in DOMAIN new |-> new[x]] /\ DOMAIN new = DOMAIN s /\ new.kind = "create_table"
      /\ new.columns = columns /\ new.constraints = constraints /\ new.clauses = clauses
  BY <1>1
<1>8. IsStatement(new)
  <2>1. IsStatement(check_create_table(s))
    BY CheckCreateTableIs
  <2> HIDE DEF new
  <2> QED  BY <1>2, <2>1
<1> HIDE DEF new
<1>9. columns2 = columns /\ constraints2 = constraints /\ clauses2 = clauses
  <2>1. \A n \in DOMAIN columns : ColumnIn(columns[n]) = columns[n]
    BY <1>3, ColumnSettled
  <2> QED  BY <1>4, <1>5, <1>6, <1>7, <2>1
<1> HIDE DEF columns2, constraints2, clauses2
<1>10. SameFunction(again, new)
  BY <1>1, <1>7, <1>9 DEF SameFunction
<1> HIDE DEF again
<1>11. again = new
  BY <1>10, Extensional
<1>12. OnlyErrors(CreateTableFound(new))
  BY <1>3, <1>4, <1>5, <1>7, <1>8, CreateTableFoundErrors
<1>13. check(new) = again /\ CheckFound(new) = CreateTableFound(new)
  BY <1>2, <1>7 DEF check, CheckFound
<1> QED  BY <1>2, <1>8, <1>11, <1>12, <1>13 DEF Rests

\* An operation that the rules take as it is; VALIDATE CONSTRAINT if it is ASYNC.
OperationFoundErrors(o, async) ==
  OnlyErrors(ColumnsAndConstraints(o, async)) /\ OnlyErrors(AddedColumns(o)) /\ OnlyErrors(Operations(o))
RestingOperation(o) ==
  /\ IsOperation(o) /\ AlteredOperation(o) = o
  /\ o.op = "add_column" => AddedColumn(o.definition)
  /\ AddsConstraint(o, {"foreign_key", "check"}) => o.not_valid
  /\ AddsConstraint(o, {"foreign_key"}) => o.constraint.enforced = "default"
  /\ o.op = "add_identity" => Settled(o.cache)

LEMMA OperationRests ==
  ASSUME NEW o, IsOperation(o)
  PROVE  RestingOperation(AlteredOperation(o)) /\ AlteredOperation(o).op = o.op
<1>1. CASE o.op = "add_column"
  <2> DEFINE column == check_column(o.definition, TRUE)
             new == [o EXCEPT !.definition = column]
             again == [new EXCEPT !.definition = check_column(new.definition, TRUE)]
  <2>1. AlteredOperation(o) = new
    BY <1>1 DEF AlteredOperation, AddsConstraint
  <2>2. AddedColumn(column) /\ check_column(column, TRUE) = column
    BY <1>1, AddedSettles DEF IsOperation
  <2> HIDE DEF column
  <2>3. new = [x \in DOMAIN new |-> new[x]] /\ new.op = "add_column" /\ new.definition = column
        /\ "definition" \in DOMAIN new
    BY <1>1 DEF IsOperation
  <2>4. IsOperation(new)
    <3>1. IsOperation(AlteredOperation(o))
      BY AlteredOperationIs
    <3> HIDE DEF new
    <3> QED  BY <2>1, <3>1
  <2> HIDE DEF new
  <2>5. AlteredOperation(new) = again
    BY <2>3 DEF AlteredOperation, AddsConstraint
  <2>6. SameFunction(again, new)
    BY <2>2, <2>3 DEF SameFunction
  <2> HIDE DEF again
  <2>7. AlteredOperation(new) = new
    BY <2>5, <2>6, Extensional
  <2> QED  BY <1>1, <2>1, <2>2, <2>3, <2>4, <2>7 DEF RestingOperation, AddsConstraint
<1>2. CASE AddsConstraint(o, {"foreign_key", "check"})
  <2> DEFINE constraint == check_constraint(o.constraint)
             new == [o EXCEPT !.constraint = constraint, !.not_valid = TRUE]
             again == [new EXCEPT !.constraint = check_constraint(new.constraint), !.not_valid = TRUE]
  <2>1. AlteredOperation(o) = new
    BY <1>2 DEF AlteredOperation, AddsConstraint
  <2>2. o.op = "add_constraint" /\ IsConstraint(o.constraint) /\ {"op", "constraint", "not_valid"} \subseteq DOMAIN o
        /\ o.constraint.type \in {"foreign_key", "check"}
    BY <1>2 DEF AddsConstraint, IsOperation
  <2>3. /\ check_constraint(constraint) = constraint /\ constraint.type = o.constraint.type
        /\ constraint.type = "foreign_key" => constraint.enforced = "default"
    BY <2>2, ConstraintSettles, CheckConstraintIs
  <2> HIDE DEF constraint
  <2>4. /\ new = [x \in DOMAIN new |-> new[x]] /\ new.op = "add_constraint" /\ new.constraint = constraint
        /\ new.not_valid = TRUE /\ {"constraint", "not_valid"} \subseteq DOMAIN new
    BY <2>2
  <2>5. IsOperation(new)
    <3>1. IsOperation(AlteredOperation(o))
      BY AlteredOperationIs
    <3> HIDE DEF new
    <3> QED  BY <2>1, <3>1
  <2> HIDE DEF new
  <2>6. AlteredOperation(new) = again
    BY <2>2, <2>3, <2>4 DEF AlteredOperation, AddsConstraint
  <2>7. SameFunction(again, new)
    BY <2>3, <2>4 DEF SameFunction
  <2> HIDE DEF again
  <2>8. AlteredOperation(new) = new
    BY <2>6, <2>7, Extensional
  <2> QED  BY <2>1, <2>2, <2>3, <2>4, <2>5, <2>8 DEF RestingOperation, AddsConstraint
<1>3. CASE o.op = "add_identity"
  <2> DEFINE cache == cache_1_option(validate_cache_options(o.cache))
             new == [o EXCEPT !.cache = cache]
             again == [new EXCEPT !.cache = cache_1_option(validate_cache_options(new.cache))]
  <2>1. AlteredOperation(o) = new
    BY <1>3 DEF AlteredOperation, AddsConstraint
  <2>2. {"op", "cache"} \subseteq DOMAIN o /\ Settled(cache)
    BY <1>3, CacheSettles DEF IsOperation, IsIdentity
  <2> HIDE DEF cache
  <2>3. cache_1_option(validate_cache_options(cache)) = cache
    BY <2>2, SettledCache
  <2>4. new = [x \in DOMAIN new |-> new[x]] /\ new.op = "add_identity" /\ new.cache = cache /\ "cache" \in DOMAIN new
    BY <1>3, <2>2
  <2>5. IsOperation(new)
    <3>1. IsOperation(AlteredOperation(o))
      BY AlteredOperationIs
    <3> HIDE DEF new
    <3> QED  BY <2>1, <3>1
  <2> HIDE DEF new
  <2>6. AlteredOperation(new) = again
    BY <2>4 DEF AlteredOperation, AddsConstraint
  <2>7. SameFunction(again, new)
    BY <2>3, <2>4 DEF SameFunction
  <2> HIDE DEF again
  <2>8. AlteredOperation(new) = new
    BY <2>6, <2>7, Extensional
  <2> QED  BY <1>3, <2>1, <2>2, <2>4, <2>5, <2>8 DEF RestingOperation, AddsConstraint
<1>4. CASE o.op \notin {"add_column", "add_identity"} /\ ~AddsConstraint(o, {"foreign_key", "check"})
  <2>1. AlteredOperation(o) = o
    BY <1>4 DEF AlteredOperation
  <2> QED  BY <1>4, <2>1 DEF RestingOperation, AddsConstraint
<1> QED  BY <1>1, <1>2, <1>3, <1>4

LEMMA RestingOperationFound ==
  ASSUME NEW o, RestingOperation(o), NEW async \in BOOLEAN, o.op = "validate_constraint" => async
  PROVE  OperationFoundErrors(o, async)
<1>1. \A r : OnlyErrors(<<Found(r, Unfixable)>>)
  BY OneError DEF Found
<1>2. OnlyErrors(<<>>)
  BY NoErrors
<1>3. OnlyErrors(ColumnsAndConstraints(o, async))
  <2>1. o.op = "add_column" => OnlyErrors(ColumnFound(o.definition, TRUE))
    BY SettledColumnFound DEF RestingOperation
  <2>2. AddsConstraint(o, {"foreign_key"}) =>
          OnlyErrors(ForeignKeyFound(o.constraint) \o Report(~o.not_valid, "ForeignKeyNotValid", Warned))
    BY SettledKeyFound, ReportErrors, ErrorsConcat DEF RestingOperation, AddsConstraint
  <2>3. AddsConstraint(o, {"check"}) => OnlyErrors(Report(~o.not_valid, "CheckNotValid", Warned))
    BY ReportErrors DEF RestingOperation, AddsConstraint
  <2>4. o.op = "validate_constraint" => OnlyErrors(Report(~async, "ValidateConstraintAsync", Warned))
    BY ReportErrors
  <2> QED  BY <1>1, <1>2, <2>1, <2>2, <2>3, <2>4 DEF ColumnsAndConstraints
<1>4. OnlyErrors(AddedColumns(o))
  BY <1>2, ReportErrors, ErrorsConcat DEF AddedColumns
<1>5. OnlyErrors(Operations(o))
  <2>1. o.op = "add_identity" =>
          OnlyErrors(CacheMissingFound("IdentityCacheMissing", o.cache) \o CacheFound("IdentityCache", o.cache))
    BY SettledCacheFound, ErrorsConcat DEF RestingOperation
  <2> QED  BY <1>1, <1>2, <2>1 DEF Operations
<1> QED  BY <1>3, <1>4, <1>5 DEF OperationFoundErrors

LEMMA AlterTableFoundErrors ==
  ASSUME NEW s, IsStatement(s), s.kind = "alter_table", s.async \in BOOLEAN,
         \A k \in 1..Len(s.ops) :
           RestingOperation(s.ops[k]) /\ (s.ops[k].op = "validate_constraint" => s.async)
  PROVE  OnlyErrors(AlterTableFound(s))
<1> DEFINE n == Len(s.ops)
           A == [k \in DOMAIN s.ops |-> ColumnsAndConstraints(s.ops[k], s.async)]
           B == [k \in DOMAIN s.ops |-> AddedColumns(s.ops[k])]
           C == [k \in DOMAIN s.ops |-> Operations(s.ops[k])]
<1>1. n \in Nat /\ DOMAIN s.ops = 1..n
  BY SeqFacts DEF IsStatement, IsAlter, IsSeq
<1>2. AlterTableFound(s) = FlattenSeq(A) \o FlattenSeq(B) \o FlattenSeq(C)
  BY DEF AlterTableFound, InTurn
<1>3. \A k \in 1..n : OnlyErrors(A[k]) /\ OnlyErrors(B[k]) /\ OnlyErrors(C[k])
  BY <1>1, RestingOperationFound DEF OperationFoundErrors
<1>4. /\ A = [k \in 1..n |-> A[k]] /\ B = [k \in 1..n |-> B[k]] /\ C = [k \in 1..n |-> C[k]]
  BY <1>1
<1> HIDE DEF A, B, C, n
<1>5. OnlyErrors(FlattenSeq(A)) /\ OnlyErrors(FlattenSeq(B)) /\ OnlyErrors(FlattenSeq(C))
  BY <1>1, <1>3, <1>4, ErrorsFlattened
<1>6. OnlyErrors(FlattenSeq(A) \o FlattenSeq(B))
  BY <1>5, ErrorsConcat
<1> QED  BY <1>2, <1>5, <1>6, ErrorsConcat

LEMMA AlterTableRests ==
  ASSUME NEW s, IsStatement(s), s.kind = "alter_table"
  PROVE  Rests(check_alter_table(s))
<1> DEFINE n == Len(s.ops)
           ops == [k \in DOMAIN s.ops |-> AlteredOperation(s.ops[k])]
           Validates == \E k \in DOMAIN s.ops : s.ops[k].op = "validate_constraint"
           async == s.async \/ Validates
           new == [s EXCEPT !.ops = ops, !.async = async]
           ops2 == [k \in DOMAIN new.ops |-> AlteredOperation(new.ops[k])]
           async2 == new.async \/ \E k \in DOMAIN new.ops : new.ops[k].op = "validate_constraint"
           again == [new EXCEPT !.ops = ops2, !.async = async2]
<1>1. {"kind", "table", "ops", "async"} \subseteq DOMAIN s /\ IsSeq(s.ops) /\ \A o \in Range(s.ops) : IsOperation(o)
  BY DEF IsStatement, IsAlter, IsSeq
<1>2. n \in Nat /\ DOMAIN s.ops = 1..n /\ \A k \in 1..n : IsOperation(s.ops[k])
  BY <1>1, SeqFacts
<1>3. check_alter_table(s) = new /\ check_alter_table(new) = again
  BY DEF check_alter_table
<1> HIDE DEF n
<1>4. \A k \in 1..n : RestingOperation(ops[k]) /\ ops[k].op = s.ops[k].op
  BY <1>2, OperationRests
<1>5. ops = [k \in 1..n |-> ops[k]]
  BY <1>2
<1>6. async \in BOOLEAN /\ \A k \in 1..n : s.ops[k].op = "validate_constraint" => async
  BY <1>2
<1> HIDE DEF ops, async
<1>7. Len(ops) = n /\ DOMAIN ops = 1..n
  BY <1>2, <1>5, FunctionIsSeq
<1>8. /\ new = [x \in DOMAIN new |-> new[x]] /\ new.kind = "alter_table"
      /\ new.ops = ops /\ new.async = async /\ {"ops", "async"} \subseteq DOMAIN new
  BY <1>1
<1>9. IsStatement(new)
  <2>1. IsStatement(check_alter_table(s))
    BY CheckAlterTableIs
  <2> HIDE DEF new
  <2> QED  BY <1>3, <2>1
<1> HIDE DEF new
<1>10. ops2 = ops
  BY <1>4, <1>5, <1>7, <1>8 DEF RestingOperation
<1>11. async2 = async
  BY <1>4, <1>6, <1>7, <1>8
<1> HIDE DEF ops2, async2
<1>12. SameFunction(again, new)
  BY <1>8, <1>10, <1>11 DEF SameFunction
<1> HIDE DEF again
<1>13. again = new
  BY <1>12, Extensional
<1>14. OnlyErrors(AlterTableFound(new))
  BY <1>4, <1>6, <1>7, <1>8, <1>9, AlterTableFoundErrors
<1>15. check(new) = again /\ CheckFound(new) = AlterTableFound(new)
  BY <1>3, <1>8 DEF check, CheckFound
<1> QED  BY <1>3, <1>9, <1>13, <1>14, <1>15 DEF Rests

LEMMA SequenceRests ==
  ASSUME NEW s, IsStatement(s), s.kind \in {"create_sequence", "alter_sequence"}
  PROVE  Rests(check(s))
<1> DEFINE type == check_sequence_type(s.type)
           Cached(c) == IF s.kind = "create_sequence" THEN cache_1_option(validate_cache_options(c))
                        ELSE validate_cache_options(c)
           cache == Cached(s.cache)
           new == [s EXCEPT !.type = type, !.cache = cache]
           again == [new EXCEPT !.type = check_sequence_type(new.type), !.cache = Cached(new.cache)]
<1>1. check(s) = new
  BY DEF check, check_create_sequence, check_alter_sequence
<1>2. {"kind", "type", "cache"} \subseteq DOMAIN s /\ s.cache \in CacheOption
  BY DEF IsStatement, IsSequence, IsIdentity
<1>3. type \in {"none", "bigint"} /\ check_sequence_type(type) = type
  BY DEF check_sequence_type
<1>4. /\ Cached(cache) = cache /\ ~(cache >= 0 /\ ~IsCache(cache))
      /\ s.kind = "create_sequence" => Settled(cache)
  BY <1>2, CacheSettles, SettledCache DEF validate_cache_options, IsCache
<1> HIDE DEF type, cache
<1>5. /\ new = [x \in DOMAIN new |-> new[x]] /\ new.kind = s.kind /\ new.type = type /\ new.cache = cache
      /\ {"type", "cache"} \subseteq DOMAIN new
  BY <1>2
<1>6. IsStatement(new)
  <2>1. IsStatement(check(s))
    BY CheckIs
  <2> HIDE DEF new
  <2> QED  BY <1>1, <2>1
<1> HIDE DEF new
<1>7. check(new) = again
  BY <1>5 DEF check, check_create_sequence, check_alter_sequence
<1>8. SameFunction(again, new)
  BY <1>3, <1>4, <1>5 DEF SameFunction
<1> HIDE DEF again
<1>9. again = new
  BY <1>8, Extensional
<1>10. OnlyErrors(AlterSequenceFound(new))
  <2>1. OnlyErrors(SequenceTypeFound(new.type))
    BY <1>3, <1>5, ReportErrors DEF SequenceTypeFound
  <2>2. OnlyErrors(CacheFound("SequenceCache", new.cache))
    BY <1>4, <1>5, ReportErrors, ErrorsConcat DEF CacheFound
  <2> QED  BY <2>1, <2>2, ErrorsConcat DEF AlterSequenceFound
<1>11. s.kind = "create_sequence" => OnlyErrors(CreateSequenceFound(new))
  BY <1>4, <1>5, <1>10, SettledCacheFound, ErrorsConcat DEF CreateSequenceFound
<1>12. OnlyErrors(CheckFound(new))
  BY <1>5, <1>10, <1>11 DEF CheckFound
<1> QED  BY <1>1, <1>6, <1>7, <1>9, <1>12 DEF Rests

LEMMA IndexRests ==
  ASSUME NEW s, IsStatement(s), s.kind = "create_index"
  PROVE  Rests(check(s))
<1> DEFINE new == [s EXCEPT !.concurrently = FALSE, !.async = TRUE, !.using = "none", !.sort = "none"]
           again == [new EXCEPT !.concurrently = FALSE, !.async = TRUE, !.using = "none", !.sort = "none"]
<1>1. check(s) = new
  BY DEF check, check_create_index
<1>2. /\ new = [x \in DOMAIN new |-> new[x]] /\ new.kind = "create_index"
      /\ new.concurrently = FALSE /\ new.async = TRUE /\ new.using = "none" /\ new.sort = "none"
      /\ {"concurrently", "async", "using", "sort"} \subseteq DOMAIN new
  BY DEF IsStatement
<1>3. IsStatement(new)
  <2>1. IsStatement(check(s))
    BY CheckIs
  <2> HIDE DEF new
  <2> QED  BY <1>1, <2>1
<1> HIDE DEF new
<1>4. check(new) = again
  BY <1>2 DEF check, check_create_index
<1>5. SameFunction(again, new)
  BY <1>2 DEF SameFunction
<1> HIDE DEF again
<1>6. check(new) = new
  BY <1>4, <1>5, Extensional
<1>7. OnlyErrors(CreateIndexFound(new))
  <2> DEFINE A == Report(new.concurrently, "IndexConcurrently", Warned)
             B == Report(~new.concurrently /\ ~new.async, "IndexAsync", Warned)
             C == Report(new.using # "none", "IndexUsing", IF new.using = "btree" THEN Fixed ELSE Warned)
             D == Report(new.sort # "none", "IndexSortDirection", IF new.sort = "asc" THEN Fixed ELSE Warned)
             E == Report(new.volatile, "IndexVolatileFunction", Unfixable)
  <2>1. OnlyErrors(A) /\ OnlyErrors(B) /\ OnlyErrors(C) /\ OnlyErrors(D) /\ OnlyErrors(E)
    BY <1>2, ReportErrors
  <2>2. CreateIndexFound(new) = A \o B \o C \o D \o E
    BY DEF CreateIndexFound
  <2> HIDE DEF A, B, C, D, E
  <2>3. OnlyErrors(A \o B)
    BY <2>1, ErrorsConcat
  <2>4. OnlyErrors(A \o B \o C)
    BY <2>1, <2>3, ErrorsConcat
  <2>5. OnlyErrors(A \o B \o C \o D)
    BY <2>1, <2>4, ErrorsConcat
  <2> QED  BY <2>1, <2>2, <2>5, ErrorsConcat
<1>8. OnlyErrors(CheckFound(new))
  BY <1>2, <1>7 DEF CheckFound
<1> QED  BY <1>1, <1>3, <1>6, <1>8 DEF Rests

LEMMA StatisticsRest ==
  ASSUME NEW s, IsStatement(s), s.kind = "alter_statistics"
  PROVE  Rests(check(s))
<1> DEFINE target == IF s.target = StatisticsDefault THEN "in_range" ELSE s.target
           new == [s EXCEPT !.target = target]
           again == [new EXCEPT !.target = IF @ = StatisticsDefault THEN "in_range" ELSE @]
<1>1. check(s) = new
  BY DEF check, check_statistics_target
<1>2. target # StatisticsDefault
  BY DEF StatisticsDefault
<1> HIDE DEF target
<1>3. /\ new = [x \in DOMAIN new |-> new[x]] /\ new.kind = "alter_statistics" /\ new.target = target
      /\ "target" \in DOMAIN new
  BY DEF IsStatement
<1>4. IsStatement(new)
  <2>1. IsStatement(check(s))
    BY CheckIs
  <2> HIDE DEF new
  <2> QED  BY <1>1, <2>1
<1> HIDE DEF new
<1>5. check(new) = again
  BY <1>3 DEF check, check_statistics_target
<1>6. SameFunction(again, new)
  BY <1>2, <1>3 DEF SameFunction
<1> HIDE DEF again
<1>7. check(new) = new
  BY <1>5, <1>6, Extensional
<1>8. OnlyErrors(StatisticsFound(new))
  BY <1>2, <1>3, ReportErrors, ErrorsConcat DEF StatisticsFound
<1>9. OnlyErrors(CheckFound(new))
  BY <1>3, <1>8 DEF CheckFound
<1> QED  BY <1>1, <1>4, <1>7, <1>9 DEF Rests

LEMMA TransactionRests ==
  ASSUME NEW s, IsStatement(s), s.kind \in {"begin", "set_session"}
  PROVE  Rests(check(s))
<1> DEFINE level == IF s.level = "none" THEN s.level ELSE "repeatable_read"
           new == [s EXCEPT !.level = level]
           again == [new EXCEPT !.level = IF @ = "none" THEN @ ELSE "repeatable_read"]
<1>1. check(s) = new
  BY DEF check, check_transaction_isolation
<1>2. level \in {"none", "repeatable_read"}
  OBVIOUS
<1> HIDE DEF level
<1>3. /\ new = [x \in DOMAIN new |-> new[x]] /\ new.kind = s.kind /\ new.level = level
      /\ "level" \in DOMAIN new
  BY DEF IsStatement
<1>4. IsStatement(new)
  <2>1. IsStatement(check(s))
    BY CheckIs
  <2> HIDE DEF new
  <2> QED  BY <1>1, <2>1
<1> HIDE DEF new
<1>5. check(new) = again
  BY <1>3 DEF check, check_transaction_isolation
<1>6. SameFunction(again, new)
  BY <1>2, <1>3 DEF SameFunction
<1> HIDE DEF again
<1>7. check(new) = new
  BY <1>5, <1>6, Extensional
<1>8. OnlyErrors(TransactionFound(new))
  BY <1>2, <1>3, ReportErrors DEF TransactionFound
<1>9. OnlyErrors(CheckFound(new))
  BY <1>3, <1>8 DEF CheckFound
<1> QED  BY <1>1, <1>4, <1>7, <1>9 DEF Rests

\* The others: a view that is no longer temporary, and what is reported and kept.
LEMMA UnsupportedErrors ==
  ASSUME NEW s, s.kind = "create_view" => s.temporary = FALSE
  PROVE  OnlyErrors(UnsupportedFound(s))
<1>1. \A r : OnlyErrors(<<Found(r, Unfixable)>>)
  BY OneError DEF Found
<1> DEFINE A == Report(s.temporary, "UnsupportedTempView", Warned)
           B == Report(s.collate \notin SupportedCollations, "Collation", Unfixable)
<1>2. s.kind = "create_view" => OnlyErrors(A)
  BY ReportErrors
<1>3. OnlyErrors(B)
  BY ReportErrors
<1>4. OnlyErrors(<<>>)
  BY NoErrors
<1>5. UnsupportedFound(s) =
        CASE s.kind = "create_view" -> A \o B
          [] s.kind = "query" -> B
          [] OTHER -> IF s.kind \notin DOMAIN UnsupportedStatements THEN <<>>
                      ELSE <<Found(UnsupportedStatements[s.kind], Unfixable)>>
  BY DEF UnsupportedFound
<1> HIDE DEF A, B
<1>6. s.kind = "create_view" => OnlyErrors(A \o B)
  BY <1>2, <1>3, ErrorsConcat
<1> QED  BY <1>1, <1>3, <1>4, <1>5, <1>6

LEMMA ViewRests ==
  ASSUME NEW s, IsStatement(s), s.kind = "create_view"
  PROVE  Rests(check(s))
<1> DEFINE new == [s EXCEPT !.temporary = FALSE]
           again == [new EXCEPT !.temporary = FALSE]
<1>1. check(s) = new
  BY DEF check
<1>2. /\ new = [x \in DOMAIN new |-> new[x]] /\ new.kind = "create_view" /\ new.temporary = FALSE
      /\ "temporary" \in DOMAIN new
  BY DEF IsStatement
<1>3. IsStatement(new)
  <2>1. IsStatement(check(s))
    BY CheckIs
  <2> HIDE DEF new
  <2> QED  BY <1>1, <2>1
<1> HIDE DEF new
<1>4. check(new) = again
  BY <1>2 DEF check
<1>5. SameFunction(again, new)
  BY <1>2 DEF SameFunction
<1> HIDE DEF again
<1>6. check(new) = new
  BY <1>4, <1>5, Extensional
<1>7. OnlyErrors(CheckFound(new))
  BY <1>2, UnsupportedErrors DEF CheckFound
<1> QED  BY <1>1, <1>3, <1>6, <1>7 DEF Rests

\* errors::check is idempotent: what it has rewritten it neither rewrites nor finds
\* anything in to fix.
LEMMA CheckRests ==
  ASSUME NEW s, IsStatement(s)
  PROVE  Rests(check(s))
<1>1. CASE s.kind = "create_table"
  BY <1>1, CreateTableRests DEF check
<1>2. CASE s.kind = "alter_table"
  BY <1>2, AlterTableRests DEF check
<1>3. CASE s.kind \in {"create_sequence", "alter_sequence"}
  BY <1>3, SequenceRests
<1>4. CASE s.kind \in Plain
  BY <1>4, IndexRests, StatisticsRest, TransactionRests, ViewRests DEF Plain
<1>5. CASE s.kind \notin {"create_table", "alter_table", "create_sequence", "alter_sequence"} \cup Plain
  <2>1. check(s) = s /\ CheckFound(s) = UnsupportedFound(s)
    BY <1>5 DEF check, CheckFound, Plain
  <2>2. OnlyErrors(UnsupportedFound(s))
    BY <1>5, UnsupportedErrors DEF Plain
  <2> QED  BY <2>1, <2>2 DEF Rests
<1> QED  BY <1>1, <1>2, <1>3, <1>4, <1>5

\* A part that check_statements takes as it is; one that does not parse is reported.
RestingPart(p) == IsPart(p) /\ check_statement(p) = p /\ OnlyErrors(StatementFound(p))

LEMMA StatementRests ==
  ASSUME NEW p, IsPart(p)
  PROVE  RestingPart(check_statement(p))
<1> DEFINE q == check_statement(p)
           new == [p EXCEPT !.stmt = check(p.stmt)]
           again == [q EXCEPT !.stmt = check(q.stmt)]
           found == IF Parses(q.stmt) THEN CheckFound(q.stmt) ELSE <<Found("ParseError", Unfixable)>>
           ds == [k \in DOMAIN found |-> Diagnostic(found[k].rule, q.line, found[k].fix_result)]
<1>1. IsPart(q)
  BY CheckStatementIs
<1>2. q = IF Parses(p.stmt) THEN new ELSE p
  BY DEF check_statement
<1>3. Parses(q.stmt) => Rests(q.stmt) /\ q = [x \in DOMAIN q |-> q[x]]
  <2>1. CASE Parses(p.stmt)
    <3>1. "stmt" \in DOMAIN p /\ IsStatement(p.stmt)
      BY DEF IsPart
    <3>2. q = new /\ new.stmt = check(p.stmt) /\ new = [x \in DOMAIN new |-> new[x]]
      BY <1>2, <2>1, <3>1
    <3> HIDE DEF new, q
    <3> QED  BY <3>1, <3>2, CheckRests
  <2>2. CASE ~Parses(p.stmt)
    <3> HIDE DEF new, q
    <3> QED  BY <1>2, <2>2
  <2> QED  BY <2>1, <2>2
<1>4. check_statement(q) = IF Parses(q.stmt) THEN again ELSE q
  BY DEF check_statement
<1>5. StatementFound(q) = ds
  BY DEF StatementFound
<1> HIDE DEF q
<1>6. check_statement(q) = q
  <2>1. Parses(q.stmt) => SameFunction(again, q)
    BY <1>1, <1>3 DEF SameFunction, IsPart, Rests
  <2> HIDE DEF again
  <2> QED  BY <1>4, <2>1, Extensional
<1>7. OnlyErrors(found)
  BY <1>3, OneError DEF Rests, Found
<1> HIDE DEF found
<1>8. DOMAIN found = 1..Len(found) /\ Len(found) \in Nat /\ \A k \in 1..Len(found) : found[k].fix_result = Unfixable
  BY <1>7, SeqFacts DEF OnlyErrors
<1>9. ds = [k \in 1..Len(found) |-> ds[k]] /\ \A k \in 1..Len(found) : ds[k].fix_result = Unfixable
  BY <1>8 DEF Diagnostic
<1> HIDE DEF ds
<1>10. IsSeq(ds) /\ Len(ds) = Len(found)
  BY <1>8, <1>9, FunctionIsSeq
<1>11. OnlyErrors(ds)
  BY <1>9, <1>10, SeqFacts DEF OnlyErrors
<1>12. RestingPart(q)
  BY <1>1, <1>5, <1>6, <1>11 DEF RestingPart
<1> QED  BY <1>12 DEF q

------------------------------------------------------------------------------
(* What a pass leaves for it to find again.                                *)

\* Nothing is dropped at no places.
LEMMA RetainsAll ==
  ASSUME NEW ps, IsSeq(ps), NEW q, Retains(q, ps, {})
  PROVE  q = ps
<1> DEFINE m == Len(q)
           n == Len(ps)
<1>1. /\ m \in Nat /\ DOMAIN q = 1..m /\ q = [k \in DOMAIN q |-> q[k]]
      /\ n \in Nat /\ DOMAIN ps = 1..n /\ ps = [k \in DOMAIN ps |-> ps[k]]
  BY SeqFacts DEF IsSeq, Retains
<1>2. PICK e \in [1..m -> 1..n] :
        /\ \A j \in 1..m : q[j] = ps[e[j]]
        /\ \A j, k \in 1..m : j < k => e[j] < e[k]
        /\ \A i \in 1..n : \E j \in 1..m : e[j] = i
  BY DEF Retains
<1> HIDE DEF m, n
<1> DEFINE S == {k \in 0..m : \A j \in 1..k : e[j] = j}
<1>3. 0 \in S
  BY <1>1
<1>4. ASSUME NEW k \in 1..m, k - 1 \in S
      PROVE  k \in S
  <2>1. \A j \in 1..(k - 1) : e[j] = j
    BY <1>4
  <2>2. e[k] \in 1..n
    BY <1>2
  <2>3. e[k] >= k
    <3>1. CASE k = 1
      BY <1>1, <2>2, <3>1
    <3>2. CASE k # 1
      <4>1. k - 1 \in 1..(k - 1) /\ k - 1 \in 1..m /\ k - 1 < k
        BY <1>1, <3>2
      <4>2. e[k - 1] = k - 1 /\ e[k - 1] < e[k]
        BY <1>2, <2>1, <4>1
      <4> QED  BY <1>1, <2>2, <4>2
    <3> QED  BY <3>1, <3>2
  <2>4. k \in 1..n
    BY <1>1, <2>2, <2>3
  <2>5. PICK j \in 1..m : e[j] = k
    BY <1>2, <2>4
  <2>6. CASE j < k
    <3>1. j \in 1..(k - 1)
      BY <1>1, <2>6
    <3> QED  BY <2>1, <2>5, <2>6, <3>1
  <2>7. CASE k < j
    <3>1. e[k] < e[j]
      BY <1>2, <2>7
    <3> QED  BY <1>1, <2>2, <2>3, <2>5, <3>1
  <2>8. e[k] = k
    BY <1>1, <2>5, <2>6, <2>7
  <2>9. \A i \in 1..k : i = k \/ i \in 1..(k - 1)
    BY <1>1
  <2> QED  BY <1>1, <2>1, <2>8, <2>9
<1>5. 0..m \subseteq S
  <2> HIDE DEF S
  <2> QED  BY <1>1, <1>3, <1>4, UpTo
<1>6. \A j \in 1..m : e[j] = j
  BY <1>1, <1>5
<1>7. m = n
  <2>1. \A i \in 1..n : i \in 1..m
    BY <1>2, <1>6
  <2>2. \A j \in 1..m : j \in 1..n
    BY <1>2, <1>6
  <2>3. n > m => n \in 1..n /\ n \notin 1..m
    BY <1>1
  <2>4. m > n => m \in 1..m /\ m \notin 1..n
    BY <1>1
  <2> QED  BY <1>1, <2>1, <2>2, <2>3, <2>4
<1>8. SameFunction(q, ps)
  BY <1>1, <1>2, <1>6, <1>7 DEF SameFunction
<1> QED  BY <1>8, Extensional

\* A statement that a pass would fold was one before the parts were rewritten, and was
\* not dropped.
LEMMA NothingNew ==
  ASSUME NEW ps, IsParts(ps), NEW q, NEW D, Rewrites(q, ps, D), NEW j \in 1..Len(q)
  PROVE  \E i \in 1..Len(ps) :
           /\ i \notin D
           /\ SerialAt(q, j) => SerialAt(ps, i)
           /\ \A type : ConstraintAt(q, type, j) => ConstraintAt(ps, type, i)
           /\ IdentityAt(q, j) => IdentityAt(ps, i)
           /\ j \in OfKind(q, "set_compression") => i \in OfKind(ps, "set_compression")
<1>1. PICK e \in [1..Len(q) -> 1..Len(ps)] :
        /\ \A k \in 1..Len(q) : SameHead(q[k], ps[e[k]]) /\ e[k] \notin D
        /\ \A k, m \in 1..Len(q) : k < m => e[k] < e[m]
  BY DEF Rewrites
<1>2. \A k \in 1..Len(q) : e[k] \in 1..Len(ps) /\ Alike(q[k].stmt, ps[e[k]].stmt)
  BY <1>1 DEF SameHead
<1>3. DOMAIN ps = 1..Len(ps) /\ DOMAIN q = 1..Len(q) /\ Len(q) \in Nat
  BY PartsFacts DEF Rewrites
<1>4. \A kind : \A k \in OfKind(q, kind) : k \in 1..Len(q) /\ e[k] \in OfKind(ps, kind)
  BY <1>2, <1>3 DEF OfKind, Alike
<1>5. \A t \in OfKind(q, "create_table") :
        q[t].stmt.table = ps[e[t]].stmt.table /\ DOMAIN q[t].stmt.columns = DOMAIN ps[e[t]].stmt.columns
  BY <1>2, <1>3 DEF OfKind, Alike
<1>6. \A s \in OfKind(q, "create_sequence") : q[s].stmt.sequence = ps[e[s]].stmt.sequence
  BY <1>2, <1>3 DEF OfKind, Alike
<1>7. \A op : j \in SoleOp(q, op) =>
        e[j] \in SoleOp(ps, op) /\ q[j].stmt.table = ps[e[j]].stmt.table
          /\ AlikeOp(q[j].stmt.ops[1], ps[e[j]].stmt.ops[1])
  BY <1>2, <1>3 DEF SoleOp, OfKind, Alike, AlikeOp
<1>8. SerialAt(q, j) => SerialAt(ps, e[j])
  <2> SUFFICES ASSUME SerialAt(q, j)
               PROVE  SerialAt(ps, e[j])
    OBVIOUS
  <2>1. j \in SoleOp(q, "set_default")
    BY DEF SerialAt
  <2>2. /\ e[j] \in SoleOp(ps, "set_default") /\ q[j].stmt.table = ps[e[j]].stmt.table
        /\ q[j].stmt.ops[1] = ps[e[j]].stmt.ops[1]
    <3>1. e[j] \in SoleOp(ps, "set_default") => ps[e[j]].stmt.ops[1].op = "set_default"
      BY DEF SoleOp
    <3> QED  BY <1>7, <2>1, <3>1 DEF AlikeOp
  <2>3. PICK t \in OfKind(q, "create_table") : SerialTable(q, j, t)
    BY DEF SerialAt
  <2>4. PICK s \in OfKind(q, "create_sequence") : refs_match(q[s].stmt.sequence, q[j].stmt.ops[1].sequence)
    BY DEF SerialAt
  <2>5. e[t] \in OfKind(ps, "create_table") /\ SerialTable(ps, e[j], e[t])
    BY <1>4, <1>5, <2>2, <2>3 DEF SerialTable
  <2>6. e[s] \in OfKind(ps, "create_sequence") /\ refs_match(ps[e[s]].stmt.sequence, ps[e[j]].stmt.ops[1].sequence)
    BY <1>4, <1>6, <2>2, <2>4
  <2> QED  BY <2>2, <2>5, <2>6 DEF SerialAt
<1>9. ASSUME NEW type, ConstraintAt(q, type, j)
      PROVE  ConstraintAt(ps, type, e[j])
  <2>1. j \in SoleOp(q, "add_constraint") /\ q[j].stmt.ops[1].constraint.type = type
    BY <1>9 DEF ConstraintAt
  <2>2. /\ e[j] \in SoleOp(ps, "add_constraint") /\ q[j].stmt.table = ps[e[j]].stmt.table
        /\ ps[e[j]].stmt.ops[1].constraint.type = type
    <3>1. e[j] \in SoleOp(ps, "add_constraint") => ps[e[j]].stmt.ops[1].op = "add_constraint"
      BY DEF SoleOp
    <3> QED  BY <1>7, <2>1, <3>1 DEF AlikeOp
  <2>3. PICK t \in OfKind(q, "create_table") : t < j /\ refs_match(q[t].stmt.table, q[j].stmt.table)
    BY <1>9 DEF ConstraintAt
  <2>4. e[t] \in OfKind(ps, "create_table") /\ e[t] < e[j] /\ refs_match(ps[e[t]].stmt.table, ps[e[j]].stmt.table)
    BY <1>1, <1>4, <1>5, <2>2, <2>3
  <2> QED  BY <2>2, <2>4 DEF ConstraintAt
<1>10. IdentityAt(q, j) => IdentityAt(ps, e[j])
  <2> SUFFICES ASSUME IdentityAt(q, j)
               PROVE  IdentityAt(ps, e[j])
    OBVIOUS
  <2>1. j \in OfKind(q, "dump_identity")
    BY DEF IdentityAt
  <2>2. e[j] \in OfKind(ps, "dump_identity") /\ q[j].stmt = ps[e[j]].stmt
    <3>1. e[j] \in OfKind(ps, "dump_identity")
      BY <1>4, <2>1
    <3> QED  BY <1>2, <3>1 DEF OfKind, Alike
  <2>3. PICK t \in OfKind(q, "create_table") :
          /\ t < j /\ refs_match(q[t].stmt.table, q[j].stmt.table)
          /\ q[j].stmt.column \in DOMAIN q[t].stmt.columns
    BY DEF IdentityAt
  <2>4. /\ e[t] \in OfKind(ps, "create_table") /\ e[t] < e[j]
        /\ refs_match(ps[e[t]].stmt.table, ps[e[j]].stmt.table)
        /\ ps[e[j]].stmt.column \in DOMAIN ps[e[t]].stmt.columns
    BY <1>1, <1>4, <1>5, <2>2, <2>3
  <2> QED  BY <2>2, <2>4 DEF IdentityAt
<1> QED  BY <1>1, <1>2, <1>4, <1>8, <1>9, <1>10

------------------------------------------------------------------------------
(* A pass that finds nothing leaves everything.                            *)

LEMMA EmptyRange ==
  ASSUME NEW s, IsSeq(s), Range(s) = {}
  PROVE  s = <<>> /\ DOMAIN s = 1..0
<1>1. Len(s) \in Nat /\ DOMAIN s = 1..Len(s) /\ s \in Seq(Range(s))
  BY SeqFacts DEF IsSeq
<1>2. \A k \in 1..Len(s) : FALSE
  BY SeqFacts
<1>3. Len(s) = 0
  BY <1>1, <1>2
<1> QED  BY <1>1, <1>3

LEMMA DroppedNothing ==
  ASSUME NEW ps, IsParts(ps), NEW indices, Range(indices) = {}
  PROVE  drop_parts(ps, indices) = ps
<1> DEFINE q == drop_parts(ps, indices)
<1>1. Retains(q, ps, {})
  BY DropPartsIs DEF IsParts
<1> HIDE DEF q
<1>2. q = ps
  BY <1>1, RetainsAll DEF IsParts
<1> QED  BY <1>2 DEF q

LEMMA RewrittenNothing ==
  ASSUME NEW ps, IsParts(ps), NEW mid, DOMAIN mid = DOMAIN ps, mid = [t \in DOMAIN ps |-> mid[t]],
         \A t \in DOMAIN ps : mid[t] = ps[t]
  PROVE  mid = ps
<1>1. ps = [t \in DOMAIN ps |-> ps[t]]
  BY PartsFacts, SeqFacts DEF IsParts
<1>2. SameFunction(mid, ps)
  BY <1>1 DEF SameFunction
<1> QED  BY <1>2, Extensional

\* What a pass does that finds nothing to fix.
Leaves(result, ps) == result.parts = ps /\ OnlyErrors(result.diagnostics)

LEMMA SerialLeaves ==
  ASSUME NEW ps, IsParts(ps), \A i \in 1..Len(ps) : ~SerialAt(ps, i)
  PROVE  Leaves(fix_serial_idioms(ps), ps)
<1> DEFINE idioms == detect_serial_idioms(ps)
           mid == Rewritten(ps, idioms, FoldSequences)
           red == [k \in DOMAIN idioms |-> SerialRedundant(ps, idioms[k])]
           ds == [k \in DOMAIN idioms |-> SerialDiagnostics(ps, idioms[k])]
           result == fix_serial_idioms(ps)
<1>1. IsSeq(idioms) /\ Range(idioms) = {}
  BY DetectSerialIs DEF IsSerialIdiom
<1>2. result.parts = drop_parts(mid, FlattenSeq(red)) /\ result.diagnostics = FlattenSeq(ds)
  BY DEF fix_serial_idioms, Result
<1>3. /\ mid = [t \in DOMAIN ps |->
           IF {d \in Range(idioms) : d.table = t} = {} THEN ps[t]
           ELSE [ps[t] EXCEPT !.stmt = FoldSequences(ps[t].stmt, {d \in Range(idioms) : d.table = t})]]
  BY DEF Rewritten
<1> HIDE DEF idioms, mid, result
<1>4. DOMAIN idioms = 1..0
  BY <1>1, EmptyRange
<1>5. mid = ps
  <2>1. /\ DOMAIN mid = DOMAIN ps /\ mid = [t \in DOMAIN ps |-> mid[t]]
        /\ \A t \in DOMAIN ps : mid[t] = ps[t]
    BY <1>1, <1>3
  <2> QED  BY <2>1, RewrittenNothing
<1>6. red = [k \in 1..0 |-> red[k]] /\ ds = [k \in 1..0 |-> ds[k]]
  BY <1>4
<1> HIDE DEF red, ds
<1>7. FlattenSeq(red) = <<>> /\ FlattenSeq(ds) = <<>>
  <2>1. 0 \in Nat /\ \A k \in 1..0 : FALSE
    OBVIOUS
  <2>2. FlattenSeq(red) = <<>>
    BY <1>6, <2>1, FlattenedNothing
  <2>3. FlattenSeq(ds) = <<>>
    BY <1>6, <2>1, FlattenedNothing
  <2> QED  BY <2>2, <2>3
<1>8. drop_parts(ps, <<>>) = ps
  BY DroppedNothing, EmptyIsSeq
<1>9. Leaves(result, ps)
  BY <1>2, <1>5, <1>7, <1>8, NoErrors DEF Leaves
<1> QED  BY <1>9 DEF result

LEMMA ConstraintsLeave ==
  ASSUME NEW ps, IsParts(ps), NEW type, type # "primary_key_using_index",
         \A i \in 1..Len(ps) : ~ConstraintAt(ps, type, i)
  PROVE  Leaves(fix_constraints(ps, type), ps)
<1> DEFINE idioms == detect_constraints(ps, type)
           mid == Rewritten(ps, idioms, FoldConstraints)
           alters == [k \in DOMAIN idioms |-> idioms[k].alter]
           ds == [k \in DOMAIN idioms |-> Diagnostic(Rule(type), ps[idioms[k].alter].line, Fixed)]
           result == fix_constraints(ps, type)
<1>1. IsSeq(idioms) /\ Range(idioms) = {}
  BY DetectConstraintsIs DEF IsFold
<1>2. result.parts = drop_parts(mid, alters) /\ result.diagnostics = ds
  BY DEF fix_constraints, check_constraints, Result
<1>3. /\ mid = [t \in DOMAIN ps |->
           IF {d \in Range(idioms) : d.table = t} = {} THEN ps[t]
           ELSE [ps[t] EXCEPT !.stmt = FoldConstraints(ps[t].stmt, {d \in Range(idioms) : d.table = t})]]
  BY DEF Rewritten
<1> HIDE DEF idioms, mid, result
<1>4. DOMAIN idioms = 1..0
  BY <1>1, EmptyRange
<1>5. mid = ps
  <2>1. /\ DOMAIN mid = DOMAIN ps /\ mid = [t \in DOMAIN ps |-> mid[t]]
        /\ \A t \in DOMAIN ps : mid[t] = ps[t]
    BY <1>1, <1>3
  <2> QED  BY <2>1, RewrittenNothing
<1>6. alters = [k \in 1..0 |-> alters[k]] /\ ds = [k \in 1..0 |-> ds[k]]
  BY <1>4
<1> HIDE DEF alters, ds
<1>7. Range(alters) = {} /\ OnlyErrors(ds)
  <2>1. IsSeq(alters) /\ Len(alters) = 0 /\ IsSeq(ds) /\ Len(ds) = 0
    BY <1>6, FunctionIsSeq
  <2> QED  BY <2>1, SeqFacts DEF OnlyErrors
<1>8. drop_parts(ps, alters) = ps
  BY <1>7, DroppedNothing
<1>9. Leaves(result, ps)
  BY <1>2, <1>5, <1>7, <1>8 DEF Leaves
<1> QED  BY <1>9 DEF result

LEMMA IdentityAddsLeave ==
  ASSUME NEW ps, IsParts(ps), \A i \in 1..Len(ps) : ~IdentityAt(ps, i)
  PROVE  Leaves(fix_identity_adds(ps), ps)
<1> DEFINE adds == detect_identity_adds(ps)
           mid == Rewritten(ps, adds, FoldIdentities)
           alters == [k \in DOMAIN adds |-> adds[k].alter]
           ds == check_identity_adds(ps)
           result == fix_identity_adds(ps)
<1>1. IsSeq(adds) /\ Range(adds) = {}
  BY DetectIdentityAddsIs DEF IsFold
<1>2. result.parts = drop_parts(mid, alters) /\ result.diagnostics = ds
  BY DEF fix_identity_adds, Result
<1>3. /\ mid = [t \in DOMAIN ps |->
           IF {d \in Range(adds) : d.table = t} = {} THEN ps[t]
           ELSE [ps[t] EXCEPT !.stmt = FoldIdentities(ps[t].stmt, {d \in Range(adds) : d.table = t})]]
  BY DEF Rewritten
<1>4. DOMAIN ds = DOMAIN adds /\ ds = [k \in DOMAIN adds |-> ds[k]]
  BY DEF check_identity_adds
<1> HIDE DEF adds, mid, result, ds
<1>5. DOMAIN adds = 1..0
  BY <1>1, EmptyRange
<1>6. mid = ps
  <2>1. /\ DOMAIN mid = DOMAIN ps /\ mid = [t \in DOMAIN ps |-> mid[t]]
        /\ \A t \in DOMAIN ps : mid[t] = ps[t]
    BY <1>1, <1>3
  <2> QED  BY <2>1, RewrittenNothing
<1>7. alters = [k \in 1..0 |-> alters[k]] /\ ds = [k \in 1..0 |-> ds[k]]
  BY <1>4, <1>5
<1> HIDE DEF alters
<1>8. Range(alters) = {} /\ OnlyErrors(ds)
  <2>1. IsSeq(alters) /\ Len(alters) = 0 /\ IsSeq(ds) /\ Len(ds) = 0
    BY <1>7, FunctionIsSeq
  <2> QED  BY <2>1, SeqFacts DEF OnlyErrors
<1>9. drop_parts(ps, alters) = ps
  BY <1>8, DroppedNothing
<1>10. Leaves(result, ps)
  BY <1>2, <1>6, <1>8, <1>9 DEF Leaves
<1> QED  BY <1>10 DEF result

LEMMA CompressionLeaves ==
  ASSUME NEW ps, IsParts(ps), OfKind(ps, "set_compression") = {}
  PROVE  Leaves(fix_set_compression(ps), ps)
<1> DEFINE S == OfKind(ps, "set_compression")
           seqs == [i \in DOMAIN ps |->
                      IF i \notin S THEN <<>>
                      ELSE <<Diagnostic("AlterColumnSetCompressionStrip", ps[i].line, Fixed)>>]
           result == fix_set_compression(ps)
<1>1. result.parts = drop_parts(ps, SetToSeq(S)) /\ result.diagnostics = FlattenSeq(seqs)
  BY DEF fix_set_compression, check_set_compression, Result
<1>2. S = {} /\ Len(ps) \in Nat /\ DOMAIN ps = 1..Len(ps)
  BY PartsFacts
<1> HIDE DEF S, result
<1>3. seqs = [i \in 1..Len(ps) |-> seqs[i]] /\ \A i \in 1..Len(ps) : seqs[i] = <<>>
  BY <1>2
<1> HIDE DEF seqs
<1>4. FlattenSeq(seqs) = <<>>
  BY <1>2, <1>3, FlattenedNothing
<1>5. Range(SetToSeq(S)) = {}
  <2>1. IsFiniteSet(S)
    BY <1>2, FS_EmptySet
  <2> QED  BY <1>2, <2>1, SetToSeqIs
<1>6. Leaves(result, ps)
  BY <1>1, <1>4, <1>5, DroppedNothing, NoErrors DEF Leaves
<1> QED  BY <1>6 DEF result

\* The passes that only report have errors to report and nothing else.
LEMMA IdentityTargetErrors ==
  ASSUME NEW ps, IsParts(ps), NEW i, NEW op
  PROVE  OnlyErrors(IdentityTargetDiagnostics(ps, i, op))
<1> DEFINE one == Diagnostic("IdentityType", ps[i].line, Unfixable)
           two == Diagnostic("IdentityNotNull", ps[i].line, Unfixable)
           type(k) == IF ps[k].stmt.columns[op.column].type = "bigint" THEN <<>> ELSE <<one>>
           null(k) == IF IsNotNull(ps[k].stmt, op.column) THEN <<>> ELSE <<two>>
           both == [k \in 1..Len(ps) |-> type(k) \o null(k)]
           tables == Closest(ps, i, ps[i].stmt.table, op.column)
           S == {both[k] : k \in tables}
           seqs == SetToSeq(S)
<1>1. tables \subseteq 1..Len(ps) /\ IsFiniteSet(tables)
  <2>1. tables = {} \/ \E k \in 1..Len(ps) : tables = {k}
    <3> HIDE DEF tables
    <3>1. tables = {} \/ \E k \in OfKind(ps, "create_table") : tables = {k}
      BY ClosestIs DEF tables
    <3> QED  BY <3>1, OfKindIs
  <2> HIDE DEF tables
  <2>2. ASSUME NEW k, tables = {k}
        PROVE  IsFiniteSet(tables)
    BY <2>2, FS_Singleton, Zenon
  <2>3. tables = {} => IsFiniteSet(tables)
    BY FS_EmptySet, Zenon
  <2> QED  BY <2>1, <2>2, <2>3
<1>2. IdentityTargetDiagnostics(ps, i, op) = FlattenSeq(SetToSeq({type(k) \o null(k) : k \in tables}))
  BY DEF IdentityTargetDiagnostics
<1>3. one.fix_result = Unfixable /\ two.fix_result = Unfixable
  BY DEF Diagnostic
<1> HIDE DEF one, two
<1>4. \A k \in 1..Len(ps) : OnlyErrors(type(k)) /\ OnlyErrors(null(k))
  BY <1>3, OneError, NoErrors
<1> HIDE DEF type, null
<1>5. \A k \in 1..Len(ps) : OnlyErrors(both[k])
  BY <1>4, ErrorsConcat
<1>6. {type(k) \o null(k) : k \in tables} = S
  <2>1. \A k \in tables : both[k] = type(k) \o null(k)
    BY <1>1
  <2> HIDE DEF both, tables
  <2> QED  BY <2>1, Zenon
<1> HIDE DEF both, tables
<1>7. IsSeq(seqs) /\ Range(seqs) = S
  <2>1. IsFiniteSet(S)
    BY <1>1, ImageIsFinite
  <2> HIDE DEF S
  <2> QED  BY <2>1, SetToSeqIs
<1>8. \A s \in S : OnlyErrors(s)
  BY <1>1, <1>5
<1> HIDE DEF S
<1>9. seqs = [k \in 1..Len(seqs) |-> seqs[k]] /\ Len(seqs) \in Nat /\ \A k \in 1..Len(seqs) : seqs[k] \in S
  BY <1>7, SeqFacts
<1> HIDE DEF seqs
<1>10. OnlyErrors(FlattenSeq(seqs))
  BY <1>8, <1>9, ErrorsFlattened
<1> QED  BY <1>2, <1>6, <1>10 DEF seqs

LEMMA IdentityTargetsLeave ==
  ASSUME NEW ps, IsParts(ps)
  PROVE  Leaves(Result(ps, check_identity_alter_targets(ps)), ps)
<1> DEFINE n == Len(ps)
           alters == OfKind(ps, "alter_table")
           ops(i) == [k \in DOMAIN ps[i].stmt.ops |->
                        IF ps[i].stmt.ops[k].op # "add_identity" THEN <<>>
                        ELSE IdentityTargetDiagnostics(ps, i, ps[i].stmt.ops[k])]
           seqs == [i \in DOMAIN ps |-> IF i \notin alters THEN <<>> ELSE FlattenSeq(ops(i))]
<1>1. n \in Nat /\ DOMAIN ps = 1..n
  BY PartsFacts
<1>2. check_identity_alter_targets(ps) = FlattenSeq(seqs)
  BY DEF check_identity_alter_targets
<1>3. ASSUME NEW i \in 1..n
      PROVE  OnlyErrors(seqs[i])
  <2>1. seqs[i] = IF i \notin alters THEN <<>> ELSE FlattenSeq(ops(i))
    BY <1>1
  <2>2. ASSUME i \in alters
        PROVE  OnlyErrors(FlattenSeq(ops(i)))
    <3> DEFINE m == Len(ps[i].stmt.ops)
               these == ops(i)
    <3>1. ps[i].stmt.kind = "alter_table"
      BY <2>2, OfKindIs
    <3>2. IsSeq(ps[i].stmt.ops)
      BY <3>1 DEF IsParts, IsPart, IsStatement, IsAlter, IsSeq
    <3>3. m \in Nat /\ DOMAIN ps[i].stmt.ops = 1..m
      BY <3>2, SeqFacts
    <3>4. these = [k \in 1..m |-> these[k]]
      BY <3>3
    <3>5. \A k \in 1..m : these[k] = IF ps[i].stmt.ops[k].op # "add_identity" THEN <<>>
                                     ELSE IdentityTargetDiagnostics(ps, i, ps[i].stmt.ops[k])
      BY <3>3
    <3> HIDE DEF these, m
    <3>6. \A k \in 1..m : OnlyErrors(these[k])
      BY <3>5, IdentityTargetErrors, NoErrors
    <3>7. OnlyErrors(FlattenSeq(these))
      BY <3>3, <3>4, <3>6, ErrorsFlattened
    <3> QED  BY <3>7 DEF these
  <2> HIDE DEF seqs, alters, ops
  <2> QED  BY <2>1, <2>2, NoErrors
<1>4. seqs = [i \in 1..n |-> seqs[i]]
  BY <1>1
<1> HIDE DEF seqs
<1>5. OnlyErrors(FlattenSeq(seqs))
  BY <1>1, <1>3, <1>4, ErrorsFlattened
<1> QED  BY <1>2, <1>5 DEF Leaves, Result

LEMMA RemovalsLeave ==
  ASSUME NEW ps, IsParts(ps)
  PROVE  Leaves(Result(ps, check_primary_key_removals(ps)), ps)
<1> DEFINE n == Len(ps)
           alters == OfKind(ps, "alter_table")
           removals(i) == {m \in DOMAIN ps[i].stmt.ops : \E k \in Target(ps, i) : Removes(ps[i].stmt.ops[m], ps[k].stmt)}
           these(i) == [m \in 1..Cardinality(removals(i)) |-> Diagnostic("PrimaryKeyRemoval", ps[i].line, Unfixable)]
           seqs == [i \in DOMAIN ps |-> IF i \notin alters THEN <<>> ELSE these(i)]
<1>1. n \in Nat /\ DOMAIN ps = 1..n
  BY PartsFacts
<1>2. check_primary_key_removals(ps) = FlattenSeq(seqs)
  BY DEF check_primary_key_removals
<1>3. ASSUME NEW i \in 1..n
      PROVE  OnlyErrors(seqs[i])
  <2>1. seqs[i] = IF i \notin alters THEN <<>> ELSE these(i)
    BY <1>1
  <2>2. ASSUME i \in alters
        PROVE  OnlyErrors(these(i))
    <3> DEFINE c == Cardinality(removals(i))
               one == Diagnostic("PrimaryKeyRemoval", ps[i].line, Unfixable)
               ds == [m \in 1..c |-> one]
    <3>1. ps[i].stmt.kind = "alter_table"
      BY <2>2, OfKindIs
    <3>2. IsSeq(ps[i].stmt.ops)
      BY <3>1 DEF IsParts, IsPart, IsStatement, IsAlter, IsSeq
    <3>3. IsFiniteSet(DOMAIN ps[i].stmt.ops)
      <4>1. Len(ps[i].stmt.ops) \in Nat /\ DOMAIN ps[i].stmt.ops = 1..Len(ps[i].stmt.ops)
        BY <3>2, SeqFacts
      <4>2. \A m \in Nat : IsFiniteSet(1..m)
        BY FS_Interval
      <4> QED  BY <4>1, <4>2, Zenon
    <3>4. IsFiniteSet(removals(i))
      BY <3>3, FS_Subset
    <3> HIDE DEF removals
    <3>5. c \in Nat
      BY <3>4, FS_CardinalityType
    <3>6. one.fix_result = Unfixable
      BY DEF Diagnostic
    <3> HIDE DEF c, one
    <3>7. IsSeq(ds) /\ Len(ds) = c /\ \A m \in 1..c : ds[m] = one
      BY <3>5, FunctionIsSeq
    <3>8. \A d \in Range(ds) : d = one
      BY <3>7, SeqFacts
    <3> QED  BY <3>6, <3>7, <3>8 DEF c, one, OnlyErrors
  <2> HIDE DEF seqs, alters, these
  <2> QED  BY <2>1, <2>2, NoErrors
<1>4. seqs = [i \in 1..n |-> seqs[i]]
  BY <1>1
<1> HIDE DEF seqs
<1>5. OnlyErrors(FlattenSeq(seqs))
  BY <1>1, <1>3, <1>4, ErrorsFlattened
<1> QED  BY <1>2, <1>5 DEF Leaves, Result

\* check_statements leaves statements that it leaves alone.
RestingParts(ps) == \A k \in 1..Len(ps) : RestingPart(ps[k])

LEMMA StatementsSettle ==
  ASSUME NEW ps, IsParts(ps)
  PROVE  RestingParts(check_statements(ps).parts)
<1> DEFINE q == [k \in DOMAIN ps |-> check_statement(ps[k])]
<1>1. Len(ps) \in Nat /\ DOMAIN ps = 1..Len(ps)
  BY PartsFacts
<1>2. check_statements(ps).parts = q
  BY DEF check_statements, Result
<1>3. q = [k \in 1..Len(ps) |-> q[k]] /\ \A k \in 1..Len(ps) : q[k] = check_statement(ps[k])
  BY <1>1
<1> HIDE DEF q
<1>4. Len(q) = Len(ps)
  BY <1>1, <1>3, FunctionIsSeq
<1>5. \A k \in 1..Len(ps) : RestingPart(q[k])
  BY <1>3, StatementRests DEF IsParts
<1> QED  BY <1>2, <1>4, <1>5 DEF RestingParts

LEMMA StatementsLeave ==
  ASSUME NEW ps, IsParts(ps), RestingParts(ps)
  PROVE  Leaves(check_statements(ps), ps)
<1> DEFINE q == [k \in DOMAIN ps |-> check_statement(ps[k])]
           seqs == [k \in DOMAIN ps |-> StatementFound(ps[k])]
           result == check_statements(ps)
<1>1. Len(ps) \in Nat /\ DOMAIN ps = 1..Len(ps)
  BY PartsFacts
<1>2. result.parts = q /\ result.diagnostics = FlattenSeq(seqs)
  BY DEF check_statements, Result
<1>3. \A k \in 1..Len(ps) : check_statement(ps[k]) = ps[k] /\ OnlyErrors(StatementFound(ps[k]))
  BY DEF RestingParts, RestingPart
<1>4. /\ DOMAIN q = DOMAIN ps /\ q = [k \in DOMAIN ps |-> q[k]]
      /\ \A k \in DOMAIN ps : q[k] = ps[k]
  BY <1>1, <1>3
<1>5. /\ seqs = [k \in 1..Len(ps) |-> seqs[k]]
      /\ \A k \in 1..Len(ps) : OnlyErrors(seqs[k])
  BY <1>1, <1>3
<1> HIDE DEF q, seqs, result
<1>6. q = ps
  BY <1>4, RewrittenNothing
<1>7. OnlyErrors(FlattenSeq(seqs))
  BY <1>1, <1>5, ErrorsFlattened
<1>8. Leaves(result, ps)
  BY <1>2, <1>6, <1>7 DEF Leaves
<1> QED  BY <1>8 DEF result

------------------------------------------------------------------------------
(* The invariant: what the passes so far have left nothing of.             *)

Cleaned(ps, p) ==
  /\ p > 1 => \A i \in 1..Len(ps) : ~SerialAt(ps, i)
  /\ p > 2 => \A i \in 1..Len(ps) : ~ConstraintAt(ps, "unique", i)
  /\ p > 3 => \A i \in 1..Len(ps) : ~ConstraintAt(ps, "primary_key", i)
  /\ p > 5 => \A i \in 1..Len(ps) : ~IdentityAt(ps, i)
  /\ p > 6 => OfKind(ps, "set_compression") = {}
  /\ p > 8 => RestingParts(ps)

RunInv ==
  /\ run = "first" /\ pass > 0 => Cleaned(parts, pass)
  /\ run = "second" => /\ pass > 0 /\ dialect = "postgres"
                       /\ parts = input /\ Cleaned(parts, 10) /\ OnlyErrors(diagnostics)

\* What the passes after a pass bring nothing back of.
LEMMA CleanedStays ==
  ASSUME NEW ps, IsParts(ps), NEW q, NEW D, Rewrites(q, ps, D), NEW p \in 1..8, Cleaned(ps, p)
  PROVE  /\ Cleaned(q, p)
         /\ (\A i \in 1..Len(ps) : SerialAt(ps, i) => i \in D) => \A j \in 1..Len(q) : ~SerialAt(q, j)
         /\ \A type : (\A i \in 1..Len(ps) : ConstraintAt(ps, type, i) => i \in D)
                        => \A j \in 1..Len(q) : ~ConstraintAt(q, type, j)
         /\ (\A i \in 1..Len(ps) : IdentityAt(ps, i) => i \in D) => \A j \in 1..Len(q) : ~IdentityAt(q, j)
         /\ OfKind(ps, "set_compression") \subseteq D => OfKind(q, "set_compression") = {}
<1>1. IsParts(q)
  BY DEF Rewrites
<1>2. OfKind(q, "set_compression") \subseteq 1..Len(q)
  BY <1>1, OfKindIs
<1>3. (\A i \in 1..Len(ps) : SerialAt(ps, i) => i \in D) => \A j \in 1..Len(q) : ~SerialAt(q, j)
  BY NothingNew
<1>4. ASSUME NEW type, \A i \in 1..Len(ps) : ConstraintAt(ps, type, i) => i \in D
      PROVE  \A j \in 1..Len(q) : ~ConstraintAt(q, type, j)
  BY <1>4, NothingNew
<1>5. (\A i \in 1..Len(ps) : IdentityAt(ps, i) => i \in D) => \A j \in 1..Len(q) : ~IdentityAt(q, j)
  BY NothingNew
<1>6. OfKind(ps, "set_compression") \subseteq D => OfKind(q, "set_compression") = {}
  BY <1>2, NothingNew
<1>7. Cleaned(q, p)
  <2>1. p \in 1..8 /\ ~(p > 8)
    OBVIOUS
  <2>2. p > 2 => \A j \in 1..Len(q) : ~ConstraintAt(q, "unique", j)
    BY <1>4 DEF Cleaned
  <2>3. p > 3 => \A j \in 1..Len(q) : ~ConstraintAt(q, "primary_key", j)
    BY <1>4 DEF Cleaned
  <2>4. p > 1 => \A j \in 1..Len(q) : ~SerialAt(q, j)
    BY <1>3 DEF Cleaned
  <2>5. p > 5 => \A j \in 1..Len(q) : ~IdentityAt(q, j)
    BY <1>5 DEF Cleaned
  <2>6. p > 6 => OfKind(q, "set_compression") = {}
    BY <1>6 DEF Cleaned
  <2> QED  BY <2>1, <2>2, <2>3, <2>4, <2>5, <2>6 DEF Cleaned
<1> QED  BY <1>3, <1>4, <1>5, <1>6, <1>7

\* The passes, by their numbers.
PassResult(p, ps) ==
  CASE p = 1 -> fix_serial_idioms(ps)
    [] p = 2 -> fix_constraints(ps, "unique")
    [] p = 3 -> fix_constraints(ps, "primary_key")
    [] p = 4 -> Result(ps, check_identity_alter_targets(ps))
    [] p = 5 -> fix_identity_adds(ps)
    [] p = 6 -> fix_set_compression(ps)
    [] p = 7 -> Result(ps, check_primary_key_removals(ps))
    [] p = 8 -> check_statements(ps)

LEMMA FoldCleans ==
  ASSUME NEW ps, IsParts(ps), NEW p \in 2..7, Cleaned(ps, p), NEW result, NEW M, Folds(result, ps, M),
         p = 2 => M = {i \in 1..Len(ps) : ConstraintAt(ps, "unique", i)},
         p = 3 => M = {i \in 1..Len(ps) : ConstraintAt(ps, "primary_key", i)},
         p = 5 => M = {i \in 1..Len(ps) : IdentityAt(ps, i)},
         p = 6 => M = OfKind(ps, "set_compression")
  PROVE  Cleaned(result.parts, p + 1)
<1> DEFINE q == result.parts
<1>1. PICK D : Rewrites(q, ps, D) /\ M \subseteq D
  BY DEF Folds
<1> HIDE DEF q
<1>2. p \in 1..8
  OBVIOUS
<1>3. /\ Cleaned(q, p)
      /\ \A type : (\A i \in 1..Len(ps) : ConstraintAt(ps, type, i) => i \in D)
                     => \A j \in 1..Len(q) : ~ConstraintAt(q, type, j)
      /\ (\A i \in 1..Len(ps) : IdentityAt(ps, i) => i \in D) => \A j \in 1..Len(q) : ~IdentityAt(q, j)
      /\ OfKind(ps, "set_compression") \subseteq D => OfKind(q, "set_compression") = {}
  BY <1>1, <1>2, CleanedStays
<1>4. p = 2 => \A j \in 1..Len(q) : ~ConstraintAt(q, "unique", j)
  BY <1>1, <1>3
<1>5. p = 3 => \A j \in 1..Len(q) : ~ConstraintAt(q, "primary_key", j)
  BY <1>1, <1>3
<1>6. p = 5 => \A j \in 1..Len(q) : ~IdentityAt(q, j)
  BY <1>1, <1>3
<1>7. p = 6 => OfKind(q, "set_compression") = {}
  BY <1>1, <1>3
<1>8. Cleaned(q, p + 1)
  BY <1>3, <1>4, <1>5, <1>6, <1>7 DEF Cleaned
<1> QED  BY <1>8 DEF q

LEMMA PassCleans ==
  ASSUME NEW ps, IsParts(ps), NEW p \in 1..8, Cleaned(ps, p)
  PROVE  Cleaned(PassResult(p, ps).parts, p + 1)
<1>1. CASE p = 1
  <2> DEFINE result == fix_serial_idioms(ps)
             q == result.parts
  <2>1. PICK D : Rewrites(q, ps, D) /\ \A i \in 1..Len(ps) : SerialAt(ps, i) => i \in D
    BY FixSerialIs
  <2>2. PassResult(p, ps).parts = q
    BY <1>1 DEF PassResult
  <2> HIDE DEF q
  <2>3. \A j \in 1..Len(q) : ~SerialAt(q, j)
    BY <2>1, CleanedStays
  <2> QED  BY <1>1, <2>2, <2>3 DEF Cleaned
<1>2. CASE p = 2
  <2>1. PassResult(p, ps) = fix_constraints(ps, "unique")
    BY <1>2 DEF PassResult
  <2> DEFINE M == {i \in 1..Len(ps) : ConstraintAt(ps, "unique", i)}
             result == PassResult(p, ps)
  <2>2. Folds(result, ps, M)
    BY <2>1, FixConstraintsIs
  <2>3. p \in 2..7 /\ (p = 2 => M = {i \in 1..Len(ps) : ConstraintAt(ps, "unique", i)})
    BY <1>2
  <2> HIDE DEF M, result
  <2>4. Cleaned(result.parts, p + 1)
    BY <1>2, <2>2, <2>3, FoldCleans
  <2> QED  BY <2>4 DEF result
<1>3. CASE p = 3
  <2>1. PassResult(p, ps) = fix_constraints(ps, "primary_key")
    BY <1>3 DEF PassResult
  <2> DEFINE M == {i \in 1..Len(ps) : ConstraintAt(ps, "primary_key", i)}
             result == PassResult(p, ps)
  <2>2. Folds(result, ps, M)
    BY <2>1, FixConstraintsIs
  <2>3. p \in 2..7 /\ (p = 3 => M = {i \in 1..Len(ps) : ConstraintAt(ps, "primary_key", i)})
    BY <1>3
  <2> HIDE DEF M, result
  <2>4. Cleaned(result.parts, p + 1)
    BY <1>3, <2>2, <2>3, FoldCleans
  <2> QED  BY <2>4 DEF result
<1>4. CASE p = 4
  <2>1. PassResult(p, ps) = Result(ps, check_identity_alter_targets(ps))
    BY <1>4 DEF PassResult
  <2> QED  BY <1>4, <2>1, CheckIdentityTargetsIs, FoldCleans
<1>5. CASE p = 5
  <2>1. PassResult(p, ps) = fix_identity_adds(ps)
    BY <1>5 DEF PassResult
  <2> DEFINE M == {i \in 1..Len(ps) : IdentityAt(ps, i)}
             result == PassResult(p, ps)
  <2>2. Folds(result, ps, M)
    BY <2>1, FixIdentityAddsIs
  <2>3. p \in 2..7 /\ (p = 5 => M = {i \in 1..Len(ps) : IdentityAt(ps, i)})
    BY <1>5
  <2> HIDE DEF M, result
  <2>4. Cleaned(result.parts, p + 1)
    BY <1>5, <2>2, <2>3, FoldCleans
  <2> QED  BY <2>4 DEF result
<1>6. CASE p = 6
  <2>1. PassResult(p, ps) = fix_set_compression(ps)
    BY <1>6 DEF PassResult
  <2> QED  BY <1>6, <2>1, FixSetCompressionIs, FoldCleans
<1>7. CASE p = 7
  <2>1. PassResult(p, ps) = Result(ps, check_primary_key_removals(ps))
    BY <1>7 DEF PassResult
  <2> QED  BY <1>7, <2>1, CheckRemovalsIs, FoldCleans
<1>8. CASE p = 8
  <2> DEFINE q == check_statements(ps).parts
  <2>1. Rewrites(q, ps, {}) /\ RestingParts(q)
    BY CheckStatementsIs, StatementsSettle
  <2>2. PassResult(p, ps).parts = q
    BY <1>8 DEF PassResult
  <2> HIDE DEF q
  <2>3. Cleaned(q, p)
    BY <2>1, CleanedStays
  <2> QED  BY <1>8, <2>1, <2>2, <2>3 DEF Cleaned
<1> QED  BY <1>1, <1>2, <1>3, <1>4, <1>5, <1>6, <1>7, <1>8

LEMMA PassLeaves ==
  ASSUME NEW ps, IsParts(ps), NEW p \in 1..8, Cleaned(ps, 10)
  PROVE  Leaves(PassResult(p, ps), ps)
<1>1. /\ \A i \in 1..Len(ps) : /\ ~SerialAt(ps, i) /\ ~IdentityAt(ps, i)
                               /\ ~ConstraintAt(ps, "unique", i) /\ ~ConstraintAt(ps, "primary_key", i)
      /\ OfKind(ps, "set_compression") = {} /\ RestingParts(ps)
  BY DEF Cleaned
<1>2. p = 1 => Leaves(PassResult(p, ps), ps)
  BY <1>1, SerialLeaves DEF PassResult
<1>3. p = 2 => Leaves(PassResult(p, ps), ps)
  BY <1>1, ConstraintsLeave DEF PassResult
<1>4. p = 3 => Leaves(PassResult(p, ps), ps)
  BY <1>1, ConstraintsLeave DEF PassResult
<1>5. p = 4 => Leaves(PassResult(p, ps), ps)
  BY IdentityTargetsLeave DEF PassResult
<1>6. p = 5 => Leaves(PassResult(p, ps), ps)
  BY <1>1, IdentityAddsLeave DEF PassResult
<1>7. p = 6 => Leaves(PassResult(p, ps), ps)
  BY <1>1, CompressionLeaves DEF PassResult
<1>8. p = 7 => Leaves(PassResult(p, ps), ps)
  BY RemovalsLeave DEF PassResult
<1>9. p = 8 => Leaves(PassResult(p, ps), ps)
  BY <1>1, StatementsLeave DEF PassResult
<1> QED  BY <1>2, <1>3, <1>4, <1>5, <1>6, <1>7, <1>8, <1>9

\* Each of the first eight actions is the pass of its number.
FixStep ==
  \/ FixSerialIdioms \/ FixAlterAddUnique \/ FixAlterAddPrimaryKey
  \/ CheckIdentityAlterTargets \/ FixIdentityAdds \/ FixSetCompression
  \/ CheckPrimaryKeyRemovals \/ CheckStatements

LEMMA FixStepIsPass ==
  ASSUME Inv, FixStep
  PROVE  /\ pass \in 1..8 /\ pass' = pass + 1
         /\ parts' = PassResult(pass, parts).parts
         /\ diagnostics' = diagnostics \o PassResult(pass, parts).diagnostics
         /\ UNCHANGED <<source, dialect, input, run>>
<1>1. pass > 0 => pass \in 1..10
  BY DEF Inv
<1>2. CASE FixSerialIdioms
  <2>1. pass = 1
    BY <1>1, <1>2 DEF FixSerialIdioms, Apply, Passes
  <2> QED  BY <1>2, <2>1 DEF FixSerialIdioms, Apply, PassResult
<1>3. CASE FixAlterAddUnique
  <2>1. pass = 2
    BY <1>1, <1>3 DEF FixAlterAddUnique, Apply, Passes
  <2> QED  BY <1>3, <2>1 DEF FixAlterAddUnique, Apply, PassResult
<1>4. CASE FixAlterAddPrimaryKey
  <2>1. pass = 3
    BY <1>1, <1>4 DEF FixAlterAddPrimaryKey, Apply, Passes
  <2> QED  BY <1>4, <2>1 DEF FixAlterAddPrimaryKey, Apply, PassResult
<1>5. CASE CheckIdentityAlterTargets
  <2>1. pass = 4
    BY <1>1, <1>5 DEF CheckIdentityAlterTargets, Apply, Passes
  <2> QED  BY <1>5, <2>1 DEF CheckIdentityAlterTargets, Apply, PassResult
<1>6. CASE FixIdentityAdds
  <2>1. pass = 5
    BY <1>1, <1>6 DEF FixIdentityAdds, Apply, Passes
  <2> QED  BY <1>6, <2>1 DEF FixIdentityAdds, Apply, PassResult
<1>7. CASE FixSetCompression
  <2>1. pass = 6
    BY <1>1, <1>7 DEF FixSetCompression, Apply, Passes
  <2> QED  BY <1>7, <2>1 DEF FixSetCompression, Apply, PassResult
<1>8. CASE CheckPrimaryKeyRemovals
  <2>1. pass = 7
    BY <1>1, <1>8 DEF CheckPrimaryKeyRemovals, Apply, Passes
  <2> QED  BY <1>8, <2>1 DEF CheckPrimaryKeyRemovals, Apply, PassResult
<1>9. CASE CheckStatements
  <2>1. pass = 8
    BY <1>1, <1>9 DEF CheckStatements, Apply, Passes
  <2> QED  BY <1>9, <2>1 DEF CheckStatements, Apply, PassResult
<1> QED  BY <1>2, <1>3, <1>4, <1>5, <1>6, <1>7, <1>8, <1>9 DEF FixStep

LEMMA InitRunInv == Init => RunInv
BY DEF Init, RunInv, Cleaned

LEMMA NextRunInv == Inv /\ RunInv /\ [Next]_vars => RunInv'
<1> SUFFICES ASSUME Inv, RunInv, [Next]_vars
             PROVE  RunInv'
  OBVIOUS
<1>1. pass \in 0..10 /\ run \in {"first", "second"} /\ (pass > 0 => IsParts(parts))
  BY DEF Inv, Passing
<1>2. CASE Translate
  <2>1. pass' = 1 /\ run = "first" /\ run' = run
    BY <1>1, <1>2 DEF Translate, RunInv
  <2> QED  BY <2>1 DEF RunInv, Cleaned
<1>3. CASE FixStep
  <2> DEFINE result == PassResult(pass, parts)
  <2>1. /\ pass \in 1..8 /\ pass' = pass + 1
        /\ parts' = result.parts /\ diagnostics' = diagnostics \o result.diagnostics
        /\ UNCHANGED <<source, dialect, input, run>>
    BY <1>3, FixStepIsPass
  <2>2. IsParts(parts)
    BY <1>1, <2>1
  <2>3. CASE run = "first"
    <3>1. Cleaned(parts, pass)
      BY <2>1, <2>3 DEF RunInv
    <3>2. Cleaned(result.parts, pass + 1)
      BY <2>1, <2>2, <3>1, PassCleans
    <3> HIDE DEF result
    <3>3. Cleaned(parts', pass')
      BY <2>1, <3>2
    <3> QED  BY <2>1, <2>3, <3>3 DEF RunInv
  <2>4. CASE run = "second"
    <3>1. dialect = "postgres" /\ parts = input /\ Cleaned(parts, 10) /\ OnlyErrors(diagnostics)
      BY <2>4 DEF RunInv
    <3>2. Leaves(result, parts)
      BY <2>1, <2>2, <3>1, PassLeaves
    <3> HIDE DEF result
    <3>3. parts' = parts /\ OnlyErrors(diagnostics')
      BY <2>1, <3>1, <3>2, ErrorsConcat DEF Leaves
    <3>4. Cleaned(parts', 10)
      BY <3>1, <3>3
    <3> QED  BY <2>1, <2>4, <3>1, <3>3, <3>4 DEF RunInv
  <2> QED  BY <1>1, <2>3, <2>4
<1>4. CASE SortDiagnostics
  <2>1. pass = 9
    BY <1>1, <1>4 DEF SortDiagnostics, Passes
  <2>2. pass' = 10 /\ UNCHANGED <<source, dialect, input, parts, run>>
    BY <1>4, <2>1 DEF SortDiagnostics
  <2>3. dialect = "postgres" => diagnostics' = diagnostics
    BY <1>4 DEF SortDiagnostics
  <2>4. run = "first" => Cleaned(parts', 10)
    <3>1. run = "first" => Cleaned(parts, 9)
      BY <2>1 DEF RunInv
    <3> QED  BY <2>2, <3>1 DEF Cleaned
  <2> QED  BY <2>2, <2>3, <2>4 DEF RunInv
<1>5. CASE Rerun
  <2>1. pass = 10 /\ run = "first"
    BY <1>1, <1>5 DEF Rerun, Passes
  <2>2. /\ pass' = 1 /\ dialect' = "postgres" /\ run' = "second"
        /\ parts' = parts /\ input' = parts /\ diagnostics' = <<>>
    BY <1>5 DEF Rerun
  <2>3. Cleaned(parts, 10)
    BY <2>1 DEF RunInv
  <2>4. Cleaned(parts', 10) /\ OnlyErrors(diagnostics')
    BY <2>2, <2>3, NoErrors
  <2> QED  BY <2>2, <2>4 DEF RunInv
<1>6. CASE UNCHANGED vars
  BY <1>6 DEF RunInv, vars
<1> QED  BY <1>2, <1>3, <1>4, <1>5, <1>6 DEF Next, FixStep

LEMMA RunInvIdempotent == RunInv => FixIsIdempotent
<1> SUFFICES ASSUME RunInv, run = "second"
             PROVE  parts = input /\ \A d \in Range(diagnostics) : d.fix_result = Unfixable
  BY DEF FixIsIdempotent
<1> QED  BY DEF RunInv, OnlyErrors

------------------------------------------------------------------------------
(* Running the command again on its own output (src/dsql-lint/src/lint.rs,   *)
(* fix_sql) changes nothing in it, finds nothing more to fix, and reports     *)
(* nothing but errors, whatever the script and the dialect it was written in. *)
THEOREM Idempotent == Spec => []FixIsIdempotent
<1>1. Inv /\ RunInv /\ [Next]_vars => Inv' /\ RunInv'
  BY NextInv, NextRunInv
<1>2. Init => Inv /\ RunInv
  BY InitInv, InitRunInv
<1> QED  BY <1>1, <1>2, RunInvIdempotent, PTL DEF Spec

------------------------------------------------------------------------------
(* What is found without an error the rules have made one of DSQL's.        *)

\* Of findings or diagnostics.
Errorless(ds) == \A d \in Range(ds) : d.fix_result # Unfixable

LEMMA ErrorlessConcat ==
  ASSUME NEW s, NEW t, IsSeq(s), IsSeq(t), Errorless(s \o t)
  PROVE  Errorless(s) /\ Errorless(t)
<1> DEFINE st == s \o t
<1>1. Range(st) = Range(s) \cup Range(t)
  BY ConcatIsSeq
<1>2. Errorless(st)
  OBVIOUS
<1> HIDE DEF st
<1> QED  BY <1>1, <1>2 DEF Errorless

LEMMA ErrorlessFlattened ==
  ASSUME NEW n \in Nat, NEW seqs, seqs = [k \in 1..n |-> seqs[k]], \A k \in 1..n : IsSeq(seqs[k]),
         Errorless(FlattenSeq(seqs))
  PROVE  \A k \in 1..n : Errorless(seqs[k])
<1> DEFINE flat == FlattenSeq(seqs)
<1>1. IsSeq(seqs) /\ Len(seqs) = n
  BY FunctionIsSeq
<1>2. Flattened(flat, n, seqs) /\ Errorless(flat)
  BY <1>1, FlattenSeqIs
<1> HIDE DEF flat
<1> QED  BY <1>2 DEF Errorless, Flattened

LEMMA ErrorIsFound ==
  ASSUME NEW r
  PROVE  ~Errorless(<<Found(r, Unfixable)>>)
<1> DEFINE one == <<Found(r, Unfixable)>>
<1>1. Found(r, Unfixable) \in Range(one) /\ Found(r, Unfixable).fix_result = Unfixable
  BY SingletonIsSeq DEF Found
<1> HIDE DEF one
<1>2. ~Errorless(one)
  BY <1>1 DEF Errorless
<1> QED  BY <1>2 DEF one

LEMMA ErrorlessReport ==
  ASSUME NEW c, NEW r, Errorless(Report(c, r, Unfixable))
  PROVE  ~c
<1>1. c => Report(c, r, Unfixable) = <<Found(r, Unfixable)>>
  BY Zenon DEF Report
<1> DEFINE report == Report(c, r, Unfixable)
           one == <<Found(r, Unfixable)>>
<1>2. Errorless(report) /\ ~Errorless(one) /\ (c => report = one)
  BY <1>1, ErrorIsFound
<1> HIDE DEF report, one
<1> QED  BY <1>2

LEMMA ForeignKeyAccepted ==
  ASSUME NEW f, IsForeignKey(f), Errorless(ForeignKeyFound(f))
  PROVE  DsqlReference(check_foreign_key(f))
<1> DEFINE A == Report(f.match = "partial", "ForeignKeyMatchPartial", Unfixable)
           B == Report(f.enforced = "enforced", "ForeignKeyEnforced", Fixed)
           C == Report(f.enforced = "not_enforced", "ForeignKeyEnforced", Warned)
<1>1. IsSeq(A) /\ IsSeq(B) /\ IsSeq(C)
  BY ReportIsSeq
<1>2. Errorless(A \o B \o C)
  BY DEF ForeignKeyFound
<1> HIDE DEF A, B, C
<1>3. IsSeq(A \o B)
  BY <1>1, ConcatIsSeq
<1>4. Errorless(A \o B)
  BY <1>1, <1>2, <1>3, ErrorlessConcat
<1>5. Errorless(A)
  BY <1>1, <1>4, ErrorlessConcat
<1>6. f.match # "partial"
  BY <1>5, ErrorlessReport DEF A
<1>7. check_foreign_key(f).match = f.match /\ check_foreign_key(f).enforced = "default"
  BY DEF check_foreign_key, IsForeignKey
<1> QED  BY <1>6, <1>7 DEF DsqlReference

LEMMA ForeignKeysAccepted ==
  ASSUME NEW S, IsFiniteSet(S), \A f \in S : IsForeignKey(f), Errorless(OfEach(ForeignKeyFound, S))
  PROVE  \A f \in S : DsqlReference(check_foreign_key(f))
<1> DEFINE q == SetToSeq(S)
           seqs == [k \in DOMAIN q |-> ForeignKeyFound(q[k])]
<1>1. IsSeq(q) /\ Range(q) = S
  BY SetToSeqIs
<1>2. DOMAIN q = 1..Len(q) /\ Len(q) \in Nat /\ \A f \in S : \E k \in 1..Len(q) : q[k] = f
  BY <1>1, SeqFacts
<1>3. OfEach(ForeignKeyFound, S) = FlattenSeq(seqs)
  BY DEF OfEach
<1> HIDE DEF q
<1>4. /\ seqs = [k \in 1..Len(q) |-> seqs[k]]
      /\ \A k \in 1..Len(q) : IsSeq(seqs[k]) /\ seqs[k] = ForeignKeyFound(q[k])
  BY <1>2, ForeignKeyFoundIsSeq
<1> HIDE DEF seqs
<1>5. \A k \in 1..Len(q) : Errorless(ForeignKeyFound(q[k]))
  BY <1>2, <1>3, <1>4, ErrorlessFlattened
<1> QED  BY <1>2, <1>5, ForeignKeyAccepted

LEMMA ErrorlessCache ==
  ASSUME NEW r, NEW cache, Errorless(CacheFound(r, cache))
  PROVE  cache # CacheExpression
<1> DEFINE A == Report(cache >= 0 /\ ~IsCache(cache), r, Warned)
           B == Report(cache = CacheExpression, r, Unfixable)
<1>1. IsSeq(A) /\ IsSeq(B)
  BY ReportIsSeq
<1>2. Errorless(A \o B)
  BY DEF CacheFound
<1> HIDE DEF A, B
<1>3. Errorless(B)
  BY <1>1, <1>2, ErrorlessConcat
<1> QED  BY <1>3, ErrorlessReport DEF B

LEMMA ErrorlessCaches ==
  ASSUME NEW S, IsFiniteSet(S), Errorless(OfEach(LAMBDA i : CacheFound("IdentityCache", i.cache), S))
  PROVE  \A i \in S : i.cache # CacheExpression
<1> DEFINE q == SetToSeq(S)
           seqs == [k \in DOMAIN q |-> CacheFound("IdentityCache", q[k].cache)]
<1>1. IsSeq(q) /\ Range(q) = S
  BY SetToSeqIs
<1>2. DOMAIN q = 1..Len(q) /\ Len(q) \in Nat /\ \A i \in S : \E k \in 1..Len(q) : q[k] = i
  BY <1>1, SeqFacts
<1>3. OfEach(LAMBDA i : CacheFound("IdentityCache", i.cache), S) = FlattenSeq(seqs)
  BY DEF OfEach
<1> HIDE DEF q
<1>4. /\ seqs = [k \in 1..Len(q) |-> seqs[k]]
      /\ \A k \in 1..Len(q) : IsSeq(seqs[k]) /\ seqs[k] = CacheFound("IdentityCache", q[k].cache)
  BY <1>2, CacheFoundIsSeq
<1> HIDE DEF seqs
<1>5. \A k \in 1..Len(q) : Errorless(CacheFound("IdentityCache", q[k].cache))
  BY <1>2, <1>3, <1>4, ErrorlessFlattened
<1> QED  BY <1>2, <1>5, ErrorlessCache

LEMMA CacheAccepted ==
  ASSUME NEW cache \in CacheOption, cache # CacheExpression
  PROVE  /\ validate_cache_options(cache) = CacheMissing \/ IsCache(validate_cache_options(cache))
         /\ IsCache(cache_1_option(validate_cache_options(cache)))
BY DEF CacheOption, CacheExpression, CacheMissing, validate_cache_options, cache_1_option, IsCache

\* What check_column reports as an error.
LEMMA ErrorlessColumn ==
  ASSUME NEW c, IsColumn(c), NEW in_alter_table \in BOOLEAN, Errorless(ColumnFound(c, in_alter_table))
  PROVE  /\ c.type \notin {"array", "numeric_wide"}
         /\ \A f \in c.references : DsqlReference(check_foreign_key(f))
         /\ in_alter_table => c.type # "serial" /\ c.identity = {}
         /\ ~in_alter_table => \A i \in c.identity : i.cache # CacheExpression
<1> DEFINE A == Report(c.type = "serial", "SerialType", IF in_alter_table THEN Unfixable ELSE Warned)
           B == Report(c.type = "array", "ArrayType", Unfixable)
           C == Report(c.type = "numeric_wide", "NumericBounds", Unfixable)
           D1 == Report(c.identity # {}, "IdentityType", Unfixable)
           D2 == Report(c.identity # {} /\ c.type \notin {"bigint", "serial"}, "IdentityType", Warned)
           D3 == OfEach(LAMBDA i : CacheFound("IdentityCache", i.cache), c.identity)
           D == IF in_alter_table THEN D1 ELSE D2 \o D3
           E == OfEach(ForeignKeyFound, c.references)
           F == Report(c.collate # "none", "Collation", IF c.collate = "C" THEN Fixed ELSE Warned)
<1>1. IsSeq(A) /\ IsSeq(B) /\ IsSeq(C) /\ IsSeq(D1) /\ IsSeq(D2) /\ IsSeq(F)
  BY ReportIsSeq
<1>2. IsSeq(D3) /\ IsSeq(E)
  BY IdentitiesFoundIsSeq, ForeignKeysFoundIsSeq DEF IsColumn
<1>3. Errorless(A \o B \o C \o D \o E \o F)
  BY DEF ColumnFound
<1>4. in_alter_table => A = Report(c.type = "serial", "SerialType", Unfixable)
  OBVIOUS
<1> HIDE DEF A, B, C, D1, D2, D3, E, F
<1>5. IsSeq(D)
  BY <1>1, <1>2, ConcatIsSeq
<1>6. (in_alter_table => D = D1) /\ (~in_alter_table => D = D2 \o D3)
  OBVIOUS
<1> HIDE DEF D
<1>7. IsSeq(A \o B)
  BY <1>1, ConcatIsSeq
<1>8. IsSeq(A \o B \o C)
  BY <1>1, <1>7, ConcatIsSeq
<1>9. IsSeq(A \o B \o C \o D)
  BY <1>5, <1>8, ConcatIsSeq
<1>10. IsSeq(A \o B \o C \o D \o E)
  BY <1>2, <1>9, ConcatIsSeq
<1>11. Errorless(A \o B \o C \o D \o E)
  BY <1>1, <1>3, <1>10, ErrorlessConcat
<1>12. Errorless(A \o B \o C \o D) /\ Errorless(E)
  BY <1>2, <1>9, <1>11, ErrorlessConcat
<1>13. Errorless(A \o B \o C) /\ Errorless(D)
  BY <1>5, <1>8, <1>12, ErrorlessConcat
<1>14. Errorless(A \o B) /\ Errorless(C)
  BY <1>1, <1>7, <1>13, ErrorlessConcat
<1>15. Errorless(A) /\ Errorless(B)
  BY <1>1, <1>14, ErrorlessConcat
<1>16. c.type # "array" /\ c.type # "numeric_wide"
  BY <1>14, <1>15, ErrorlessReport DEF B, C
<1>17. \A f \in c.references : DsqlReference(check_foreign_key(f))
  BY <1>12, ForeignKeysAccepted DEF E, IsColumn
<1>18. ASSUME in_alter_table
       PROVE  c.type # "serial" /\ c.identity = {}
  <2>1. Errorless(Report(c.type = "serial", "SerialType", Unfixable)) /\ Errorless(D1)
    BY <1>4, <1>6, <1>13, <1>15, <1>18
  <2> QED  BY <2>1, ErrorlessReport DEF D1
<1>19. ASSUME ~in_alter_table
       PROVE  \A i \in c.identity : i.cache # CacheExpression
  <2>1. Errorless(D3)
    BY <1>1, <1>2, <1>6, <1>13, <1>19, ErrorlessConcat
  <2> QED  BY <2>1, ErrorlessCaches DEF D3, IsColumn
<1> QED  BY <1>16, <1>17, <1>18, <1>19

LEMMA ColumnInIs ==
  ASSUME NEW c, IsColumn(c)
  PROVE  /\ ColumnIn(c).type = IF c.type # "serial" /\ c.identity = {} THEN c.type ELSE "bigint"
         /\ ColumnIn(c).references = {check_foreign_key(f) : f \in c.references}
         /\ (c.type # "serial" => \A i \in ColumnIn(c).identity : \E j \in c.identity :
               i.cache = cache_1_option(validate_cache_options(j.cache)))
         /\ (c.type = "serial" => \A i \in ColumnIn(c).identity : IsCache(i.cache))
<1> DEFINE typed == IF c.type # "serial" /\ c.identity = {} THEN c ELSE IdentityColumn(c)
           keys == {check_foreign_key(f) : f \in typed.references}
           checked == [typed EXCEPT !.collate = "none", !.references = keys]
           cached == {[i EXCEPT !.cache = cache_1_option(@)] : i \in checked.identity}
           new == [checked EXCEPT !.identity = cached]
<1>1. ColumnIn(c) = new
  BY DEF ColumnIn, check_column, check_identity_cache_missing
<1>2. IsColumn(typed)
  BY IdentityColumnIs
<1>3. /\ typed.type = IF c.type # "serial" /\ c.identity = {} THEN c.type ELSE "bigint"
      /\ typed.references = c.references
      /\ typed.identity = IF c.type # "serial" /\ c.identity = {} THEN {}
                          ELSE IF c.type = "serial" THEN identity_cache_1
                          ELSE {[i EXCEPT !.cache = validate_cache_options(@)] : i \in c.identity}
  BY DEF IdentityColumn, IsColumn
<1> HIDE DEF typed
<1>4. keys = {check_foreign_key(f) : f \in c.references}
  BY <1>3
<1> HIDE DEF keys
<1>5. /\ checked.references = keys /\ checked.type = typed.type
      /\ checked.identity = typed.identity /\ DOMAIN checked = DOMAIN typed
  BY <1>2 DEF IsColumn
<1> HIDE DEF checked
<1>6. \A i \in cached : \E j \in typed.identity : i.cache = cache_1_option(j.cache)
  BY <1>2, <1>5 DEF IsColumn, IsIdentity
<1> HIDE DEF cached
<1>7. new.references = keys /\ new.type = typed.type /\ new.identity = cached
  BY <1>2, <1>5 DEF IsColumn
<1> HIDE DEF new
<1>8. c.type # "serial" => \A i \in cached : \E j \in c.identity :
        i.cache = cache_1_option(validate_cache_options(j.cache))
  <2>1. \A j \in c.identity : [j EXCEPT !.cache = validate_cache_options(@)].cache = validate_cache_options(j.cache)
    BY DEF IsColumn, IsIdentity
  <2> QED  BY <1>3, <1>6, <2>1
<1>9. c.type = "serial" => \A i \in cached : IsCache(i.cache)
  <2>1. \A j \in identity_cache_1 : IsCache(cache_1_option(j.cache))
    BY DEF identity_cache_1, identity_with_cache, cache_1_option, CacheMissing, IsCache
  <2> QED  BY <1>3, <1>6, <2>1
<1> QED  BY <1>1, <1>3, <1>4, <1>7, <1>8, <1>9

\* A column of a CREATE TABLE.
LEMMA ColumnAccepted ==
  ASSUME NEW c, IsColumn(c), Errorless(ColumnFound(c, FALSE))
  PROVE  DsqlColumn(ColumnIn(c))
<1> DEFINE new == ColumnIn(c)
<1>1. /\ c.type \notin {"array", "numeric_wide"}
      /\ \A f \in c.references : DsqlReference(check_foreign_key(f))
      /\ \A i \in c.identity : i.cache # CacheExpression
  BY ErrorlessColumn
<1>2. SettledColumn(new)
  BY ColumnSettles
<1>3. new.collate = "none" /\ new.type # "serial" /\ (new.identity # {} => new.type = "bigint")
  BY <1>2 DEF SettledColumn
<1>4. new.type \notin {"array", "numeric_wide"} /\ \A f \in new.references : DsqlReference(f)
  BY <1>1, ColumnInIs
<1>5. \A i \in new.identity : IsCache(i.cache)
  <2>1. \A j \in c.identity : IsCache(cache_1_option(validate_cache_options(j.cache)))
    BY <1>1, CacheAccepted DEF IsColumn, IsIdentity
  <2> QED  BY <2>1, ColumnInIs
<1> HIDE DEF new
<1>6. new.type \in ColumnTypes
  BY CheckColumnIs, CacheMissingIs DEF IsColumn, ColumnIn, new
<1> QED  BY <1>3, <1>4, <1>5, <1>6 DEF DsqlColumn, ColumnTypes, new

\* A column that ALTER TABLE adds.
LEMMA AddedAccepted ==
  ASSUME NEW c, IsColumn(c), Errorless(ColumnFound(c, TRUE))
  PROVE  /\ DsqlColumn(check_column(c, TRUE)) /\ check_column(c, TRUE).identity = {}
         /\ check_column(c, TRUE).not_null = c.not_null /\ check_column(c, TRUE).default = c.default
         /\ check_column(c, TRUE).literal = c.literal
         /\ (c.references = {} => check_column(c, TRUE).references = {})
<1> DEFINE keys == {check_foreign_key(f) : f \in c.references}
           new == [c EXCEPT !.collate = "none", !.references = keys]
<1>1. check_column(c, TRUE) = new
  BY DEF check_column
<1>2. /\ c.type \notin {"array", "numeric_wide", "serial"} /\ c.identity = {}
      /\ \A f \in c.references : DsqlReference(check_foreign_key(f))
  BY ErrorlessColumn
<1>3. (\A f \in keys : DsqlReference(f)) /\ (c.references = {} => keys = {})
  BY <1>2
<1> HIDE DEF keys
<1>4. /\ new.type = c.type /\ new.identity = c.identity /\ new.collate = "none" /\ new.references = keys
      /\ new.not_null = c.not_null /\ new.default = c.default /\ new.literal = c.literal
      /\ c.type \in ColumnTypes
  BY DEF IsColumn
<1> HIDE DEF new
<1> QED  BY <1>1, <1>2, <1>3, <1>4 DEF DsqlColumn, ColumnTypes

LEMMA CreateTableAccepted ==
  ASSUME NEW s, IsStatement(s), s.kind = "create_table", Parses(s),
         Errorless(CreateTableFound(s))
  PROVE  DsqlButForInline(check(s))
<1> DEFINE columns == [n \in DOMAIN s.columns |-> check_identity_cache_missing(check_column(s.columns[n], FALSE))]
           constraints == {check_constraint(c) : c \in s.constraints}
           clauses == s.clauses \ Removable
           new == [s EXCEPT !.columns = columns, !.constraints = constraints, !.clauses = clauses]
           foreignKeys == {c \in s.constraints : c.type = "foreign_key"}
           q == SetToSeq(DOMAIN s.columns)
           ofColumns == [k \in DOMAIN q |-> ColumnFound(s.columns[q[k]], FALSE)]
           cacheless == [k \in DOMAIN q |->
             OfEach(LAMBDA i : CacheMissingFound("IdentityCacheMissing", i.cache), s.columns[q[k]].identity)]
           ofClauses == [k \in DOMAIN TableClauses |->
             Report(TableClauses[k].clause \in s.clauses, TableClauses[k].rule, TableClauses[k].fix_result)]
           keys == OfEach(ForeignKeyFound, foreignKeys)
<1>1. /\ {"kind", "table", "columns", "constraints", "clauses"} \subseteq DOMAIN s
      /\ IsFiniteSet(DOMAIN s.columns) /\ IsFiniteSet(s.constraints)
      /\ \A n \in DOMAIN s.columns : IsColumn(s.columns[n])
      /\ \A c \in s.constraints : IsConstraint(c)
  BY TableFacts
<1>2. check(s) = new
  BY DEF check, check_create_table, Removable
<1>3. CreateTableFound(s) = FlattenSeq(ofColumns) \o keys \o FlattenSeq(ofClauses) \o FlattenSeq(cacheless)
  BY DEF CreateTableFound, OfEach, InTurn
<1>4. IsSeq(q) /\ Range(q) = DOMAIN s.columns
  BY <1>1, SetToSeqIs
<1>5. /\ DOMAIN q = 1..Len(q) /\ Len(q) \in Nat /\ \A k \in 1..Len(q) : q[k] \in DOMAIN s.columns
      /\ \A n \in DOMAIN s.columns : \E k \in 1..Len(q) : q[k] = n
  BY <1>4, SeqFacts
<1> HIDE DEF q
<1>6. /\ ofColumns = [k \in 1..Len(q) |-> ofColumns[k]] /\ cacheless = [k \in 1..Len(q) |-> cacheless[k]]
      /\ \A k \in 1..Len(q) : ofColumns[k] = ColumnFound(s.columns[q[k]], FALSE)
  BY <1>5
<1>7. \A k \in 1..Len(q) : IsSeq(ofColumns[k]) /\ IsSeq(cacheless[k])
  <2> SUFFICES ASSUME NEW k \in 1..Len(q)
               PROVE  IsSeq(ofColumns[k]) /\ IsSeq(cacheless[k])
    OBVIOUS
  <2>1. IsColumn(s.columns[q[k]])
    BY <1>1, <1>5
  <2>2. IsSeq(ColumnFound(s.columns[q[k]], FALSE))
    BY <2>1, ColumnFoundIsSeq
  <2>3. IsSeq(OfEach(LAMBDA i : CacheMissingFound("IdentityCacheMissing", i.cache), s.columns[q[k]].identity))
    BY <2>1, IdentitiesFoundIsSeq DEF IsColumn
  <2> QED  BY <1>5, <2>2, <2>3
<1>8. DOMAIN TableClauses = 1..8
  BY DEF TableClauses
<1>9. /\ ofClauses = [k \in 1..8 |-> ofClauses[k]]
      /\ \A k \in 1..8 :
           /\ IsSeq(ofClauses[k])
           /\ ofClauses[k] =
                Report(TableClauses[k].clause \in s.clauses, TableClauses[k].rule, TableClauses[k].fix_result)
  BY <1>8, ReportIsSeq
<1>10. IsFiniteSet(foreignKeys)
  BY <1>1, FS_Subset
<1>11. IsSeq(keys)
  BY <1>10, ForeignKeysFoundIsSeq
<1> HIDE DEF ofColumns, cacheless, ofClauses
<1>12. IsSeq(FlattenSeq(ofColumns)) /\ IsSeq(FlattenSeq(cacheless)) /\ IsSeq(FlattenSeq(ofClauses))
  BY <1>5, <1>6, <1>7, <1>9, FlattenIsSeq
<1>13. /\ Errorless(FlattenSeq(ofColumns)) /\ Errorless(keys) /\ Errorless(FlattenSeq(ofClauses))
  <2> DEFINE a == FlattenSeq(ofColumns)
             b == FlattenSeq(ofClauses)
             c == FlattenSeq(cacheless)
  <2>1. IsSeq(a) /\ IsSeq(b) /\ IsSeq(c) /\ Errorless(a \o keys \o b \o c)
    BY <1>3, <1>12
  <2> HIDE DEF a, b, c, keys
  <2>2. IsSeq(a \o keys)
    BY <1>11, <2>1, ConcatIsSeq
  <2>3. IsSeq(a \o keys \o b)
    BY <2>1, <2>2, ConcatIsSeq
  <2>4. Errorless(a \o keys \o b)
    BY <2>1, <2>3, ErrorlessConcat
  <2>5. Errorless(a \o keys) /\ Errorless(b)
    BY <2>1, <2>2, <2>4, ErrorlessConcat
  <2>6. Errorless(a)
    BY <1>11, <2>1, <2>5, ErrorlessConcat
  <2>7. Errorless(keys)
    BY <1>11, <2>1, <2>5, ErrorlessConcat
  <2> QED  BY <2>5, <2>6, <2>7 DEF a, b
<1>14. \A n \in DOMAIN s.columns : Errorless(ColumnFound(s.columns[n], FALSE))
  <2>1. ofColumns = [k \in 1..Len(q) |-> ofColumns[k]] /\ Errorless(FlattenSeq(ofColumns))
    BY <1>6, <1>13
  <2>2. \A k \in 1..Len(q) : Errorless(ofColumns[k])
    BY <1>5, <1>7, <2>1, ErrorlessFlattened
  <2>3. \A k \in 1..Len(q) : Errorless(ColumnFound(s.columns[q[k]], FALSE))
    BY <1>6, <2>2
  <2> QED  BY <1>5, <2>3
<1>15. /\ new.kind = "create_table" /\ new.columns = columns /\ new.constraints = constraints
       /\ new.clauses = clauses
  <2> HIDE DEF columns, constraints, clauses
  <2> QED  BY <1>1
<1>16. clauses \subseteq ClauseNames
  BY TableFacts
<1>17. \A n \in DOMAIN columns : DsqlColumn(columns[n])
  <2> SUFFICES ASSUME NEW n \in DOMAIN s.columns
               PROVE  DsqlColumn(columns[n])
    OBVIOUS
  <2>1. columns[n] = ColumnIn(s.columns[n])
    BY DEF ColumnIn
  <2> HIDE DEF columns
  <2> QED  BY <1>1, <1>14, <2>1, ColumnAccepted
<1>18. \A c \in constraints : DsqlConstraint(c)
  <2> SUFFICES ASSUME NEW d \in s.constraints
               PROVE  DsqlConstraint(check_constraint(d))
    OBVIOUS
  <2>1. check_constraint(d).type = d.type /\ d.type # "fulltext" /\ d.type \in ConstraintTypes
    BY <1>1, CheckConstraintIs DEF Parses, IsConstraint
  <2>2. ASSUME d.type = "foreign_key"
        PROVE  DsqlReference(check_constraint(d))
    <3>1. d \in foreignKeys /\ \A c \in foreignKeys : IsForeignKey(c)
      BY <1>1, <2>2 DEF IsConstraint
    <3> HIDE DEF foreignKeys
    <3>2. DsqlReference(check_foreign_key(d))
      BY <1>10, <1>13, <3>1, ForeignKeysAccepted
    <3> QED  BY <2>2, <3>2 DEF check_constraint
  <2> QED  BY <2>1, <2>2 DEF DsqlConstraint, ConstraintTypes
<1>19. clauses = {}
  <2> SUFFICES ASSUME NEW x \in clauses
               PROVE  FALSE
    OBVIOUS
  <2>1. PICK k \in 1..8 : x = TableClauses[k].clause
    BY <1>8, <1>16 DEF Range, ClauseNames
  <2>2. TableClauses[k].fix_result \in {Warned, Unfixable} /\ TableClauses[k] \in Range(TableClauses)
    BY <1>8 DEF TableClauses, Range
  <2>3. TableClauses[k].fix_result = Unfixable
    BY <2>1, <2>2 DEF Removable
  <2>4. Errorless(ofClauses[k])
    BY <1>9, <1>13, ErrorlessFlattened
  <2>5. TableClauses[k].clause \notin s.clauses
    BY <1>9, <2>3, <2>4, ErrorlessReport
  <2> QED  BY <2>1, <2>5
<1> HIDE DEF new, columns, constraints, clauses
<1> QED  BY <1>2, <1>15, <1>17, <1>18, <1>19 DEF DsqlButForInline

LEMMA OperationAccepted ==
  ASSUME NEW o, IsOperation(o), NEW async, NEW s, o.op = "validate_constraint" => s.async,
         Errorless(ColumnsAndConstraints(o, async)), Errorless(AddedColumns(o)), Errorless(Operations(o))
  PROVE  DsqlOperation(s, AlteredOperation(o))
<1> DEFINE new == AlteredOperation(o)
<1>2. \A r : ~Errorless(<<Found(r, Unfixable)>>)
  BY ErrorIsFound
<1>3. CASE o.op = "add_column"
  <2> DEFINE c == o.definition
             column == [o EXCEPT !.definition = check_column(c, TRUE)]
             A == Report(c.not_null \/ c.default # NoDefault \/ c.literal # {}, "AddColumnConstraint", Unfixable)
             B == Report(c.references # {}, "AddColumnConstraint", Unfixable)
  <2>1. new = column
    BY <1>3 DEF AlteredOperation, AddsConstraint
  <2>2. column.definition = check_column(c, TRUE) /\ column.op = "add_column" /\ IsColumn(c)
    BY <1>3 DEF IsOperation
  <2> HIDE DEF column, new
  <2>4. Errorless(ColumnFound(c, TRUE)) /\ Errorless(A \o B)
    <3>1. ColumnsAndConstraints(o, async) = ColumnFound(c, TRUE)
      BY <1>3 DEF ColumnsAndConstraints, AddsConstraint
    <3>2. AddedColumns(o) = A \o B
      BY <1>3 DEF AddedColumns
    <3> HIDE DEF A, B, c
    <3> QED  BY <3>1, <3>2
  <2>5. IsSeq(A) /\ IsSeq(B)
    BY ReportIsSeq
  <2> HIDE DEF A, B
  <2>6. Errorless(A) /\ Errorless(B)
    BY <2>4, <2>5, ErrorlessConcat
  <2>7. ~(c.not_null \/ c.default # NoDefault \/ c.literal # {}) /\ ~(c.references # {})
    BY <2>6, ErrorlessReport DEF A, B
  <2> HIDE DEF c
  <2>8. /\ DsqlColumn(check_column(c, TRUE)) /\ check_column(c, TRUE).identity = {}
        /\ check_column(c, TRUE).not_null = c.not_null /\ check_column(c, TRUE).default = c.default
        /\ check_column(c, TRUE).literal = c.literal
        /\ (c.references = {} => check_column(c, TRUE).references = {})
    BY <2>2, <2>4, AddedAccepted
  <2> QED  BY <2>1, <2>2, <2>7, <2>8 DEF DsqlOperation, new
<1>4. CASE AddsConstraint(o, {"foreign_key", "check"})
  <2> DEFINE constraint == [o EXCEPT !.constraint = check_constraint(o.constraint), !.not_valid = TRUE]
             A == ForeignKeyFound(o.constraint)
             B == Report(~o.not_valid, "ForeignKeyNotValid", Warned)
  <2>1. new = constraint
    BY <1>4 DEF AlteredOperation, AddsConstraint
  <2>2. o.op = "add_constraint" /\ IsConstraint(o.constraint) /\ {"op", "constraint", "not_valid"} \subseteq DOMAIN o
    BY <1>4 DEF AddsConstraint, IsOperation
  <2>3. constraint.op = "add_constraint" /\ constraint.not_valid = TRUE /\ constraint.constraint = check_constraint(o.constraint)
    BY <2>2
  <2> HIDE DEF constraint, new
  <2>4. check_constraint(o.constraint).type = o.constraint.type /\ o.constraint.type \in {"foreign_key", "check"}
    BY <1>4, <2>2, CheckConstraintIs DEF AddsConstraint
  <2>5. ASSUME o.constraint.type = "foreign_key"
        PROVE  DsqlReference(check_constraint(o.constraint))
    <3>1. Errorless(A \o B)
      BY <2>2, <2>5 DEF ColumnsAndConstraints, AddsConstraint
    <3>2. IsSeq(A) /\ IsSeq(B)
      BY ForeignKeyFoundIsSeq, ReportIsSeq
    <3> HIDE DEF A, B
    <3>3. Errorless(A)
      BY <3>1, <3>2, ErrorlessConcat
    <3>4. DsqlReference(check_foreign_key(o.constraint))
      BY <2>2, <2>5, <3>3, ForeignKeyAccepted DEF A, IsConstraint
    <3> QED  BY <2>5, <3>4 DEF check_constraint
  <2> QED  BY <2>1, <2>3, <2>4, <2>5 DEF DsqlOperation, DsqlConstraint, new
<1>5. CASE o.op = "add_identity"
  <2> DEFINE cache == cache_1_option(validate_cache_options(o.cache))
             identity == [o EXCEPT !.cache = cache]
             A == CacheMissingFound("IdentityCacheMissing", o.cache)
             B == CacheFound("IdentityCache", o.cache)
  <2>1. new = identity
    BY <1>5 DEF AlteredOperation, AddsConstraint
  <2>2. {"op", "cache"} \subseteq DOMAIN o /\ o.cache \in CacheOption
    BY <1>5 DEF IsOperation, IsIdentity
  <2>3. Errorless(A \o B)
    BY <1>5 DEF Operations, AddsConstraint
  <2>4. IsSeq(A) /\ IsSeq(B)
    BY CacheFoundIsSeq
  <2> HIDE DEF A, B
  <2>5. Errorless(B)
    BY <2>3, <2>4, ErrorlessConcat
  <2>6. IsCache(cache)
    BY <2>2, <2>5, ErrorlessCache, CacheAccepted DEF B
  <2> HIDE DEF cache
  <2>7. identity.op = "add_identity" /\ identity.cache = cache
    BY <1>5, <2>2
  <2> HIDE DEF identity, new
  <2> QED  BY <2>1, <2>6, <2>7 DEF DsqlOperation, new
<1>6. CASE o.op \notin {"add_column", "add_identity"} /\ ~AddsConstraint(o, {"foreign_key", "check"})
  <2>1. new = o
    BY <1>6 DEF AlteredOperation
  <2>2. o.op \in OperationKinds
    BY DEF IsOperation
  <2>3. CASE o.op = "add_constraint"
    <3>1. o.constraint.type \in {"primary_key", "unique", "primary_key_using_index"}
      BY <1>6, <2>3 DEF IsOperation, IsConstraint, ConstraintTypes, AddsConstraint
    <3>2. o.constraint.type = "primary_key_using_index" =>
            ColumnsAndConstraints(o, async) = <<Found("AtUnsupportedPrimaryKeyUsingIndex", Unfixable)>>
      BY <2>3 DEF ColumnsAndConstraints, AddsConstraint
    <3>3. /\ o.constraint.type = "unique" => Operations(o) = <<Found("AtUnsupportedAddUnique", Unfixable)>>
          /\ o.constraint.type = "primary_key" => Operations(o) = <<Found("AtUnsupportedAddPrimaryKey", Unfixable)>>
      BY <2>3 DEF Operations, AddsConstraint
    <3> QED  BY <1>2, <3>1, <3>2, <3>3
  <2>4. CASE o.op \in {"row_level_security", "replica_identity", "rule"}
    <3>1. \E r : ColumnsAndConstraints(o, async) = <<Found(r, Unfixable)>>
      BY <2>4 DEF ColumnsAndConstraints, AddsConstraint
    <3> QED  BY <1>2, <3>1
  <2>5. CASE o.op \in {"set_type", "set_not_null"}
    <3>1. \E r : Operations(o) = <<Found(r, Unfixable)>>
      BY <2>5 DEF Operations, AddsConstraint
    <3> QED  BY <1>2, <3>1
  <2>6. CASE o.op \in {"set_default", "drop_column", "drop_constraint", "validate_constraint"}
    BY <2>1, <2>6 DEF DsqlOperation
  <2> QED  BY <1>6, <2>2, <2>3, <2>4, <2>5, <2>6 DEF OperationKinds
<1> QED  BY <1>3, <1>4, <1>5, <1>6

LEMMA AlterTableAccepted ==
  ASSUME NEW s, IsStatement(s), s.kind = "alter_table", Errorless(AlterTableFound(s))
  PROVE  DsqlButForInline(check(s))
<1> DEFINE n == Len(s.ops)
           A == [k \in DOMAIN s.ops |-> ColumnsAndConstraints(s.ops[k], s.async)]
           B == [k \in DOMAIN s.ops |-> AddedColumns(s.ops[k])]
           C == [k \in DOMAIN s.ops |-> Operations(s.ops[k])]
           ops == [k \in DOMAIN s.ops |-> AlteredOperation(s.ops[k])]
           async == s.async \/ \E k \in DOMAIN s.ops : s.ops[k].op = "validate_constraint"
           new == [s EXCEPT !.ops = ops, !.async = async]
<1>1. {"kind", "ops", "async"} \subseteq DOMAIN s /\ IsSeq(s.ops) /\ \A o \in Range(s.ops) : IsOperation(o)
  BY DEF IsStatement, IsAlter, IsSeq
<1>2. n \in Nat /\ DOMAIN s.ops = 1..n /\ \A k \in 1..n : IsOperation(s.ops[k])
  BY <1>1, SeqFacts
<1>3. AlterTableFound(s) = FlattenSeq(A) \o FlattenSeq(B) \o FlattenSeq(C)
  BY DEF AlterTableFound, InTurn
<1>4. check(s) = new
  BY DEF check, check_alter_table
<1> HIDE DEF n
<1>5. \A k \in 1..n : IsSeq(A[k]) /\ IsSeq(B[k]) /\ IsSeq(C[k])
  BY <1>2, OperationFoundIsSeq DEF IsOperation
<1>6. /\ A = [k \in 1..n |-> A[k]] /\ B = [k \in 1..n |-> B[k]] /\ C = [k \in 1..n |-> C[k]]
  BY <1>2
<1>7. \A k \in 1..n : /\ A[k] = ColumnsAndConstraints(s.ops[k], s.async)
                      /\ B[k] = AddedColumns(s.ops[k]) /\ C[k] = Operations(s.ops[k])
  BY <1>2
<1>8. \A k \in 1..n : /\ ops[k] = AlteredOperation(s.ops[k])
                      /\ s.ops[k].op = "validate_constraint" => async
  BY <1>2
<1>9. DOMAIN ops = 1..n
  BY <1>2
<1> HIDE DEF A, B, C, ops, async
<1>10. IsSeq(FlattenSeq(A)) /\ IsSeq(FlattenSeq(B)) /\ IsSeq(FlattenSeq(C))
  BY <1>2, <1>5, <1>6, FlattenIsSeq
<1>11. Errorless(FlattenSeq(A) \o FlattenSeq(B)) /\ Errorless(FlattenSeq(C))
  <2>1. IsSeq(FlattenSeq(A) \o FlattenSeq(B))
    BY <1>10, ConcatIsSeq
  <2>2. Errorless(FlattenSeq(A) \o FlattenSeq(B) \o FlattenSeq(C))
    BY <1>3
  <2> QED  BY <1>10, <2>1, <2>2, ErrorlessConcat
<1>12. Errorless(FlattenSeq(A)) /\ Errorless(FlattenSeq(B))
  BY <1>10, <1>11, ErrorlessConcat
<1>13. \A k \in 1..n : Errorless(A[k])
  BY <1>2, <1>5, <1>6, <1>12, ErrorlessFlattened
<1>14. \A k \in 1..n : Errorless(B[k])
  BY <1>2, <1>5, <1>6, <1>12, ErrorlessFlattened
<1>15. \A k \in 1..n : Errorless(C[k])
  BY <1>2, <1>5, <1>6, <1>11, ErrorlessFlattened
<1>16. new.kind = "alter_table" /\ new.ops = ops /\ new.async = async
  BY <1>1
<1> HIDE DEF new
<1>17. ASSUME NEW k \in 1..n
       PROVE  DsqlOperation(new, ops[k])
  <2>1. Errorless(ColumnsAndConstraints(s.ops[k], s.async)) /\ Errorless(AddedColumns(s.ops[k]))
        /\ Errorless(Operations(s.ops[k]))
    BY <1>7, <1>13, <1>14, <1>15
  <2>2. s.ops[k].op = "validate_constraint" => new.async
    BY <1>8, <1>16
  <2>3. DsqlOperation(new, AlteredOperation(s.ops[k]))
    BY <1>2, <2>1, <2>2, OperationAccepted
  <2> QED  BY <1>8, <2>3
<1> QED  BY <1>4, <1>9, <1>16, <1>17 DEF DsqlButForInline

LEMMA IndexAccepted ==
  ASSUME NEW s, IsStatement(s), s.kind = "create_index", Errorless(CreateIndexFound(s))
  PROVE  DsqlButForInline(check(s))
<1> DEFINE new == [s EXCEPT !.concurrently = FALSE, !.async = TRUE, !.using = "none", !.sort = "none"]
           E == Report(s.volatile, "IndexVolatileFunction", Unfixable)
           ABCD == Report(s.concurrently, "IndexConcurrently", Warned)
                     \o Report(~s.concurrently /\ ~s.async, "IndexAsync", Warned)
                     \o Report(s.using # "none", "IndexUsing", IF s.using = "btree" THEN Fixed ELSE Warned)
                     \o Report(s.sort # "none", "IndexSortDirection", IF s.sort = "asc" THEN Fixed ELSE Warned)
<1>1. check(s) = new
  BY DEF check, check_create_index
<1>2. CreateIndexFound(s) = ABCD \o E
  BY DEF CreateIndexFound
<1>3. IsSeq(ABCD) /\ IsSeq(E)
  BY ReportIsSeq, ConcatIsSeq
<1> HIDE DEF ABCD, E
<1>4. Errorless(E)
  BY <1>2, <1>3, ErrorlessConcat
<1>5. ~s.volatile
  BY <1>4, ErrorlessReport DEF E
<1>6. /\ new.kind = "create_index" /\ new.concurrently = FALSE /\ new.async = TRUE
      /\ new.using = "none" /\ new.sort = "none" /\ new.volatile = s.volatile
  BY DEF IsStatement
<1> HIDE DEF new
<1> QED  BY <1>1, <1>5, <1>6 DEF DsqlButForInline

LEMMA SequenceAccepted ==
  ASSUME NEW s, IsStatement(s), s.kind \in {"create_sequence", "alter_sequence"}, Errorless(CheckFound(s))
  PROVE  DsqlButForInline(check(s))
<1> DEFINE type == check_sequence_type(s.type)
           cache == IF s.kind = "create_sequence" THEN cache_1_option(validate_cache_options(s.cache))
                    ELSE validate_cache_options(s.cache)
           new == [s EXCEPT !.type = type, !.cache = cache]
           A == SequenceTypeFound(s.type)
           B == CacheFound("SequenceCache", s.cache)
           C == CacheMissingFound("SequenceCacheMissing", s.cache)
<1>1. check(s) = new
  BY DEF check, check_create_sequence, check_alter_sequence
<1>2. {"kind", "type", "cache"} \subseteq DOMAIN s /\ s.cache \in CacheOption
  BY DEF IsStatement, IsSequence, IsIdentity
<1>3. CheckFound(s) = IF s.kind = "create_sequence" THEN (A \o B) \o C ELSE A \o B
  BY DEF CheckFound, CreateSequenceFound, AlterSequenceFound
<1>4. IsSeq(A) /\ IsSeq(B) /\ IsSeq(C)
  BY ReportIsSeq, CacheFoundIsSeq DEF SequenceTypeFound
<1> HIDE DEF A, B, C
<1>5. Errorless(A \o B)
  BY <1>3, <1>4, ConcatIsSeq, ErrorlessConcat
<1>6. Errorless(B)
  BY <1>4, <1>5, ErrorlessConcat
<1>7. s.cache # CacheExpression
  BY <1>6, ErrorlessCache DEF B
<1>8. type \in {"none", "bigint"}
  BY DEF check_sequence_type
<1>9. IF s.kind = "create_sequence" THEN IsCache(cache) ELSE cache = CacheMissing \/ IsCache(cache)
  BY <1>2, <1>7, CacheAccepted
<1> HIDE DEF type, cache
<1>10. new.kind = s.kind /\ new.type = type /\ new.cache = cache
  BY <1>2
<1> HIDE DEF new
<1> QED  BY <1>1, <1>8, <1>9, <1>10 DEF DsqlButForInline

LEMMA StatisticsAccepted ==
  ASSUME NEW s, IsStatement(s), s.kind = "alter_statistics", Errorless(StatisticsFound(s))
  PROVE  DsqlButForInline(check(s))
<1>1. s.target \in {StatisticsDefault, "in_range", "out_of_range"}
  BY DEF IsStatement
<1> DEFINE target == IF s.target = StatisticsDefault THEN "in_range" ELSE s.target
           new == [s EXCEPT !.target = target]
           A == Report(s.target = StatisticsDefault, "StatisticsTarget", Fixed)
           B == Report(s.target = "out_of_range", "StatisticsTarget", Unfixable)
<1>2. check(s) = new
  BY DEF check, check_statistics_target
<1>3. IsSeq(A) /\ IsSeq(B) /\ StatisticsFound(s) = A \o B
  BY ReportIsSeq DEF StatisticsFound
<1> HIDE DEF A, B
<1>4. Errorless(B)
  BY <1>3, ErrorlessConcat
<1>5. s.target # "out_of_range"
  BY <1>4, ErrorlessReport DEF B
<1>6. target = "in_range"
  BY <1>5, <1>1
<1> HIDE DEF target
<1>7. new.kind = "alter_statistics" /\ new.target = target
  BY DEF IsStatement
<1> HIDE DEF new
<1> QED  BY <1>2, <1>6, <1>7 DEF DsqlButForInline

LEMMA TransactionAccepted ==
  ASSUME NEW s, IsStatement(s), s.kind \in {"begin", "set_session"}
  PROVE  DsqlButForInline(check(s))
<1> DEFINE level == IF s.level = "none" THEN s.level ELSE "repeatable_read"
           new == [s EXCEPT !.level = level]
<1>1. check(s) = new
  BY DEF check, check_transaction_isolation
<1>2. level \in {"none", "repeatable_read"}
  OBVIOUS
<1> HIDE DEF level
<1>3. new.kind = s.kind /\ new.level = level
  BY DEF IsStatement
<1> HIDE DEF new
<1> QED  BY <1>1, <1>2, <1>3 DEF DsqlButForInline

LEMMA ViewAccepted ==
  ASSUME NEW s, IsStatement(s), s.kind = "create_view", Errorless(CheckFound(s))
  PROVE  DsqlButForInline(check(s))
<1> DEFINE new == [s EXCEPT !.temporary = FALSE]
           A == Report(s.temporary, "UnsupportedTempView", Warned)
           B == Report(s.collate \notin SupportedCollations, "Collation", Unfixable)
<1>1. check(s) = new
  BY DEF check
<1>2. new.kind = "create_view" /\ new.temporary = FALSE /\ new.collate = s.collate
  BY DEF IsStatement
<1>3. IsSeq(A) /\ IsSeq(B) /\ CheckFound(s) = A \o B
  BY ReportIsSeq DEF CheckFound, UnsupportedFound
<1> HIDE DEF A, B
<1>4. Errorless(B)
  BY <1>3, ErrorlessConcat
<1>5. s.collate \in SupportedCollations
  BY <1>4, ErrorlessReport DEF B
<1> HIDE DEF new
<1> QED  BY <1>1, <1>2, <1>5 DEF DsqlButForInline, SupportedCollations, DsqlCollations

\* What check_unsupported_statements passes over has a place in DSQL.
LEMMA UnsupportedAccepted ==
  ASSUME NEW s, IsStatement(s), Errorless(UnsupportedFound(s)), Parses(s),
         s.kind \notin {"create_table", "alter_table", "create_sequence", "alter_sequence"} \cup Plain
  PROVE  DsqlButForInline(s)
<1>1. CASE s.kind = "query"
  <2> DEFINE A == Report(s.collate \notin SupportedCollations, "Collation", Unfixable)
  <2>1. UnsupportedFound(s) = A
    BY <1>1 DEF UnsupportedFound
  <2> HIDE DEF A
  <2>2. Errorless(A)
    BY <2>1
  <2>3. s.collate \in SupportedCollations
    BY <2>2, ErrorlessReport DEF A
  <2> QED  BY <1>1, <2>3 DEF DsqlButForInline, SupportedCollations, DsqlCollations
<1>2. CASE s.kind # "query"
  <2>1. ASSUME s.kind \in DOMAIN UnsupportedStatements
        PROVE  FALSE
    <3> DEFINE rule == UnsupportedStatements[s.kind]
    <3>1. UnsupportedFound(s) = <<Found(rule, Unfixable)>>
      BY <1>2, <2>1 DEF UnsupportedFound, Plain
    <3> HIDE DEF rule
    <3> QED  BY <3>1, ErrorIsFound
  <2>2. s.kind \in DsqlPlain
    BY <2>1 DEF IsStatement, StatementKinds, Plain, Parses
  <2> QED  BY <1>2, <2>2 DEF DsqlButForInline, Plain
<1> QED  BY <1>1, <1>2

\* What errors::check finds no error in it makes one of DSQL's statements.
LEMMA CheckAccepted ==
  ASSUME NEW s, IsStatement(s), Parses(s), Errorless(CheckFound(s))
  PROVE  DsqlButForInline(check(s))
<1>1. CASE s.kind = "create_table"
  BY <1>1, CreateTableAccepted DEF CheckFound
<1>2. CASE s.kind = "alter_table"
  BY <1>2, AlterTableAccepted DEF CheckFound
<1>3. CASE s.kind \in {"create_sequence", "alter_sequence"}
  BY <1>3, SequenceAccepted
<1>4. CASE s.kind \in Plain
  BY <1>4, IndexAccepted, StatisticsAccepted, TransactionAccepted, ViewAccepted DEF Plain, CheckFound
<1>5. CASE s.kind \notin {"create_table", "alter_table", "create_sequence", "alter_sequence"} \cup Plain
  <2>1. check(s) = s /\ CheckFound(s) = UnsupportedFound(s)
    BY <1>5 DEF check, CheckFound, Plain
  <2> QED  BY <1>5, <2>1, UnsupportedAccepted
<1> QED  BY <1>1, <1>2, <1>3, <1>4, <1>5

LEMMA StatementAccepted ==
  ASSUME NEW p, IsPart(p), Errorless(StatementFound(p))
  PROVE  DsqlButForInline(check_statement(p).stmt)
<1> DEFINE found == IF Parses(p.stmt) THEN CheckFound(p.stmt) ELSE <<Found("ParseError", Unfixable)>>
           ds == [k \in DOMAIN found |-> Diagnostic(found[k].rule, p.line, found[k].fix_result)]
<1>1. StatementFound(p) = ds
  BY DEF StatementFound
<1>2. Errorless(found)
  <2> SUFFICES ASSUME NEW k \in DOMAIN found
               PROVE  found[k].fix_result # Unfixable
    BY DEF Errorless, Range
  <2> HIDE DEF found
  <2>1. ds[k] \in Range(ds) /\ ds[k].fix_result = found[k].fix_result
    BY DEF Range, Diagnostic
  <2> HIDE DEF ds
  <2> QED  BY <1>1, <2>1 DEF Errorless
<1>3. Parses(p.stmt)
  BY <1>2, ErrorIsFound
<1>4. Errorless(CheckFound(p.stmt))
  BY <1>2, <1>3
<1> DEFINE new == [p EXCEPT !.stmt = check(p.stmt)]
<1>5. check_statement(p) = new /\ new.stmt = check(p.stmt)
  BY <1>3 DEF check_statement, IsPart
<1> HIDE DEF new, found, ds
<1> QED  BY <1>3, <1>4, <1>5, CheckAccepted DEF IsPart

\* Of parts: each statement is one of DSQL's, but for what is written at a column.
Accepted(ps) == \A k \in DOMAIN ps : DsqlButForInline(ps[k].stmt)

LEMMA StatementsAccepted ==
  ASSUME NEW ps, IsParts(ps), Errorless(check_statements(ps).diagnostics)
  PROVE  Accepted(check_statements(ps).parts)
<1> DEFINE n == Len(ps)
           q == [k \in DOMAIN ps |-> check_statement(ps[k])]
           seqs == [k \in DOMAIN ps |-> StatementFound(ps[k])]
<1>1. n \in Nat /\ DOMAIN ps = 1..n
  BY PartsFacts
<1>2. check_statements(ps).parts = q /\ check_statements(ps).diagnostics = FlattenSeq(seqs)
  BY DEF check_statements, Result
<1>3. \A k \in 1..n : IsPart(ps[k])
  BY DEF IsParts
<1> HIDE DEF n
<1>4. seqs = [k \in 1..n |-> seqs[k]] /\ \A k \in 1..n : IsSeq(seqs[k])
  BY <1>1, <1>3, CheckStatementIs
<1>5. \A k \in 1..n : seqs[k] = StatementFound(ps[k]) /\ q[k] = check_statement(ps[k])
  BY <1>1
<1>6. DOMAIN q = 1..n
  BY <1>1
<1> HIDE DEF q, seqs
<1>7. \A k \in 1..n : Errorless(seqs[k])
  BY <1>1, <1>2, <1>4, ErrorlessFlattened
<1>8. \A k \in 1..n : DsqlButForInline(q[k].stmt)
  BY <1>3, <1>5, <1>7, StatementAccepted
<1>9. Accepted(q)
  BY <1>6, <1>8 DEF Accepted
<1> QED  BY <1>2, <1>9

\* The invariant: what check_statements has been through without an error is DSQL's.
AcceptInv == pass \in {9, 10} => (Errorless(diagnostics) => Accepted(parts))

LEMMA NextAcceptInv == Inv /\ AcceptInv /\ [Next]_vars => AcceptInv'
<1> SUFFICES ASSUME Inv, AcceptInv, [Next]_vars
             PROVE  AcceptInv'
  OBVIOUS
<1>1. /\ pass \in 0..10 /\ IsSeq(source)
      /\ pass > 0 => IsParts(parts) /\ From(diagnostics, source)
  BY DEF Inv, Passing
<1>2. CASE Translate
  BY <1>2 DEF Translate, AcceptInv
<1>3. CASE FixStep
  <2> DEFINE result == PassResult(pass, parts)
  <2>1. /\ pass \in 1..8 /\ pass' = pass + 1
        /\ parts' = result.parts /\ diagnostics' = diagnostics \o result.diagnostics
    BY <1>3, FixStepIsPass
  <2>2. IsParts(parts) /\ IsSeq(diagnostics)
    BY <1>1, <2>1 DEF From
  <2>3. CASE pass = 8
    <3>1. result = check_statements(parts)
      BY <2>3 DEF PassResult
    <3>2. IsSeq(result.diagnostics)
      BY <2>2, <3>1, CheckStatementsIs DEF DiagnosticsOf
    <3> HIDE DEF result
    <3>3. ASSUME Errorless(diagnostics')
          PROVE  Accepted(parts')
      <4>1. Errorless(diagnostics \o result.diagnostics)
        BY <2>1, <3>3
      <4>2. Errorless(result.diagnostics)
        BY <2>2, <3>2, <4>1, ErrorlessConcat
      <4>3. Accepted(result.parts)
        BY <2>2, <3>1, <4>2, StatementsAccepted
      <4> QED  BY <2>1, <4>3
    <3> QED  BY <3>3 DEF AcceptInv
  <2>4. CASE pass # 8
    BY <2>1, <2>4 DEF AcceptInv
  <2> QED  BY <2>3, <2>4
<1>4. CASE SortDiagnostics
  <2> DEFINE sorted == MySql!SortedByLine(diagnostics, Len(source))
  <2>1. /\ diagnostics' = IF dialect = "mysql" THEN sorted ELSE diagnostics
        /\ parts' = parts
    BY <1>4 DEF SortDiagnostics
  <2>2. pass = 9
    BY <1>1, <1>4 DEF SortDiagnostics, Passes
  <2>3. ASSUME dialect = "mysql"
        PROVE  Range(sorted) = Range(diagnostics)
    <3>1. IsDump(source) /\ Len(source) \in Nat
      BY <1>1, <2>3, SeqFacts DEF Inv
    <3>2. Within(diagnostics, Len(source))
      BY <1>1, <2>2, <3>1 DEF From, Within, IsDump
    <3> QED  BY <3>1, <3>2, SortedByLineIs
  <2> HIDE DEF sorted
  <2>4. Range(diagnostics') = Range(diagnostics)
    BY <2>1, <2>3
  <2> QED  BY <2>1, <2>2, <2>4 DEF AcceptInv, Errorless
<1>5. CASE Rerun
  BY <1>5 DEF Rerun, AcceptInv
<1>6. CASE UNCHANGED vars
  BY <1>6 DEF AcceptInv, vars
<1> QED  BY <1>2, <1>3, <1>4, <1>5, <1>6 DEF Next, FixStep

\* No pass writes a constraint at a column that an ALTER TABLE adds: each part is some
\* input part, alike.
LEMMA InlineIsInput ==
  ASSUME Inv, pass > 0, NEW k \in DOMAIN parts, ~AddsNoInline(parts[k].stmt)
  PROVE  \E i \in DOMAIN input : input[i].line = parts[k].line /\ ~AddsNoInline(input[i].stmt)
<1>1. IsParts(input) /\ IsParts(parts) /\ Accounted(input, parts, diagnostics)
  BY DEF Inv, Passing
<1>2. DOMAIN input = 1..Len(input) /\ DOMAIN parts = 1..Len(parts)
  BY <1>1, PartsFacts
<1>3. PICK i \in 1..Len(input) : SameHead(parts[k], input[i])
  BY <1>1, <1>2 DEF Accounted
<1> QED  BY <1>2, <1>3 DEF SameHead, Alike

LEMMA AcceptInvEach == Inv /\ AcceptInv => EachIsAccepted
<1> SUFFICES ASSUME Inv, AcceptInv, Done, Errors(diagnostics) = {}, NEW k \in DOMAIN parts
             PROVE  /\ DsqlButForInline(parts[k].stmt)
                    /\ AddsNoInline(parts[k].stmt)
                       \/ \E i \in DOMAIN input :
                            input[i].line = parts[k].line /\ ~AddsNoInline(input[i].stmt)
  BY DEF EachIsAccepted
<1>1. pass = 10
  BY DEF Inv, Done, Passes
<1>2. Errorless(diagnostics)
  BY DEF Errors, Errorless
<1>3. DsqlButForInline(parts[k].stmt)
  BY <1>1, <1>2 DEF AcceptInv, Accepted
<1> QED  BY <1>1, <1>3, InlineIsInput

(***************************************************************************)
(* Of any script, in either dialect, what a fix without an error writes is *)
(* statement by statement in DSQL's dialect, but for the UNIQUE, PRIMARY   *)
(* KEY or CHECK of a column that an ALTER TABLE adds, of which no rule has *)
(* a word; and such a constraint is one that the input has at the same     *)
(* line (check_statements over src/dsql-lint/src/rules/errors.rs, the last *)
(* pass to rewrite anything, and the idioms before it).                    *)
(***************************************************************************)
THEOREM EachAccepted == Spec => []EachIsAccepted
<1>1. Inv /\ AcceptInv /\ [Next]_vars => Inv' /\ AcceptInv'
  BY NextInv, NextAcceptInv
<1>2. Init => Inv /\ AcceptInv
  BY InitInv DEF Init, AcceptInv
<1> QED  BY <1>1, <1>2, AcceptInvEach, PTL DEF Spec

==============================================================================
