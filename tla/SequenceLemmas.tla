---------------------------- MODULE SequenceLemmas ----------------------------
(***************************************************************************)
(* What the community modules' folds compute, in the form in which the      *)
(* proofs about dsql-lint's passes use them.  The recursion of FoldLeft is  *)
(* over the sets of indices, the greatest first.                            *)
(***************************************************************************)
EXTENDS Integers, FiniteSets, SequencesExt, FiniteSetTheorems, SequenceTheorems,
        WellFoundedInduction, TLAPS

\* Induction over 0..n, in a form without a predicate for a parameter.
LEMMA UpTo ==
  ASSUME NEW n \in Nat, NEW S, 0 \in S, \A k \in 1..n : k - 1 \in S => k \in S
  PROVE  0..n \subseteq S
<1> DEFINE T == (0..n) \ S
<1>1. SUFFICES ASSUME T # {}
               PROVE  FALSE
  BY Zenon
<1>2. IsWellFoundedOn(OpToRel(<, Nat), Nat)
  BY NatLessThanWellFounded
<1>3. T \subseteq Nat
  OBVIOUS
<1>4. PICK x \in T : \A y \in T : ~(<<y, x>> \in OpToRel(<, Nat))
  BY <1>1, <1>2, <1>3, WFMin
<1>5. x \in 1..n /\ x - 1 \in 0..n
  <2>1. x \in 0..n /\ x # 0
    BY Zenon
  <2> QED  BY <2>1
<1>6. <<x - 1, x>> \in OpToRel(<, Nat)
  BY <1>5 DEF OpToRel
<1> QED  BY <1>4, <1>5, <1>6

\* The greatest element of a set of indices.
LEMMA MaxOf ==
  ASSUME NEW n \in Nat, NEW s \in SUBSET (1..n), s # {}
  PROVE  Max(s) \in s /\ \A y \in s : Max(s) >= y
<1> DEFINE S == {m \in 0..n : \A t \in SUBSET (1..m) : t # {} => \E x \in t : \A y \in t : x >= y}
<1>1. 0 \in S
  <2>1. 0 \in 0..n /\ 1..0 = {}
    OBVIOUS
  <2>2. \A t \in SUBSET (1..0) : t = {}
    BY <2>1
  <2> QED  BY <2>1, <2>2, Zenon
<1>2. ASSUME NEW k \in 1..n, k - 1 \in S
      PROVE  k \in S
  <2> SUFFICES ASSUME NEW t \in SUBSET (1..k), t # {}
               PROVE  \E x \in t : \A y \in t : x >= y
    OBVIOUS
  <2>1. CASE k \in t
    BY <2>1
  <2>2. CASE k \notin t
    <3>1. t \in SUBSET (1..(k - 1))
      BY <2>2
    <3> QED  BY <3>1, <1>2
  <2> QED  BY <2>1, <2>2
<1>3. n \in S
  <2> HIDE DEF S
  <2>1. 0..n \subseteq S
    BY <1>1, <1>2, UpTo
  <2> QED  BY <2>1
<1>4. \E x \in s : \A y \in s : x >= y
  BY <1>3
<1> QED  BY <1>4 DEF Max

\* A recursion over the sets of indices, the greatest index first, and its course along
\* the prefixes.
Solves(g, n, base, step) ==
  \A s \in SUBSET (1..n) : g[s] = IF s = {} THEN base ELSE step[Max(s)][g[s \ {Max(s)}]]
Follows(g, n, A, step) ==
  \A s \in SUBSET (1..n) :
    s # {} /\ g[s \ {Max(s)}] \in A => g[s] = step[Max(s)][g[s \ {Max(s)}]]
Course(f, n, base, step) == f[0] = base /\ \A k \in 1..n : f[k] = step[k][f[k - 1]]

\* Such a recursion has a solution.
LEMMA RecursionExists ==
  ASSUME NEW n \in Nat, NEW A, NEW base \in A, NEW step \in [1..n -> [A -> A]]
  PROVE  \E g \in [SUBSET (1..n) -> A] : Solves(g, n, base, step)
<1> DEFINE S == {m \in 0..n : \E g \in [SUBSET (1..m) -> A] : Solves(g, m, base, step)}
<1>1. 0 \in S
  <2>1. 1..0 = {}
    OBVIOUS
  <2>2. [s \in SUBSET (1..0) |-> base] \in [SUBSET (1..0) -> A]
    OBVIOUS
  <2>3. Solves([s \in SUBSET (1..0) |-> base], 0, base, step)
    BY <2>1 DEF Solves
  <2> DEFINE g0 == [s \in SUBSET (1..0) |-> base]
  <2> HIDE DEF g0
  <2>4. g0 \in [SUBSET (1..0) -> A] /\ Solves(g0, 0, base, step) /\ 0 \in 0..n
    BY <2>2, <2>3 DEF g0
  <2> QED  BY <2>4
<1>2. ASSUME NEW k \in 1..n, k - 1 \in S
      PROVE  k \in S
  <2>1. PICK g \in [SUBSET (1..(k - 1)) -> A] : Solves(g, k - 1, base, step)
    BY <1>2
  <2> DEFINE h == [s \in SUBSET (1..k) |-> IF k \in s THEN step[k][g[s \ {k}]] ELSE g[s]]
  <2>2. ASSUME NEW s \in SUBSET (1..k)
        PROVE  s \ {k} \in SUBSET (1..(k - 1)) /\ (k \notin s => s \in SUBSET (1..(k - 1)))
    OBVIOUS
  <2>3. h \in [SUBSET (1..k) -> A]
    <3> SUFFICES ASSUME NEW s \in SUBSET (1..k)
                 PROVE  (IF k \in s THEN step[k][g[s \ {k}]] ELSE g[s]) \in A
      OBVIOUS
    <3> QED  BY <2>2
  <2>4. Solves(h, k, base, step)
    <3> SUFFICES ASSUME NEW s \in SUBSET (1..k)
                 PROVE  h[s] = IF s = {} THEN base ELSE step[Max(s)][h[s \ {Max(s)}]]
      BY Zenon DEF Solves
    <3>1. CASE k \in s
      <4>1. Max(s) = k
        <5>1. k \in Nat /\ s # {} /\ s \subseteq 1..k
          BY <3>1
        <5>2. Max(s) \in s /\ Max(s) >= k
          BY <3>1, <5>1, MaxOf
        <5>3. Max(s) \in 1..k
          BY <5>1, <5>2
        <5> QED  BY <5>2, <5>3
      <4>2. s \ {k} \in SUBSET (1..k) /\ k \notin s \ {k}
        OBVIOUS
      <4>3. h[s \ {k}] = g[s \ {k}]
        BY <4>2
      <4>4. h[s] = step[k][g[s \ {k}]]
        BY <3>1
      <4> QED  BY <3>1, <4>1, <4>3, <4>4
    <3>2. CASE k \notin s
      <4>1. s \in SUBSET (1..(k - 1)) /\ h[s] = g[s]
        BY <3>2, <2>2
      <4>2. CASE s = {}
        BY <4>1, <4>2, <2>1 DEF Solves
      <4>3. CASE s # {}
        <5>1. k \notin s \ {Max(s)} /\ s \ {Max(s)} \in SUBSET (1..k)
          BY <3>2
        <5>2. h[s \ {Max(s)}] = g[s \ {Max(s)}]
          BY <5>1
        <5>3. g[s] = step[Max(s)][g[s \ {Max(s)}]]
          BY <4>1, <4>3, <2>1 DEF Solves
        <5> QED  BY <4>1, <4>3, <5>2, <5>3
      <4> QED  BY <4>2, <4>3
    <3> QED  BY <3>1, <3>2
  <2> HIDE DEF h
  <2> QED  BY <2>3, <2>4
<1>3. n \in S
  <2> HIDE DEF S
  <2>1. 0..n \subseteq S
    BY <1>1, <1>2, UpTo
  <2> QED  BY <2>1
<1> QED  BY <1>3

\* Of the indices 1..k the greatest is k.
LEMMA MaxOfInterval ==
  ASSUME NEW k \in Nat, k # 0
  PROVE  Max(1..k) = k /\ (1..k) \ {k} = 1..(k - 1)
<1>1. Max(1..k) \in 1..k /\ \A y \in 1..k : Max(1..k) >= y
  <2>1. 1..k \in SUBSET (1..k) /\ 1..k # {}
    OBVIOUS
  <2> QED  BY <2>1, MaxOf
<1>2. k \in 1..k /\ Max(1..k) \in Int
  BY <1>1
<1>3. Max(1..k) >= k
  BY <1>1, <1>2
<1> QED  BY <1>1, <1>2, <1>3

\* The solution of such a recursion, along the prefixes of the indices.  A step is known
\* only for the values in A.
LEMMA RecursionByPrefix ==
  ASSUME NEW n \in Nat, NEW A, NEW base \in A, NEW step \in [1..n -> [A -> A]], NEW iter,
         iter[{}] = base, Follows(iter, n, A, step)
  PROVE  \E f \in [0..n -> A] : Course(f, n, base, step) /\ f[n] = iter[1..n]
<1> DEFINE f == [k \in 0..n |-> iter[1..k]]
           S == {k \in 0..n : f[k] \in A}
<1>1. f[0] = base /\ f[n] = iter[1..n]
  <2>1. 1..0 = {} /\ 0 \in 0..n /\ n \in 0..n
    OBVIOUS
  <2> QED  BY <2>1
<1>2. ASSUME NEW k \in 1..n, k - 1 \in S
      PROVE  f[k] = step[k][f[k - 1]] /\ k \in S
  <2>1. Max(1..k) = k /\ (1..k) \ {k} = 1..(k - 1)
    BY MaxOfInterval
  <2>2. 1..k \in SUBSET (1..n) /\ 1..k # {} /\ k - 1 \in 0..n /\ k \in 0..n
    <3>1. k \in 1..k /\ k - 1 \in 0..n /\ k \in 0..n
      OBVIOUS
    <3>2. \A x \in 1..k : x \in 1..n
      OBVIOUS
    <3> QED  BY <3>1, <3>2
  <2>3. iter[1..(k - 1)] \in A /\ f[k - 1] = iter[1..(k - 1)] /\ f[k] = iter[1..k]
    BY <1>2, <2>2
  <2>4. iter[1..k] = step[k][iter[1..(k - 1)]]
    BY <2>1, <2>2, <2>3 DEF Follows
  <2>5. step[k][iter[1..(k - 1)]] \in A
    BY <2>3
  <2> QED  BY <2>2, <2>3, <2>4, <2>5
<1>3. 0..n \subseteq S
  <2>1. 0 \in S
    <3>1. 0 \in 0..n
      OBVIOUS
    <3> HIDE DEF f
    <3> QED  BY <1>1, <3>1
  <2> HIDE DEF S
  <2> QED  BY <1>2, <2>1, UpTo
<1>4. f \in [0..n -> A]
  BY <1>3
<1>5. \A k \in 1..n : f[k] = step[k][f[k - 1]]
  <2> SUFFICES ASSUME NEW k \in 1..n
               PROVE  f[k] = step[k][f[k - 1]]
    OBVIOUS
  <2>1. k - 1 \in 0..n
    OBVIOUS
  <2>2. k - 1 \in S
    BY <1>3, <2>1
  <2> HIDE DEF f, S
  <2> QED  BY <1>2, <2>2
<1> HIDE DEF f
<1> QED  BY <1>1, <1>4, <1>5 DEF Course

\* The elements of a concatenation.
LEMMA ConcatAt ==
  ASSUME NEW A, NEW s \in Seq(A), NEW t \in Seq(A)
  PROVE  /\ s \o t \in Seq(A) /\ Len(s \o t) = Len(s) + Len(t)
         /\ \A n \in 1..Len(s) : (s \o t)[n] = s[n]
         /\ \A n \in 1..Len(t) : (s \o t)[Len(s) + n] = t[n]
<1> DEFINE st == s \o t
<1>1. /\ st \in Seq(A) /\ Len(st) = Len(s) + Len(t)
      /\ \A n \in 1..(Len(s) + Len(t)) : st[n] = IF n <= Len(s) THEN s[n] ELSE t[n - Len(s)]
  BY ConcatProperties
<1>2. Len(s) \in Nat /\ Len(t) \in Nat
  OBVIOUS
<1> HIDE DEF st
<1>3. ASSUME NEW n \in 1..Len(t)
      PROVE  st[Len(s) + n] = t[n]
  <2>1. Len(s) + n \in 1..(Len(s) + Len(t)) /\ ~(Len(s) + n <= Len(s)) /\ Len(s) + n - Len(s) = n
    BY <1>2
  <2> QED  BY <1>1, <2>1
<1>4. \A n \in 1..Len(s) : st[n] = s[n]
  BY <1>1, <1>2
<1> QED  BY <1>1, <1>3, <1>4 DEF st

\* The elements of s with those from b to c replaced by r.
Replaced(s, b, c, r) == SubSeq(s, 1, b - 1) \o r \o SubSeq(s, c + 1, Len(s))
IsReplaced(new, A, s, b, c, r) ==
  /\ new \in Seq(A)
  /\ Len(new) = b - 1 + Len(r) + (Len(s) - c)
  /\ \A n \in 1..(b - 1) : new[n] = s[n]
  /\ \A n \in 1..Len(r) : new[b - 1 + n] = r[n]
  /\ \A n \in 1..(Len(s) - c) : new[b - 1 + Len(r) + n] = s[c + n]
LEMMA SpliceAt ==
  ASSUME NEW A, NEW s \in Seq(A), NEW r \in Seq(A), NEW b \in 1..Len(s), NEW c \in b..Len(s)
  PROVE  IsReplaced(Replaced(s, b, c, r), A, s, b, c, r)
<1> DEFINE new == Replaced(s, b, c, r)
           F == SubSeq(s, 1, b - 1)
           G == SubSeq(s, c + 1, Len(s))
           FR == F \o r
<1>1. Len(s) \in Nat /\ Len(r) \in Nat
  OBVIOUS
<1>2. F \in Seq(A) /\ Len(F) = b - 1 /\ \A n \in 1..(b - 1) : F[n] = s[n]
  BY <1>1
<1>3. G \in Seq(A) /\ Len(G) = Len(s) - c /\ \A n \in 1..(Len(s) - c) : G[n] = s[c + n]
  <2>1. \A k \in (c + 1)..Len(s) : s[k] \in A
    BY <1>1
  <2>2. /\ G \in Seq(A) /\ Len(G) = IF c + 1 <= Len(s) THEN Len(s) - (c + 1) + 1 ELSE 0
        /\ \A n \in 1..(Len(s) - (c + 1) + 1) : G[n] = s[c + 1 + n - 1]
    BY <1>1, <2>1, SubSeqProperties
  <2> QED  BY <1>1, <2>2
<1>4. new = FR \o G
  BY DEF Replaced
<1> HIDE DEF F, G, new
<1>5. /\ FR \in Seq(A) /\ Len(FR) = b - 1 + Len(r)
      /\ \A n \in 1..(b - 1) : FR[n] = s[n]
      /\ \A n \in 1..Len(r) : FR[b - 1 + n] = r[n]
  <2>1. /\ FR \in Seq(A) /\ Len(FR) = Len(F) + Len(r)
        /\ \A n \in 1..Len(F) : FR[n] = F[n]
        /\ \A n \in 1..Len(r) : FR[Len(F) + n] = r[n]
    <3>1. F \in Seq(A) /\ r \in Seq(A) /\ FR = F \o r
      BY <1>2
    <3> HIDE DEF FR
    <3> QED  BY ONLY <3>1, ConcatAt
  <2> QED  BY <1>2, <2>1
<1> HIDE DEF FR
<1>6. /\ new \in Seq(A) /\ Len(new) = b - 1 + Len(r) + (Len(s) - c)
      /\ \A n \in 1..(b - 1 + Len(r)) : new[n] = FR[n]
      /\ \A n \in 1..(Len(s) - c) : new[b - 1 + Len(r) + n] = s[c + n]
  <2>1. /\ new \in Seq(A) /\ Len(new) = Len(FR) + Len(G)
        /\ \A n \in 1..Len(FR) : new[n] = FR[n]
        /\ \A n \in 1..Len(G) : new[Len(FR) + n] = G[n]
    <3>1. FR \in Seq(A) /\ G \in Seq(A)
      BY <1>3, <1>5
    <3> QED  BY ONLY <1>4, <3>1, ConcatAt
  <2> QED  BY <1>3, <1>5, <2>1
<1>7. \A n \in 1..(b - 1) : n \in 1..(b - 1 + Len(r))
  BY <1>1
<1>8. \A n \in 1..Len(r) : b - 1 + n \in 1..(b - 1 + Len(r))
  BY <1>1
<1> QED  BY <1>5, <1>6, <1>7, <1>8 DEF new, IsReplaced

\* A set of natural numbers that is not empty has a least element.
LEMMA LeastNatural ==
  ASSUME NEW S \in SUBSET Nat, S # {}
  PROVE  \E x \in S : \A y \in S : x <= y
<1>1. IsWellFoundedOn(OpToRel(<, Nat), Nat)
  BY NatLessThanWellFounded
<1>2. PICK x \in S : \A y \in S : ~(<<y, x>> \in OpToRel(<, Nat))
  BY <1>1, WFMin
<1>3. ASSUME NEW y \in S
      PROVE  x <= y
  <2>1. SUFFICES ASSUME y < x
                 PROVE  FALSE
    OBVIOUS
  <2>2. <<y, x>> \in OpToRel(<, Nat)
    BY <2>1 DEF OpToRel
  <2> QED  BY <1>2, <2>2
<1> QED  BY <1>3

\* A set with at most one element, and its cardinality.
LEMMA AtMostOne ==
  ASSUME NEW S, IsFiniteSet(S)
  PROVE  Cardinality(S) <= 1 <=> \A x, y \in S : x = y
<1>1. Cardinality(S) \in Nat
  BY FS_CardinalityType
<1>2. CASE S = {}
  BY <1>2, FS_EmptySet
<1>3. CASE S # {}
  <2>1. PICK x \in S : TRUE
    BY <1>3
  <2>2. IsFiniteSet(S \ {x}) /\ Cardinality(S \ {x}) = Cardinality(S) - 1
    BY <2>1, FS_RemoveElement
  <2>3. Cardinality(S \ {x}) \in Nat
    BY <2>2, FS_CardinalityType
  <2>4. Cardinality(S) <= 1 <=> S \ {x} = {}
    BY <1>1, <2>2, <2>3, FS_EmptySet
  <2> QED  BY <2>1, <2>4
<1> QED  BY <1>2, <1>3

------------------------------------------------------------------------------
(* Sequences of anything.                                                  *)

IsSeq(s) == s \in Seq(Range(s))

LEMMA SeqFacts ==
  ASSUME NEW s, IsSeq(s)
  PROVE  /\ Len(s) \in Nat /\ DOMAIN s = 1..Len(s)
         /\ \A k \in 1..Len(s) : s[k] \in Range(s)
         /\ \A x \in Range(s) : \E k \in 1..Len(s) : s[k] = x
         /\ s = [k \in 1..Len(s) |-> s[k]]
BY DEF IsSeq, Range

LEMMA SeqIsSeq ==
  ASSUME NEW A, NEW s \in Seq(A)
  PROVE  IsSeq(s) /\ Range(s) \subseteq A
<1>1. Len(s) \in Nat /\ DOMAIN s = 1..Len(s) /\ s = [k \in 1..Len(s) |-> s[k]] /\ \A k \in 1..Len(s) : s[k] \in A
  OBVIOUS
<1>2. \A k \in 1..Len(s) : s[k] \in Range(s)
  BY <1>1 DEF Range
<1>3. s \in [1..Len(s) -> Range(s)]
  BY <1>1, <1>2
<1>4. IsSeq(s)
  BY <1>1, <1>3 DEF IsSeq
<1>5. Range(s) \subseteq A
  BY <1>1 DEF Range
<1> QED  BY <1>4, <1>5

LEMMA FunctionIsSeq ==
  ASSUME NEW n \in Nat, NEW s, s = [k \in 1..n |-> s[k]]
  PROVE  IsSeq(s) /\ Len(s) = n
<1>1. DOMAIN s = 1..n
  BY Zenon
<1>2. \A k \in 1..n : s[k] \in Range(s)
  BY <1>1 DEF Range
<1>3. s \in [1..n -> Range(s)]
  BY <1>2
<1>4. s \in Seq(Range(s))
  BY <1>3
<1> QED  BY <1>1, <1>4 DEF IsSeq

LEMMA EmptyIsSeq == IsSeq(<<>>) /\ Range(<<>>) = {}
BY DEF IsSeq, Range

LEMMA SingletonIsSeq ==
  ASSUME NEW x
  PROVE  IsSeq(<<x>>) /\ Range(<<x>>) = {x}
BY DEF IsSeq, Range

LEMMA ConcatIsSeq ==
  ASSUME NEW s, NEW t, IsSeq(s), IsSeq(t)
  PROVE  IsSeq(s \o t) /\ Range(s \o t) = Range(s) \cup Range(t)
<1> DEFINE A == Range(s) \cup Range(t)
           st == s \o t
<1>1. s \in Seq(A) /\ t \in Seq(A)
  <2>1. /\ Range(s) \subseteq A /\ Range(t) \subseteq A
        /\ s \in Seq(Range(s)) /\ t \in Seq(Range(t))
    BY DEF IsSeq
  <2> HIDE DEF A
  <2> QED  BY <2>1, SeqMonotonic
<1>2. /\ st \in Seq(A) /\ Len(st) = Len(s) + Len(t)
      /\ \A n \in 1..Len(s) : st[n] = s[n]
      /\ \A n \in 1..Len(t) : st[Len(s) + n] = t[n]
  <2> HIDE DEF A
  <2> QED  BY <1>1, ConcatAt
<1>3. IsSeq(st) /\ Range(st) \subseteq A
  <2> HIDE DEF A, st
  <2> QED  BY <1>2, SeqIsSeq
<1>4. Len(s) \in Nat /\ Len(t) \in Nat
  BY SeqFacts
<1> HIDE DEF st
<1>5. ASSUME NEW x \in A
      PROVE  x \in Range(st)
  <2>1. DOMAIN st = 1..Len(st)
    BY <1>3, SeqFacts
  <2>2. CASE x \in Range(s)
    <3>1. PICK k \in 1..Len(s) : s[k] = x
      BY <2>2, SeqFacts
    <3>2. k \in 1..Len(st) /\ st[k] = x
      BY <1>2, <1>4, <3>1
    <3> QED  BY <2>1, <3>2 DEF Range
  <2>3. CASE x \in Range(t)
    <3>1. PICK k \in 1..Len(t) : t[k] = x
      BY <2>3, SeqFacts
    <3>2. Len(s) + k \in 1..Len(st) /\ st[Len(s) + k] = x
      BY <1>2, <1>4, <3>1
    <3> QED  BY <2>1, <3>2 DEF Range
  <2> QED  BY <2>2, <2>3
<1> QED  BY <1>3, <1>5 DEF st

\* The elements of a sequence of sequences, one after another: where each comes from,
\* in the order of the sequences.
Flattened(flat, n, seqs) ==
  /\ IsSeq(flat)
  /\ \E b \in [1..Len(flat) -> 1..n] :
       /\ \A j \in 1..Len(flat) : flat[j] \in Range(seqs[b[j]])
       /\ \A j, k \in 1..Len(flat) : j <= k => b[j] <= b[k]
  /\ \A k \in 1..n : Range(seqs[k]) \subseteq Range(flat)

LEMMA FlattenedStep ==
  ASSUME NEW n \in Nat, NEW seqs, NEW flat, Flattened(flat, n, seqs), IsSeq(seqs[n + 1])
  PROVE  Flattened(flat \o seqs[n + 1], n + 1, seqs)
<1> DEFINE t == seqs[n + 1]
           new == flat \o t
<1>1. IsSeq(flat) /\ IsSeq(t)
  BY DEF Flattened
<1>2. Len(flat) \in Nat /\ Len(t) \in Nat /\ \A k \in 1..Len(t) : t[k] \in Range(t)
  BY <1>1, SeqFacts
<1>3. PICK b \in [1..Len(flat) -> 1..n] :
        /\ \A j \in 1..Len(flat) : flat[j] \in Range(seqs[b[j]])
        /\ \A j, k \in 1..Len(flat) : j <= k => b[j] <= b[k]
  BY DEF Flattened
<1>4. IsSeq(new) /\ Range(new) = Range(flat) \cup Range(t)
  BY <1>1, ConcatIsSeq
<1>5. /\ Len(new) = Len(flat) + Len(t)
      /\ \A j \in 1..Len(flat) : new[j] = flat[j]
      /\ \A j \in 1..Len(t) : new[Len(flat) + j] = t[j]
  <2> DEFINE A == Range(flat) \cup Range(t)
  <2>1. flat \in Seq(A) /\ t \in Seq(A)
    <3>1. /\ Range(flat) \subseteq A /\ Range(t) \subseteq A
          /\ flat \in Seq(Range(flat)) /\ t \in Seq(Range(t))
      BY <1>1 DEF IsSeq
    <3> HIDE DEF A, t
    <3> QED  BY <3>1, SeqMonotonic
  <2> HIDE DEF A, t
  <2> QED  BY <2>1, ConcatAt
<1> DEFINE c == [j \in 1..Len(new) |-> IF j <= Len(flat) THEN b[j] ELSE n + 1]
<1> HIDE DEF t, new
<1>6. ASSUME NEW j \in 1..Len(new)
      PROVE  /\ c[j] \in 1..(n + 1) /\ new[j] \in Range(seqs[c[j]])
             /\ (j <= Len(flat) => j \in 1..Len(flat) /\ c[j] = b[j] /\ b[j] \in 1..n)
             /\ (~(j <= Len(flat)) => c[j] = n + 1)
  <2>1. CASE j <= Len(flat)
    <3>1. j \in 1..Len(flat)
      BY <1>2, <2>1
    <3>2. c[j] = b[j] /\ b[j] \in 1..n
      BY <1>3, <2>1, <3>1
    <3>3. new[j] = flat[j] /\ flat[j] \in Range(seqs[b[j]])
      BY <1>3, <1>5, <3>1
    <3>4. b[j] \in 1..(n + 1)
      BY ONLY <3>2, n \in Nat
    <3> HIDE DEF c
    <3> QED  BY <2>1, <3>1, <3>2, <3>3, <3>4
  <2>2. CASE ~(j <= Len(flat))
    <3>1. j - Len(flat) \in 1..Len(t) /\ Len(flat) + (j - Len(flat)) = j
      BY ONLY <1>2, <1>5, <2>2, j \in 1..Len(new)
    <3>2. new[j] = t[j - Len(flat)]
      BY <1>5, <3>1
    <3>3. t[j - Len(flat)] \in Range(t)
      BY <1>2, <3>1
    <3>4. c[j] = n + 1
      BY <2>2
    <3>5. new[j] \in Range(seqs[n + 1])
      BY <3>2, <3>3 DEF t
    <3>6. n + 1 \in 1..(n + 1)
      OBVIOUS
    <3> HIDE DEF c
    <3> QED  BY <2>2, <3>4, <3>5, <3>6
  <2> QED  BY <2>1, <2>2
<1>7. c \in [1..Len(new) -> 1..(n + 1)]
  <2>1. c = [j \in 1..Len(new) |-> c[j]]
    OBVIOUS
  <2> HIDE DEF c
  <2> QED  BY <1>6, <2>1
<1>8. ASSUME NEW j \in 1..Len(new), NEW k \in 1..Len(new), j <= k
      PROVE  c[j] <= c[k]
  <2> HIDE DEF c
  <2>1. CASE k <= Len(flat)
    <3>1. j <= Len(flat)
      <4>1. j \in Int /\ k \in Int
        OBVIOUS
      <4> QED  BY ONLY <1>2, <1>8, <2>1, <4>1
    <3> QED  BY <1>3, <1>6, <1>8, <2>1, <3>1
  <2>2. CASE ~(k <= Len(flat))
    <3>1. c[k] = n + 1 /\ c[j] \in 1..(n + 1)
      BY <1>6, <2>2
    <3> QED  BY ONLY <3>1, n \in Nat
  <2> QED  BY <2>1, <2>2
<1>9. ASSUME NEW k \in 1..(n + 1)
      PROVE  Range(seqs[k]) \subseteq Range(new)
  <2>1. CASE k = n + 1
    BY <1>4, <2>1 DEF t
  <2>2. CASE k \in 1..n
    BY <1>4, <2>2 DEF Flattened
  <2> QED  BY <2>1, <2>2
<1> HIDE DEF c
<1>10. /\ \A j \in 1..Len(new) : new[j] \in Range(seqs[c[j]])
       /\ \A j, k \in 1..Len(new) : j <= k => c[j] <= c[k]
  BY <1>6, <1>8
<1>11. Flattened(new, n + 1, seqs)
  BY <1>4, <1>7, <1>9, <1>10 DEF Flattened
<1> QED  BY <1>11 DEF new, t

LEMMA FlattenSeqIs ==
  ASSUME NEW seqs, IsSeq(seqs), \A k \in 1..Len(seqs) : IsSeq(seqs[k])
  PROVE  Flattened(FlattenSeq(seqs), Len(seqs), seqs)
<1> DEFINE n == Len(seqs)
           Course1(g, m) == \A i \in 1..m : g[i] = IF i = 1 THEN seqs[i] ELSE g[i - 1] \o seqs[i]
           Equation(g) == g = [i \in 1..Len(seqs) |-> IF i = 1 THEN seqs[i] ELSE g[i - 1] \o seqs[i]]
           flatten == CHOOSE g : Equation(g)
           S == {m \in 0..n : \E g : g = [i \in 1..m |-> g[i]] /\ Course1(g, m)}
<1>1. n \in Nat
  BY SeqFacts
<1>2. CASE n = 0
  <2>1. FlattenSeq(seqs) = seqs
    BY <1>2 DEF FlattenSeq
  <2>2. 1..Len(seqs) = {}
    BY <1>2
  <2>3. [j \in {} |-> 0] \in [1..Len(seqs) -> 1..n]
    BY <2>2
  <2> QED  BY <2>1, <2>2, <2>3 DEF Flattened
<1>3. CASE n # 0
  <2>1. 0 \in S
    <3>1. 0 \in 0..n /\ 1..0 = {}
      BY <1>1
    <3> DEFINE g0 == [i \in 1..0 |-> <<>>]
    <3>2. g0 = [i \in 1..0 |-> g0[i]] /\ Course1(g0, 0)
      BY <3>1
    <3> HIDE DEF g0
    <3> QED  BY <3>1, <3>2
  <2>2. ASSUME NEW k \in 1..n, k - 1 \in S
        PROVE  k \in S
    <3>1. PICK g : g = [i \in 1..(k - 1) |-> g[i]] /\ Course1(g, k - 1)
      BY <2>2
    <3> DEFINE h == [i \in 1..k |-> IF i = k THEN IF i = 1 THEN seqs[i] ELSE g[i - 1] \o seqs[i] ELSE g[i]]
    <3>2. ASSUME NEW i \in 1..k
          PROVE  h[i] = IF i = 1 THEN seqs[i] ELSE h[i - 1] \o seqs[i]
      <4>1. CASE i = k
        <5>1. k # 1 => k - 1 \in 1..k /\ h[k - 1] = g[k - 1]
          OBVIOUS
        <5>2. h[k] = IF k = 1 THEN seqs[k] ELSE g[k - 1] \o seqs[k]
          <6>1. k \in 1..k
            OBVIOUS
          <6> QED  BY <6>1
        <5> HIDE DEF h
        <5> QED  BY <4>1, <5>1, <5>2
      <4>2. CASE i # k
        <5>1. i \in 1..(k - 1) /\ (i # 1 => i - 1 \in 1..k /\ i - 1 # k)
          BY <4>2
        <5>2. h[i] = g[i] /\ (i # 1 => h[i - 1] = g[i - 1])
          BY <4>2, <5>1
        <5>3. g[i] = IF i = 1 THEN seqs[i] ELSE g[i - 1] \o seqs[i]
          BY <3>1, <5>1
        <5> HIDE DEF h
        <5> QED  BY <5>2, <5>3
      <4> QED  BY <4>1, <4>2
    <3>3. h = [i \in 1..k |-> h[i]]
      OBVIOUS
    <3>4. k \in 0..n
      OBVIOUS
    <3> HIDE DEF h
    <3> QED  BY <3>2, <3>3, <3>4
  <2>3. n \in S
    <3> HIDE DEF S
    <3>1. 0..n \subseteq S
      BY <1>1, <2>1, <2>2, UpTo
    <3> QED  BY <1>1, <3>1
  <2>4. \E g : Equation(g)
    <3>1. PICK g : g = [i \in 1..n |-> g[i]] /\ Course1(g, n)
      BY <2>3
    <3>2. Equation(g)
      BY <3>1
    <3> QED  BY <3>2
  <2>5. Equation(flatten)
    BY <2>4
  <2>6. FlattenSeq(seqs) = flatten[n]
    BY <1>3 DEF FlattenSeq
  <2> DEFINE P == {m \in 0..n : m # 0 => Flattened(flatten[m], m, seqs)}
  <2>7. 0 \in P
    BY <1>1
  <2>8. ASSUME NEW k \in 1..n, k - 1 \in P
        PROVE  k \in P
    <3>1. flatten[k] = IF k = 1 THEN seqs[k] ELSE flatten[k - 1] \o seqs[k]
      BY <2>5
    <3>2. IsSeq(seqs[k])
      OBVIOUS
    <3> HIDE DEF flatten
    <3>3. CASE k = 1
      <4> DEFINE one == [j \in 1..Len(seqs[1]) |-> 1]
      <4>1. one \in [1..Len(seqs[1]) -> 1..1]
        OBVIOUS
      <4>2. \A j \in 1..Len(seqs[1]) : seqs[1][j] \in Range(seqs[1])
        BY <3>2, <3>3, SeqFacts
      <4>3. /\ \A j \in 1..Len(seqs[1]) : seqs[1][j] \in Range(seqs[one[j]])
            /\ \A j, m \in 1..Len(seqs[1]) : j <= m => one[j] <= one[m]
        BY <4>2
      <4>4. \A m \in 1..1 : m = 1
        OBVIOUS
      <4> HIDE DEF one
      <4>5. Flattened(seqs[1], 1, seqs)
        BY <3>2, <3>3, <4>1, <4>3, <4>4 DEF Flattened
      <4> QED  BY <1>1, <3>1, <3>3, <4>5
    <3>4. CASE k # 1
      <4>1. k - 1 \in Nat /\ k - 1 # 0 /\ k - 1 + 1 = k /\ k \in 0..n
        BY <3>4
      <4>2. Flattened(flatten[k - 1], k - 1, seqs)
        BY <2>8, <4>1
      <4>3. Flattened(flatten[k - 1] \o seqs[k - 1 + 1], k - 1 + 1, seqs)
        BY <3>2, <4>1, <4>2, FlattenedStep
      <4> QED  BY <3>1, <3>4, <4>1, <4>3
    <3> QED  BY <3>3, <3>4
  <2> HIDE DEF flatten
  <2>9. n \in P
    <3> HIDE DEF P
    <3>1. 0..n \subseteq P
      BY <1>1, <2>7, <2>8, UpTo
    <3> QED  BY <1>1, <3>1
  <2> QED  BY <1>3, <2>6, <2>9
<1> QED  BY <1>2, <1>3

\* The elements of a finite set, in some order.
LEMMA SetToSeqIs ==
  ASSUME NEW S, IsFiniteSet(S)
  PROVE  IsSeq(SetToSeq(S)) /\ Range(SetToSeq(S)) = S
<1> DEFINE n == Cardinality(S)
           f == SetToSeq(S)
<1>1. n \in Nat
  BY FS_CardinalityType
<1>2. \E g \in [1..n -> S] : IsInjective(g) /\ Range(g) = S
  <2>1. ExistsBijection(1..n, S)
    BY FS_CardinalityType
  <2>2. PICK g \in Bijection(1..n, S) : TRUE
    BY <2>1 DEF ExistsBijection
  <2>3. g \in [1..n -> S] /\ IsInjective(g)
    BY <2>2 DEF Bijection, Injection, IsInjective
  <2>4. \A x \in S : \E k \in 1..n : g[k] = x
    BY <2>2 DEF Bijection, Surjection
  <2>5. Range(g) = S
    BY <2>3, <2>4 DEF Range
  <2> QED  BY <2>3, <2>5
<1>3. f \in [1..n -> S] /\ IsInjective(f)
  BY <1>2 DEF SetToSeq
<1> HIDE DEF f
<1>4. IsSeq(f) /\ Len(f) = n
  BY <1>1, <1>3, FunctionIsSeq
<1>5. Range(f) \subseteq S
  BY <1>3 DEF Range
<1>6. S \subseteq Range(f)
  <2>1. f \in Injection(1..n, S)
    BY <1>3 DEF IsInjective, Injection
  <2>2. IsFiniteSet(1..n) /\ Cardinality(1..n) = n
    BY <1>1, FS_Interval
  <2>3. f \in Surjection(1..n, S)
    BY <2>1, <2>2, FS_Injection
  <2> QED  BY <2>3 DEF Surjection, Range
<1> QED  BY <1>4, <1>5, <1>6 DEF f

\* The image of a finite set.
LEMMA ImageIsFinite ==
  ASSUME NEW S, IsFiniteSet(S), NEW f
  PROVE  IsFiniteSet({f[x] : x \in S})
<1> DEFINE T == {f[x] : x \in S}
           g == [x \in S |-> f[x]]
<1>1. g \in Surjection(S, T)
  BY DEF Surjection
<1> HIDE DEF g, T
<1>2. IsFiniteSet(T)
  BY <1>1, FS_Surjection
<1> QED  BY <1>2 DEF T

\* The elements of a sequence are finitely many.
LEMMA RangeIsFinite ==
  ASSUME NEW s, IsSeq(s)
  PROVE  IsFiniteSet(Range(s))
<1>1. Len(s) \in Nat /\ DOMAIN s = 1..Len(s)
  BY SeqFacts
<1>2. IsFiniteSet(1..Len(s))
  BY <1>1, FS_Interval
<1>3. IsFiniteSet({s[k] : k \in 1..Len(s)})
  BY <1>2, ImageIsFinite
<1> QED  BY <1>1, <1>3 DEF Range

\* The elements that RemoveAt leaves.
LEMMA RemoveAtIs ==
  ASSUME NEW A, NEW s \in Seq(A), NEW i \in 1..Len(s)
  PROVE  /\ RemoveAt(s, i) \in Seq(A) /\ Len(RemoveAt(s, i)) = Len(s) - 1
         /\ \A j \in 1..(Len(s) - 1) : RemoveAt(s, i)[j] = IF j < i THEN s[j] ELSE s[j + 1]
<1> DEFINE F == SubSeq(s, 1, i - 1)
           G == SubSeq(s, i + 1, Len(s))
           new == F \o G
<1>1. Len(s) \in Nat
  OBVIOUS
<1>2. F \in Seq(A) /\ Len(F) = i - 1 /\ \A n \in 1..(i - 1) : F[n] = s[n]
  BY <1>1
<1>3. G \in Seq(A) /\ Len(G) = Len(s) - i /\ \A n \in 1..(Len(s) - i) : G[n] = s[i + n]
  <2>1. \A k \in (i + 1)..Len(s) : s[k] \in A
    BY <1>1
  <2>2. /\ G \in Seq(A) /\ Len(G) = IF i + 1 <= Len(s) THEN Len(s) - (i + 1) + 1 ELSE 0
        /\ \A n \in 1..(Len(s) - (i + 1) + 1) : G[n] = s[i + 1 + n - 1]
    BY <1>1, <2>1, SubSeqProperties
  <2> QED  BY <1>1, <2>2
<1> HIDE DEF F, G
<1>4. /\ new \in Seq(A) /\ Len(new) = Len(F) + Len(G)
      /\ \A n \in 1..Len(F) : new[n] = F[n]
      /\ \A n \in 1..Len(G) : new[Len(F) + n] = G[n]
  <2>1. F \in Seq(A) /\ G \in Seq(A) /\ new = F \o G
    BY <1>2, <1>3
  <2> HIDE DEF new
  <2> QED  BY ONLY <2>1, ConcatAt
<1> HIDE DEF new
<1>5. ASSUME NEW j \in 1..(Len(s) - 1)
      PROVE  new[j] = IF j < i THEN s[j] ELSE s[j + 1]
  <2>1. CASE j < i
    <3>1. j \in 1..(i - 1)
      BY <2>1
    <3> QED  BY <1>2, <1>4, <2>1, <3>1
  <2>2. CASE ~(j < i)
    <3>1. j - i + 1 \in 1..(Len(s) - i) /\ i - 1 + (j - i + 1) = j /\ i + (j - i + 1) = j + 1
      BY <1>1, <2>2
    <3>2. new[i - 1 + (j - i + 1)] = G[j - i + 1]
      BY <1>2, <1>3, <1>4, <3>1
    <3>3. G[j - i + 1] = s[i + (j - i + 1)]
      BY <1>3, <3>1
    <3> QED  BY <2>2, <3>1, <3>2, <3>3
  <2> QED  BY <2>1, <2>2
<1>6. RemoveAt(s, i) = new
  BY DEF RemoveAt, new, F, G
<1>7. Len(new) = Len(s) - 1
  BY <1>1, <1>2, <1>3, <1>4
<1> QED  BY <1>4, <1>5, <1>6, <1>7

===============================================================================
