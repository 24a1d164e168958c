---------------------------- MODULE TxnSplitProofs ----------------------------
(***************************************************************************)
(* Proofs about TxnSplit, for scripts of any length.                       *)
(***************************************************************************)
EXTENDS TxnSplit, SequenceLemmas

------------------------------------------------------------------------------
(* What splitting a block makes of its statements.                         *)

LEMMA CommitIsPart ==
  ASSUME NEW begin \in Part
  PROVE  Commit(begin) \in Part /\ Commit(begin).kind = "commit" /\ Commit(begin).line = begin.line
BY DEF Commit, Part, Kinds

LEMMA AddToBlocksType ==
  ASSUME NEW begin \in Part, NEW out \in Seq(Part), NEW p \in Part
  PROVE  AddToBlocks(begin, out, p) \in Seq(Part)
<1>1. Commit(begin) \in Part
  BY CommitIsPart
<1>2. out # <<>> => Front(out) \in Seq(Part)
  BY DEF Front
<1>3. EndsInRun(out) => out # <<>>
  BY DEF EndsInRun
<1> QED  BY <1>1, <1>2, <1>3 DEF AddToBlocks

\* The blocks of the first k statements, for every k.
LEMMA BlocksByPrefix ==
  ASSUME NEW begin \in Part, NEW body \in Seq(Part)
  PROVE  \E f \in [0..Len(body) -> Seq(Part)] :
           /\ f[0] = <<>>
           /\ \A k \in 1..Len(body) : f[k] = AddToBlocks(begin, f[k - 1], body[k])
           /\ f[Len(body)] = Blocks(begin, body)
<1> DEFINE n == Len(body)
           A == Seq(Part)
           base == <<>>
           Op(x, p) == AddToBlocks(begin, x, p)
           step == [k \in 1..n |-> [x \in A |-> Op(x, body[k])]]
           Equation(g) == g = [s \in SUBSET DOMAIN body |->
                                 IF s = {} THEN <<>> ELSE Op(g[s \ {Max(s)}], body[Max(s)])]
           iter == CHOOSE g : Equation(g)
<1>1. n \in Nat /\ DOMAIN body = 1..n /\ \A k \in 1..n : body[k] \in Part
  OBVIOUS
<1>2. step \in [1..n -> [A -> A]]
  BY <1>1, AddToBlocksType
<1>3. \E g : Equation(g)
  <2>1. PICK g \in [SUBSET (1..n) -> A] : Solves(g, n, base, step)
    <3>1. n \in Nat /\ base \in A /\ step \in [1..n -> [A -> A]]
      BY <1>1, <1>2
    <3> HIDE DEF step, base, n, A
    <3> QED  BY <3>1, RecursionExists
  <2>2. ASSUME NEW s \in SUBSET (1..n), s # {}
        PROVE  step[Max(s)][g[s \ {Max(s)}]] = Op(g[s \ {Max(s)}], body[Max(s)])
    <3>1. Max(s) \in 1..n
      BY <1>1, <2>2, MaxOf
    <3>2. g[s \ {Max(s)}] \in A
      BY <2>1
    <3> QED  BY <3>1, <3>2
  <2>3. Equation(g)
    BY <1>1, <2>1, <2>2 DEF Solves
  <2> QED  BY <2>3
<1>4. Equation(iter)
  BY <1>3
<1>5. Blocks(begin, body) = iter[1..n]
  BY <1>1 DEF Blocks, FoldLeft, MapThenFoldSet
<1>6. iter[{}] = <<>>
  BY <1>4
<1>7. Follows(iter, n, A, step)
  <2> SUFFICES ASSUME NEW s \in SUBSET (1..n), s # {}, iter[s \ {Max(s)}] \in A
               PROVE  iter[s] = step[Max(s)][iter[s \ {Max(s)}]]
    BY DEF Follows
  <2>1. Max(s) \in 1..n
    BY <1>1, MaxOf
  <2>2. iter[s] = Op(iter[s \ {Max(s)}], body[Max(s)])
    BY <1>1, <1>4
  <2> HIDE DEF iter, A, n
  <2> QED  BY <2>1, <2>2
<1>8. PICK f \in [0..n -> A] : Course(f, n, base, step) /\ f[n] = iter[1..n]
  <2>1. n \in Nat /\ base \in A /\ step \in [1..n -> [A -> A]] /\ iter[{}] = base
    BY <1>1, <1>2, <1>6
  <2> HIDE DEF iter, step, base, n, A
  <2> QED  BY <1>7, <2>1, RecursionByPrefix
<1>9. ASSUME NEW k \in 1..n
      PROVE  f[k] = AddToBlocks(begin, f[k - 1], body[k])
  <2>1. f[k - 1] \in A
    BY <1>1, <1>8
  <2> QED  BY <1>8, <2>1 DEF Course
<1> QED  BY <1>5, <1>8, <1>9 DEF Course

IsStatement(p) == p.kind \notin {"begin", "commit"}

\* The shape of the blocks: each is closed by a COMMIT, a DDL statement has a block of its
\* own, and every statement is in a block.
InABlock(out, n) ==
  \E b \in 1..(n - 1) :
    out[b].kind = "begin" /\ \A m \in (b + 1)..(n - 1) : out[m].kind # "commit"
WellSplit(out) ==
  /\ out # <<>> => /\ Len(out) >= 3
                   /\ out[Len(out)].kind = "commit"
                   /\ IsStatement(out[Len(out) - 1])
  /\ \A n \in 1..Len(out) :
       /\ out[n].kind \notin {"rollback", "bad"}
       /\ out[n].kind = "begin" => n = 1 \/ out[n - 1].kind = "commit"
       /\ out[n].kind = "ddl" => /\ n >= 2 /\ out[n - 1].kind = "begin"
                                 /\ n < Len(out) /\ out[n + 1].kind = "commit"
       /\ IsStatement(out[n]) => InABlock(out, n)

\* The statements of ps up to k, each once and in their order, are those of out.
OrderedLines(ps) ==
  \A j, k \in 1..Len(ps) : j < k /\ IsStatement(ps[j]) /\ IsStatement(ps[k]) => ps[j].line < ps[k].line
SameStatements(out, ps, k) ==
  /\ OrderedLines(out)
  /\ \A n \in 1..Len(out) : IsStatement(out[n]) => \E j \in 1..k : out[n] = ps[j]
  /\ \A j \in 1..k : IsStatement(ps[j]) => \E n \in 1..Len(out) : out[n] = ps[j]

\* A block that is split holds no end of a transaction, and parses.
Splittable(body) ==
  /\ OrderedLines(body)
  /\ \A j \in 1..Len(body) : body[j].kind \notin {"commit", "rollback", "bad"}

\* A run is extended by p, or p gets a block of its own.
LEMMA AddToBlocksAt ==
  ASSUME NEW begin \in Part, NEW out \in Seq(Part), WellSplit(out),
         NEW p \in Part, p.kind # "begin",
         NEW new, new = AddToBlocks(begin, out, p)
  PROVE  \/ /\ out # <<>> /\ out[Len(out) - 1].kind # "ddl" /\ p.kind # "ddl"
            /\ Len(new) = Len(out) + 1
            /\ \A n \in 1..(Len(out) - 1) : new[n] = out[n]
            /\ new[Len(out)] = p /\ new[Len(out) + 1] = Commit(begin)
         \/ /\ Len(new) = Len(out) + 3
            /\ \A n \in 1..Len(out) : new[n] = out[n]
            /\ new[Len(out) + 1] = begin /\ new[Len(out) + 2] = p /\ new[Len(out) + 3] = Commit(begin)
<1>1. Commit(begin) \in Part
  BY CommitIsPart
<1>2. CASE p.kind # "ddl" /\ EndsInRun(out)
  <2> DEFINE L == Len(out)
             F == SubSeq(out, 1, L - 1)
             T == <<p, Commit(begin)>>
  <2>1. out # <<>> /\ L >= 3 /\ L \in Nat /\ out[L - 1].kind # "ddl"
    BY <1>2 DEF EndsInRun, WellSplit
  <2>2. new = F \o T
    BY <1>2 DEF AddToBlocks, Front
  <2>3. F \in Seq(Part) /\ Len(F) = L - 1 /\ \A n \in 1..(L - 1) : F[n] = out[n]
    BY <2>1
  <2>4. T \in Seq(Part) /\ Len(T) = 2 /\ T[1] = p /\ T[2] = Commit(begin)
    BY <1>1
  <2> HIDE DEF F, T
  <2>5. /\ Len(new) = Len(F) + Len(T)
        /\ \A n \in 1..Len(F) : new[n] = F[n]
        /\ \A n \in 1..Len(T) : new[Len(F) + n] = T[n]
    <3>1. F \in Seq(Part) /\ T \in Seq(Part)
      BY <2>3, <2>4
    <3> QED  BY ONLY <2>2, <3>1, ConcatAt
  <2>6. L - 1 + 1 = L /\ L - 1 + 2 = L + 1 /\ 1 \in 1..2 /\ 2 \in 1..2
    BY <2>1
  <2>7. Len(new) = L + 1 /\ (\A n \in 1..(L - 1) : new[n] = out[n])
    BY <2>1, <2>3, <2>4, <2>5
  <2>8. new[L] = p /\ new[L + 1] = Commit(begin)
    BY <2>3, <2>4, <2>5, <2>6
  <2> QED  BY <1>2, <2>1, <2>7, <2>8
<1>3. CASE ~(p.kind # "ddl" /\ EndsInRun(out))
  <2>1. new = out \o <<begin, p, Commit(begin)>>
    BY <1>3 DEF AddToBlocks
  <2> QED  BY <1>1, <2>1
<1> QED  BY <1>2, <1>3

\* Each statement that is added keeps the shape.
LEMMA AddToBlocksKeepsShape ==
  ASSUME NEW begin \in Part, begin.kind = "begin", NEW out \in Seq(Part), WellSplit(out),
         NEW p \in Part, p.kind \notin {"begin", "commit", "rollback", "bad"},
         NEW new, new = AddToBlocks(begin, out, p)
  PROVE  WellSplit(new)
<1> DEFINE L == Len(out)
           Fine(s, n) == /\ s[n].kind \notin {"rollback", "bad"}
                         /\ s[n].kind = "begin" => n = 1 \/ s[n - 1].kind = "commit"
                         /\ s[n].kind = "ddl" => /\ n >= 2 /\ s[n - 1].kind = "begin"
                                                 /\ n < Len(s) /\ s[n + 1].kind = "commit"
<1>1. L \in Nat /\ (out = <<>> => L = 0) /\ (out # <<>> => L >= 3)
  BY DEF WellSplit
<1>2. \A n \in 1..L : Fine(out, n)
  BY DEF WellSplit
<1>3. new \in Seq(Part) /\ Len(new) \in Nat
  BY AddToBlocksType
<1>4. IsStatement(p) /\ Commit(begin).kind = "commit" /\ ~IsStatement(Commit(begin)) /\ ~IsStatement(begin)
  BY CommitIsPart DEF IsStatement
<1>5. out # <<>> => out[L].kind = "commit" /\ IsStatement(out[L - 1])
  BY DEF WellSplit
<1>6. ASSUME NEW n \in 1..L, IsStatement(out[n]),
             \A m \in 1..n : new[m] = out[m]
      PROVE  InABlock(new, n)
  <2>1. PICK b \in 1..(n - 1) : out[b].kind = "begin" /\ \A m \in (b + 1)..(n - 1) : out[m].kind # "commit"
    BY <1>6 DEF WellSplit, InABlock
  <2>2. new[b].kind = "begin" /\ \A m \in (b + 1)..(n - 1) : new[m].kind # "commit"
    BY <1>6, <2>1
  <2> QED  BY <2>2 DEF InABlock
<1>7. CASE /\ out # <<>> /\ out[L - 1].kind # "ddl" /\ p.kind # "ddl"
           /\ Len(new) = L + 1
           /\ \A n \in 1..(L - 1) : new[n] = out[n]
           /\ new[L] = p /\ new[L + 1] = Commit(begin)
  <2>1. L >= 3 /\ out[L].kind = "commit" /\ IsStatement(out[L - 1])
    BY <1>1, <1>5, <1>7
  <2>2. ASSUME NEW n \in 1..(L - 1)
        PROVE  Fine(new, n)
    <3>1. Fine(out, n) /\ new[n] = out[n] /\ (n > 1 => new[n - 1] = out[n - 1])
      BY <1>1, <1>2, <1>7
    <3>2. n < L - 1 => new[n + 1] = out[n + 1]
      BY <1>1, <1>7
    <3> QED  BY <1>1, <1>7, <3>1, <3>2
  <2>3. Fine(new, L) /\ Fine(new, L + 1)
    BY <1>4, <1>7
  <2>4. \A n \in 1..(L - 1) : IsStatement(new[n]) => InABlock(new, n)
    BY <1>1, <1>6, <1>7
  <2>5. InABlock(new, L)
    <3>1. IsStatement(new[L - 1]) /\ new[L - 1].kind # "commit" /\ InABlock(new, L - 1)
      BY <1>1, <1>7, <2>1, <2>4 DEF IsStatement
    <3>2. PICK b \in 1..(L - 2) : new[b].kind = "begin" /\ \A m \in (b + 1)..(L - 2) : new[m].kind # "commit"
      BY <3>1, <2>1 DEF InABlock
    <3>3. b \in 1..(L - 1) /\ \A m \in (b + 1)..(L - 1) : m \in (b + 1)..(L - 2) \/ m = L - 1
      BY <1>1, <2>1
    <3> QED  BY <3>1, <3>2, <3>3 DEF InABlock
  <2>6. ~IsStatement(new[L + 1]) /\ IsStatement(new[L])
    BY <1>4, <1>7
  <2>7. \A n \in 1..Len(new) : n \in 1..(L - 1) \/ n = L \/ n = L + 1
    BY <1>1, <1>7
  <2>8. \A n \in 1..Len(new) : Fine(new, n)
    BY <2>2, <2>3, <2>7, Zenon
  <2>9. \A n \in 1..Len(new) : IsStatement(new[n]) => InABlock(new, n)
    BY <2>4, <2>5, <2>6, <2>7, Zenon
  <2>10. Len(new) >= 3 /\ new[Len(new)].kind = "commit" /\ IsStatement(new[Len(new) - 1])
    BY <1>1, <1>4, <1>7, <2>1, <2>6
  <2> QED  BY <2>8, <2>9, <2>10 DEF WellSplit
<1>8. CASE /\ Len(new) = L + 3
           /\ \A n \in 1..L : new[n] = out[n]
           /\ new[L + 1] = begin /\ new[L + 2] = p /\ new[L + 3] = Commit(begin)
  <2>1. ASSUME NEW n \in 1..L
        PROVE  Fine(new, n)
    <3>1. Fine(out, n) /\ new[n] = out[n] /\ (n > 1 => new[n - 1] = out[n - 1])
      BY <1>1, <1>2, <1>8
    <3>2. n < L => new[n + 1] = out[n + 1]
      BY <1>1, <1>8
    <3> QED  BY <1>1, <1>8, <3>1, <3>2
  <2>2. Fine(new, L + 1)
    <3>1. L # 0 => new[L].kind = "commit"
      BY <1>1, <1>5, <1>8
    <3> QED  BY <1>1, <1>8, <3>1
  <2>3. Fine(new, L + 2) /\ Fine(new, L + 3)
    BY <1>1, <1>4, <1>8
  <2>4. \A n \in 1..L : IsStatement(new[n]) => InABlock(new, n)
    BY <1>1, <1>6, <1>8
  <2>5. InABlock(new, L + 2)
    <3>1. L + 1 \in 1..(L + 2 - 1) /\ (L + 1 + 1)..(L + 2 - 1) = {}
      BY <1>1
    <3> QED  BY <1>8, <3>1 DEF InABlock
  <2>6. ~IsStatement(new[L + 1]) /\ IsStatement(new[L + 2]) /\ ~IsStatement(new[L + 3])
    BY <1>4, <1>8
  <2>7. \A n \in 1..Len(new) : n \in 1..L \/ n = L + 1 \/ n = L + 2 \/ n = L + 3
    BY <1>1, <1>8
  <2>8. \A n \in 1..Len(new) : Fine(new, n)
    <3> SUFFICES ASSUME NEW n \in 1..Len(new)
                 PROVE  Fine(new, n)
      OBVIOUS
    <3>1. n \in 1..L \/ n = L + 1 \/ n = L + 2 \/ n = L + 3
      BY <2>7
    <3> HIDE DEF Fine
    <3> QED  BY ONLY <2>1, <2>2, <2>3, <3>1
  <2>9. \A n \in 1..Len(new) : IsStatement(new[n]) => InABlock(new, n)
    BY ONLY <2>4, <2>5, <2>6, <2>7, Zenon
  <2>10. Len(new) >= 3 /\ new[Len(new)].kind = "commit" /\ IsStatement(new[Len(new) - 1])
    BY <1>1, <1>4, <1>8, <2>6
  <2> QED  BY <2>8, <2>9, <2>10 DEF WellSplit
<1>9. p.kind # "begin"
  OBVIOUS
<1> QED  BY <1>7, <1>8, <1>9, AddToBlocksAt

\* Each statement that is added comes after those before it, once.
LEMMA AddToBlocksKeepsStatements ==
  ASSUME NEW begin \in Part, begin.kind = "begin", NEW out \in Seq(Part), WellSplit(out),
         NEW body \in Seq(Part), Splittable(body), NEW k \in 1..Len(body),
         body[k].kind # "begin", SameStatements(out, body, k - 1),
         NEW new, new = AddToBlocks(begin, out, body[k])
  PROVE  SameStatements(new, body, k)
<1> DEFINE L == Len(out)
           p == body[k]
<1>1. p \in Part /\ IsStatement(p) /\ k \in Nat /\ L \in Nat
  BY DEF Splittable, IsStatement
<1>2. ~IsStatement(Commit(begin)) /\ ~IsStatement(begin)
  BY CommitIsPart DEF IsStatement
<1>3. ASSUME NEW n \in 1..L, IsStatement(out[n])
      PROVE  (\E j \in 1..k : out[n] = body[j]) /\ out[n].line < p.line
  <2>1. PICK j \in 1..(k - 1) : out[n] = body[j]
    BY <1>3 DEF SameStatements
  <2>2. j \in 1..Len(body) /\ j \in 1..k /\ j < k
    BY <1>1
  <2>3. IsStatement(body[j])
    BY <1>3, <2>1
  <2> QED  BY <1>1, <2>1, <2>2, <2>3 DEF Splittable, OrderedLines
<1>4. ASSUME NEW at \in Int, new[at] = p, at \in 1..Len(new),
             \A n \in 1..Len(new) : IsStatement(new[n]) => n = at \/ (n \in 1..L /\ n < at /\ new[n] = out[n]),
             \A n \in 1..L : IsStatement(out[n]) => n \in 1..Len(new) /\ new[n] = out[n]
      PROVE  SameStatements(new, body, k)
  <2>1. OrderedLines(new)
    <3> SUFFICES ASSUME NEW m \in 1..Len(new), NEW n \in 1..Len(new),
                        m < n, IsStatement(new[m]), IsStatement(new[n])
                 PROVE  new[m].line < new[n].line
      BY DEF OrderedLines
    <3>1. m \in 1..L /\ new[m] = out[m]
      BY <1>4
    <3>2. CASE n = at
      BY <1>3, <1>4, <3>1, <3>2
    <3>3. CASE n # at
      <4>1. n \in 1..L /\ new[n] = out[n]
        BY <1>4, <3>3
      <4> QED  BY <3>1, <4>1 DEF SameStatements, OrderedLines
    <3> QED  BY <3>2, <3>3
  <2>2. \A n \in 1..Len(new) : IsStatement(new[n]) => \E j \in 1..k : new[n] = body[j]
    <3> SUFFICES ASSUME NEW n \in 1..Len(new), IsStatement(new[n])
                 PROVE  \E j \in 1..k : new[n] = body[j]
      OBVIOUS
    <3>1. CASE n = at
      BY <1>1, <1>4, <3>1
    <3>2. CASE n # at
      BY <1>3, <1>4, <3>2
    <3> QED  BY <3>1, <3>2
  <2>3. \A j \in 1..k : IsStatement(body[j]) => \E n \in 1..Len(new) : new[n] = body[j]
    <3> SUFFICES ASSUME NEW j \in 1..k, IsStatement(body[j])
                 PROVE  \E n \in 1..Len(new) : new[n] = body[j]
      OBVIOUS
    <3>1. CASE j = k
      BY <1>4, <3>1
    <3>2. CASE j # k
      <4>1. j \in 1..(k - 1)
        BY <1>1, <3>2
      <4>2. PICK n \in 1..L : out[n] = body[j]
        BY <4>1 DEF SameStatements
      <4> QED  BY <1>4, <4>2
    <3> QED  BY <3>1, <3>2
  <2> QED  BY <2>1, <2>2, <2>3 DEF SameStatements
<1>5. CASE /\ out # <<>> /\ out[L - 1].kind # "ddl" /\ p.kind # "ddl"
           /\ Len(new) = L + 1
           /\ \A n \in 1..(L - 1) : new[n] = out[n]
           /\ new[L] = p /\ new[L + 1] = Commit(begin)
  <2>1. L >= 3 /\ ~IsStatement(out[L])
    BY <1>5 DEF WellSplit, IsStatement
  <2>2. \A n \in 1..Len(new) : IsStatement(new[n]) => n = L \/ (n \in 1..L /\ n < L /\ new[n] = out[n])
    <3>1. \A n \in 1..Len(new) : n \in 1..(L - 1) \/ n = L \/ n = L + 1
      BY <1>1, <1>5
    <3>2. \A n \in 1..(L - 1) : n \in 1..L /\ n < L /\ new[n] = out[n]
      BY <1>1, <1>5
    <3>3. ~IsStatement(new[L + 1])
      BY <1>2, <1>5
    <3> QED  BY <3>1, <3>2, <3>3
  <2>3. \A n \in 1..L : IsStatement(out[n]) => n \in 1..Len(new) /\ new[n] = out[n]
    BY <1>1, <1>5, <2>1
  <2>4. L \in Int /\ L \in 1..Len(new) /\ new[L] = p
    BY <1>1, <1>5, <2>1
  <2> HIDE DEF L
  <2> QED  BY <1>4, <2>2, <2>3, <2>4
<1>6. CASE /\ Len(new) = L + 3
           /\ \A n \in 1..L : new[n] = out[n]
           /\ new[L + 1] = begin /\ new[L + 2] = p /\ new[L + 3] = Commit(begin)
  <2>1. \A n \in 1..Len(new) :
          IsStatement(new[n]) => n = L + 2 \/ (n \in 1..L /\ n < L + 2 /\ new[n] = out[n])
    BY <1>1, <1>2, <1>6
  <2>2. \A n \in 1..L : IsStatement(out[n]) => n \in 1..Len(new) /\ new[n] = out[n]
    BY <1>1, <1>6
  <2>3. L + 2 \in Int /\ L + 2 \in 1..Len(new) /\ new[L + 2] = p
    BY <1>1, <1>6
  <2> HIDE DEF L
  <2> QED  BY ONLY <1>4, <2>1, <2>2, <2>3
<1>7. \/ /\ out # <<>> /\ out[L - 1].kind # "ddl" /\ p.kind # "ddl"
         /\ Len(new) = L + 1 /\ (\A n \in 1..(L - 1) : new[n] = out[n])
         /\ new[L] = p /\ new[L + 1] = Commit(begin)
      \/ /\ Len(new) = L + 3 /\ (\A n \in 1..L : new[n] = out[n])
         /\ new[L + 1] = begin /\ new[L + 2] = p /\ new[L + 3] = Commit(begin)
  <2>1. /\ begin \in Part /\ out \in Seq(Part) /\ WellSplit(out) /\ p \in Part
        /\ p.kind # "begin" /\ new = AddToBlocks(begin, out, p)
    BY <1>1
  <2> HIDE DEF p
  <2> QED  BY ONLY <2>1, AddToBlocksAt
<1> QED  BY <1>5, <1>6, <1>7

\* What replaces a block: blocks that DSQL accepts, with its statements.
LEMMA BlocksOfBody ==
  ASSUME NEW begin \in Part, begin.kind = "begin", NEW body \in Seq(Part), Splittable(body),
         NEW new, new = Blocks(begin, body)
  PROVE  new \in Seq(Part) /\ WellSplit(new) /\ SameStatements(new, body, Len(body))
<1> DEFINE n == Len(body)
<1>1. PICK f \in [0..n -> Seq(Part)] :
        /\ f[0] = <<>>
        /\ \A k \in 1..n : f[k] = AddToBlocks(begin, f[k - 1], body[k])
        /\ f[n] = new
  BY BlocksByPrefix
<1> DEFINE S == {k \in 0..n : WellSplit(f[k]) /\ SameStatements(f[k], body, k)}
<1>2. n \in Nat /\ 0 \in 0..n /\ n \in 0..n
  OBVIOUS
<1>3. 0 \in S
  <2>1. WellSplit(<<>>) /\ SameStatements(<<>>, body, 0)
    BY DEF WellSplit, SameStatements, OrderedLines
  <2> QED  BY <1>1, <1>2, <2>1
<1>4. ASSUME NEW k \in 1..n, k - 1 \in S
      PROVE  k \in S
  <2>1. k - 1 \in 0..n /\ k \in 0..n /\ WellSplit(f[k - 1]) /\ SameStatements(f[k - 1], body, k - 1)
    BY <1>4
  <2>2. f[k - 1] \in Seq(Part) /\ f[k] = AddToBlocks(begin, f[k - 1], body[k]) /\ body[k] \in Part
    BY <1>1, <2>1
  <2>3. body[k].kind \notin {"commit", "rollback", "bad"}
    BY DEF Splittable
  <2>4. CASE body[k].kind = "begin"
    <3>1. f[k] = f[k - 1]
      BY <2>2, <2>4 DEF AddToBlocks
    <3>2. ~IsStatement(body[k])
      BY <2>4 DEF IsStatement
    <3>3. \A j \in 1..k : j \in 1..(k - 1) \/ j = k
      OBVIOUS
    <3>4. \A j \in 1..(k - 1) : j \in 1..k
      OBVIOUS
    <3>5. SameStatements(f[k], body, k)
      BY <2>1, <3>1, <3>2, <3>3, <3>4 DEF SameStatements
    <3> QED  BY <2>1, <3>1, <3>5
  <2>5. CASE body[k].kind # "begin"
    <3>1. WellSplit(f[k])
      BY <2>1, <2>2, <2>3, <2>5, AddToBlocksKeepsShape
    <3>2. SameStatements(f[k], body, k)
      BY <2>1, <2>2, <2>5, AddToBlocksKeepsStatements
    <3> QED  BY <2>1, <3>1, <3>2
  <2> QED  BY <2>4, <2>5
<1>5. n \in S
  <2> HIDE DEF S
  <2>1. 0..n \subseteq S
    BY <1>2, <1>3, <1>4, UpTo
  <2> QED  BY <1>2, <2>1
<1> QED  BY <1>1, <1>2, <1>5

------------------------------------------------------------------------------
(* The branches of the loop.                                               *)

\* The scan of a block stops at the first end of a transaction or the first statement that
\* does not parse.
LEMMA ScanStops ==
  ASSUME TypeOK, NEW b \in 1..Len(parts), Stops(b) # {}
  PROVE  ScanEnds(b, {"commit", "rollback", "bad"}) # {}
<1>1. Stops(b) \in SUBSET Nat
  BY DEF Stops
<1>2. PICK j \in Stops(b) : \A k \in Stops(b) : j <= k
  BY <1>1, LeastNatural
<1>3. parts[j].kind \in {"commit", "rollback", "bad"}
  BY <1>2 DEF Stops, is_txn_end
<1> QED  BY <1>2, <1>3 DEF ScanEnds

\* Up to there it holds neither.
LEMMA ScanHolds ==
  ASSUME TypeOK, NEW b \in 1..Len(parts), NEW kinds, NEW c \in ScanEnds(b, kinds)
  PROVE  /\ c \in (b + 1)..Len(parts)
         /\ parts[c].kind \in kinds
         /\ is_txn_end(parts[c]) \/ parts[c].kind = "bad"
         /\ \A k \in (b + 1)..(c - 1) : parts[k].kind \notin {"commit", "rollback", "bad"}
<1>1. c \in Stops(b) /\ parts[c].kind \in kinds /\ \A k \in Stops(b) : c <= k
  BY DEF ScanEnds
<1>2. Len(parts) \in Nat
  BY DEF TypeOK
<1>3. c \in (b + 1)..Len(parts) /\ (is_txn_end(parts[c]) \/ parts[c].kind = "bad")
  BY <1>1 DEF Stops
<1>4. ASSUME NEW k \in (b + 1)..(c - 1)
      PROVE  parts[k].kind \notin {"commit", "rollback", "bad"}
  <2>1. k \in (b + 1)..Len(parts) /\ ~(c <= k)
    BY <1>2, <1>3
  <2>2. k \notin Stops(b)
    BY <1>1, <2>1
  <2> QED  BY <2>1, <2>2 DEF Stops, is_txn_end
<1> QED  BY <1>1, <1>3, <1>4

\* The rules that a block with these DDL and DML statements breaks.
LEMMA BrokenByMeans ==
  ASSUME NEW D, NEW M, IsFiniteSet(D), IsFiniteSet(M)
  PROVE  BrokenBy(Cardinality(D), Cardinality(M)) =
           {r \in {"MultiDdlTransaction"} : \E x, y \in D : x # y}
             \cup {r \in {"MixedDdlDmlTransaction"} : D # {} /\ M # {}}
<1>1. Cardinality(D) \in Nat /\ Cardinality(M) \in Nat
  BY FS_CardinalityType
<1>2. Cardinality(D) > 1 <=> \E x, y \in D : x # y
  <2>1. Cardinality(D) <= 1 <=> \A x, y \in D : x = y
    BY AtMostOne
  <2> QED  BY <1>1, <2>1
<1>3. (Cardinality(D) >= 1 <=> D # {}) /\ (Cardinality(M) >= 1 <=> M # {})
  BY <1>1, FS_EmptySet
<1> QED  BY <1>2, <1>3 DEF BrokenBy

LEMMA BrokenMeans ==
  ASSUME TypeOK, NEW b \in 1..Len(parts), NEW c \in (b + 1)..Len(parts)
  PROVE  Broken(b, c) =
           {r \in {"MultiDdlTransaction"} : \E x, y \in InBlock(b, c, "ddl") : x # y}
             \cup {r \in {"MixedDdlDmlTransaction"} :
                     InBlock(b, c, "ddl") # {} /\ InBlock(b, c, "dml") # {}}
<1>1. b + 1 \in Int /\ c - 1 \in Int
  BY DEF TypeOK
<1>2. IsFiniteSet((b + 1)..(c - 1))
  BY <1>1, FS_Interval
<1>3. \A k : InBlock(b, c, k) \in SUBSET ((b + 1)..(c - 1))
  BY DEF InBlock
<1>4. IsFiniteSet(InBlock(b, c, "ddl")) /\ IsFiniteSet(InBlock(b, c, "dml"))
  BY <1>2, <1>3, FS_Subset
<1> QED  BY <1>4, BrokenByMeans DEF Broken

\* The parts new with those from i to c replaced by r.
Spliced(new, r, c) ==
  /\ new \in Seq(Part)
  /\ Len(new) = Len(parts) - (c + 1 - i - Len(r))
  /\ \A n \in 1..(i - 1) : new[n] = parts[n]
  /\ \A n \in i..(i + Len(r) - 1) : new[n] = r[n - i + 1]
  /\ \A n \in (i + Len(r))..Len(new) : new[n] = parts[n + (c + 1 - i - Len(r))]

LEMMA SpliceIs ==
  ASSUME TypeOK, i <= Len(parts), NEW c \in i..Len(parts), NEW r \in Seq(Part)
  PROVE  Spliced(Splice(i, c, r), r, c)
<1> DEFINE new == Splice(i, c, r)
           L == Len(r)
<1>1. parts \in Seq(Part) /\ Len(parts) \in Nat /\ i \in 1..Len(parts) /\ L \in Nat
  BY DEF TypeOK
<1>2. /\ new \in Seq(Part)
      /\ Len(new) = i - 1 + L + (Len(parts) - c)
      /\ \A n \in 1..(i - 1) : new[n] = parts[n]
      /\ \A n \in 1..L : new[i - 1 + n] = r[n]
      /\ \A n \in 1..(Len(parts) - c) : new[i - 1 + L + n] = parts[c + n]
  <2>1. new = Replaced(parts, i, c, r)
    BY DEF Splice, Replaced
  <2>2. IsReplaced(Replaced(parts, i, c, r), Part, parts, i, c, r)
    BY <1>1, SpliceAt
  <2> HIDE DEF new
  <2> QED  BY <2>1, <2>2 DEF IsReplaced
<1> HIDE DEF new, L
<1>3. \A n \in i..(i + L - 1) : n - i + 1 \in 1..L /\ i - 1 + (n - i + 1) = n
  BY <1>1
<1>4. ASSUME NEW n \in (i + L)..Len(new)
      PROVE  /\ n - i - L + 1 \in 1..(Len(parts) - c)
             /\ i - 1 + L + (n - i - L + 1) = n
             /\ c + (n - i - L + 1) = n + (c + 1 - i - L)
  <2>1. i \in Int /\ L \in Int /\ c \in Int /\ Len(parts) \in Int /\ n \in Int
    BY <1>1
  <2>2. Len(new) = i - 1 + L + (Len(parts) - c) /\ i + L <= n /\ n <= Len(new)
    BY <1>1, <1>2
  <2> QED  BY ONLY <2>1, <2>2
<1>5. \A n \in i..(i + L - 1) : new[n] = r[n - i + 1]
  BY <1>2, <1>3
<1>6. \A n \in (i + L)..Len(new) : new[n] = parts[n + (c + 1 - i - L)]
  BY <1>2, <1>4
<1>7. Len(new) = Len(parts) - (c + 1 - i - L)
  BY <1>1, <1>2
<1> QED  BY <1>2, <1>5, <1>6, <1>7 DEF Spliced, new, L

\* What SplitBlock puts in the place of a block: as many of its statements, accepted.
LEMMA ReplacementIs ==
  ASSUME TypeOK, OrderedLines(parts), Begins, NEW c \in ScanEnds(i, {"commit"}),
         Broken(i, c) # {}, NEW r, r = Replacement(i, c)
  PROVE  /\ r \in Seq(Part) /\ Len(r) >= 3 /\ WellSplit(r) /\ OrderedLines(r)
         /\ \A n \in 1..Len(r) : IsStatement(r[n]) => \E k \in (i + 1)..(c - 1) : r[n] = parts[k]
         /\ \A k \in (i + 1)..(c - 1) : IsStatement(parts[k]) => \E n \in 1..Len(r) : r[n] = parts[k]
<1> DEFINE body == SubSeq(parts, i + 1, c - 1)
           begin == parts[i]
           B == c - i - 1
<1>1. /\ parts \in Seq(Part) /\ Len(parts) \in Nat /\ i \in 1..Len(parts)
      /\ begin \in Part /\ begin.kind = "begin"
  BY DEF TypeOK, Begins
<1>2. c \in (i + 1)..Len(parts) /\ \A k \in (i + 1)..(c - 1) : parts[k].kind \notin {"commit", "rollback", "bad"}
  BY <1>1, ScanHolds
<1>3. B \in Nat /\ body \in Seq(Part) /\ Len(body) = B /\ \A n \in 1..B : body[n] = parts[i + n]
  <2>1. i + 1 \in Int /\ c - 1 \in Int /\ \A k \in (i + 1)..(c - 1) : parts[k] \in Part
    BY <1>1, <1>2
  <2>2. /\ body \in Seq(Part) /\ Len(body) = IF i + 1 <= c - 1 THEN c - 1 - (i + 1) + 1 ELSE 0
        /\ \A n \in 1..(c - 1 - (i + 1) + 1) : body[n] = parts[i + 1 + n - 1]
    BY <2>1, SubSeqProperties
  <2> HIDE DEF body, begin
  <2> QED  BY <1>1, <1>2, <2>2
<1>4. r = Blocks(begin, body)
  BY DEF Replacement
<1> HIDE DEF body, begin
<1>5. \A n \in 1..B : i + n \in 1..Len(parts) /\ i + n \in (i + 1)..(c - 1)
  BY <1>1, <1>2
<1>6. \A k \in (i + 1)..(c - 1) : k - i \in 1..B /\ i + (k - i) = k
  BY <1>1, <1>2
<1> HIDE DEF B
<1>7. Splittable(body)
  <2>1. \A j \in 1..B : body[j].kind \notin {"commit", "rollback", "bad"}
    BY <1>2, <1>3, <1>5
  <2>2. OrderedLines(body)
    <3> SUFFICES ASSUME NEW m \in 1..B, NEW n \in 1..B, m < n, IsStatement(body[m]), IsStatement(body[n])
                 PROVE  body[m].line < body[n].line
      BY <1>3 DEF OrderedLines
    <3>1. i + m \in 1..Len(parts) /\ i + n \in 1..Len(parts)
      BY <1>5
    <3>3. i + m < i + n
      BY <1>1, <1>3
    <3>2. body[m] = parts[i + m] /\ body[n] = parts[i + n]
      BY <1>3
    <3> QED  BY <3>1, <3>2, <3>3 DEF OrderedLines
  <2> QED  BY <1>3, <2>1, <2>2 DEF Splittable
<1>8. r \in Seq(Part) /\ WellSplit(r) /\ SameStatements(r, body, B)
  BY <1>1, <1>3, <1>4, <1>7, BlocksOfBody
<1>9. ASSUME NEW n \in 1..Len(r), IsStatement(r[n])
      PROVE  \E k \in (i + 1)..(c - 1) : r[n] = parts[k]
  BY <1>3, <1>5, <1>8, <1>9 DEF SameStatements
<1>10. ASSUME NEW k \in (i + 1)..(c - 1), IsStatement(parts[k])
       PROVE  \E n \in 1..Len(r) : r[n] = parts[k]
  <2>1. k - i \in 1..B /\ body[k - i] = parts[k]
    BY <1>3, <1>6
  <2> QED  BY <1>8, <1>10, <2>1 DEF SameStatements
<1>11. Len(r) >= 3
  <2>1. InBlock(i, c, "ddl") # {}
    BY <1>1, <1>2, BrokenMeans
  <2>2. PICK k \in (i + 1)..(c - 1) : IsStatement(parts[k])
    BY <2>1 DEF InBlock, IsStatement
  <2>3. r # <<>>
    BY <1>10, <2>2
  <2> QED  BY <1>8, <2>3 DEF WellSplit
<1> QED  BY <1>8, <1>9, <1>10, <1>11 DEF SameStatements

\* TypeOK is kept by every step.
LEMMA TypeStep ==
  ASSUME TypeOK, OrderedLines(parts), [Next]_vars
  PROVE  TypeOK'
<1> USE DEF TypeOK
<1>1. Len(parts) \in Nat
  OBVIOUS
<1>2. ASSUME Begins, NEW kinds, NEW c \in ScanEnds(i, kinds)
      PROVE  /\ c \in 1..Len(parts) /\ i \in 1..Len(parts)
             /\ c + 1 \in 1..(Len(parts) + 1) /\ i + 1 \in 1..(Len(parts) + 1)
  <2>1. i \in 1..Len(parts)
    BY <1>2 DEF Begins
  <2>2. c \in (i + 1)..Len(parts)
    BY <1>2, <2>1, ScanHolds
  <2> QED  BY <1>1, <2>1, <2>2
<1>3. CASE SkipPart
  BY <1>1, <1>3 DEF SkipPart
<1>4. CASE SkipUnparsable
  <2>1. PICK c \in ScanEnds(i, {"bad"}) :
          diagnostics' = diagnostics \cup {Report("ParseError", parts[c].line)}
    BY <1>4 DEF SkipUnparsable
  <2>2. c \in 1..Len(parts) /\ i + 1 \in 1..(Len(parts) + 1)
    BY <1>2, <1>4, <2>1 DEF SkipUnparsable
  <2>3. Report("ParseError", parts[c].line) \in Diagnostic
    <3>1. parts[c] \in Part
      BY <2>2
    <3>2. parts[c].line \in 1..MaxLen
      BY <3>1 DEF Part
    <3> QED  BY <3>2 DEF Report, Diagnostic
  <2> QED  BY <1>4, <2>1, <2>2, <2>3 DEF SkipUnparsable
<1>5. CASE SkipUncommitted
  BY <1>1, <1>5 DEF SkipUncommitted, Begins
<1>6. CASE KeepBlock
  <2>1. PICK c \in ScanEnds(i, {"commit"}) : i' = c + 1
    BY <1>6 DEF KeepBlock
  <2>2. c + 1 \in 1..(Len(parts) + 1)
    BY <1>2, <1>6, <2>1 DEF KeepBlock
  <2> QED  BY <1>6, <2>1, <2>2 DEF KeepBlock
<1>7. CASE SplitBlock
  <2>1. PICK c \in ScanEnds(i, {"commit"}) :
          /\ Broken(i, c) # {}
          /\ parts' = Splice(i, c, Replacement(i, c))
          /\ i' = i + Len(Replacement(i, c))
          /\ diagnostics' = diagnostics \cup {Report(q, parts[i].line) : q \in Broken(i, c)}
    BY <1>7 DEF SplitBlock
  <2> DEFINE r == Replacement(i, c)
  <2>2. Begins /\ i \in 1..Len(parts) /\ c \in (i + 1)..Len(parts)
    <3>1. Begins
      BY <1>7 DEF SplitBlock
    <3>2. i \in 1..Len(parts)
      BY <3>1 DEF Begins
    <3> QED  BY <3>1, <3>2, ScanHolds
  <2>3. r \in Seq(Part) /\ Len(r) \in Nat
    BY <2>1, <2>2, ReplacementIs
  <2> HIDE DEF r
  <2>4. parts' \in Seq(Part) /\ Len(parts') = Len(parts) - (c + 1 - i - Len(r))
    <3>1. c \in i..Len(parts) /\ i <= Len(parts)
      BY <1>1, <2>2
    <3>2. Spliced(Splice(i, c, r), r, c)
      BY <2>3, <3>1, SpliceIs
    <3> QED  BY <2>1, <3>2 DEF Spliced, r
  <2>5. i' \in 1..(Len(parts') + 1)
    BY <1>1, <2>1, <2>2, <2>3, <2>4 DEF r
  <2>6. Broken(i, c) \subseteq {"MultiDdlTransaction", "MixedDdlDmlTransaction"}
    BY DEF Broken, BrokenBy
  <2>7. parts[i].line \in 1..MaxLen
    <3>1. parts[i] \in Part
      BY <2>2
    <3> QED  BY <3>1 DEF Part
  <2>8. diagnostics' \in SUBSET Diagnostic
    BY <2>1, <2>6, <2>7 DEF Report, Diagnostic
  <2> QED  BY <1>7, <2>4, <2>5, <2>8 DEF SplitBlock
<1>8. CASE Rerun
  BY <1>1, <1>8 DEF Rerun
<1>9. CASE UNCHANGED vars
  BY <1>9 DEF vars
<1> QED  BY <1>3, <1>4, <1>5, <1>6, <1>7, <1>8, <1>9 DEF Next, FixStep

------------------------------------------------------------------------------
(* The statements, their order and their transactions.                     *)

LEMMA InTransactionMeans ==
  ASSUME NEW ps \in Seq(Part), NEW k \in 1..Len(ps)
  PROVE  IsInTransaction(ps, k) <=>
           \E b \in 1..(k - 1) : /\ ps[b].kind = "begin"
                                 /\ \A m \in (b + 1)..(k - 1) : ps[m].kind \notin {"commit", "rollback"}
<1>1. Len(ps) \in Nat /\ DOMAIN ps = 1..Len(ps)
  OBVIOUS
<1>2. ASSUME NEW b \in 1..(k - 1)
      PROVE  Between(b, k) \cap Ends(ps) = {} <=>
               \A m \in (b + 1)..(k - 1) : ps[m].kind \notin {"commit", "rollback"}
  <2>1. \A m \in (b + 1)..(k - 1) : m \in DOMAIN ps
    BY <1>1
  <2> QED  BY <2>1 DEF Between, Ends, is_txn_end
<1> QED  BY <1>2 DEF IsInTransaction

LEMMA InTransactionFrom ==
  ASSUME NEW ps \in Seq(Part), NEW k \in 1..Len(ps), NEW b \in 1..(k - 1), ps[b].kind = "begin",
         \A m \in (b + 1)..(k - 1) : ps[m].kind \notin {"commit", "rollback"}
  PROVE  IsInTransaction(ps, k)
BY InTransactionMeans

\* A split leaves the statements, their order and what runs in a transaction.
KeepsStatements(new, old) ==
  /\ new \in Seq(Part)
  /\ {new[k] : k \in StatementsAt(new)} = {old[k] : k \in StatementsAt(old)}
  /\ OrderedLines(new)
  /\ InTransaction(new) = InTransaction(old)
LEMMA SplitKeepsStatements ==
  ASSUME TypeOK, OrderedLines(parts), Begins, NEW c \in ScanEnds(i, {"commit"}), Broken(i, c) # {},
         NEW new, new = Splice(i, c, Replacement(i, c))
  PROVE  KeepsStatements(new, parts)
<1> DEFINE r == Replacement(i, c)
           L == Len(r)
           D == c + 1 - i - L
<1>1. /\ parts \in Seq(Part) /\ Len(parts) \in Nat /\ DOMAIN parts = 1..Len(parts)
      /\ i \in 1..Len(parts) /\ parts[i].kind = "begin" /\ ~IsStatement(parts[i])
  BY DEF TypeOK, Begins, IsStatement
<1>2. /\ c \in (i + 1)..Len(parts) /\ parts[c].kind = "commit" /\ ~IsStatement(parts[c])
      /\ \A k \in (i + 1)..(c - 1) : parts[k].kind \notin {"commit", "rollback", "bad"}
  <2>1. c \in (i + 1)..Len(parts) /\ parts[c].kind \in {"commit"}
    BY <1>1, ScanHolds
  <2>2. \A k \in (i + 1)..(c - 1) : parts[k].kind \notin {"commit", "rollback", "bad"}
    BY <1>1, ScanHolds
  <2> QED  BY <2>1, <2>2 DEF IsStatement
<1>3. /\ r \in Seq(Part) /\ L \in Nat /\ L >= 3 /\ WellSplit(r) /\ OrderedLines(r)
      /\ \A n \in 1..L : IsStatement(r[n]) => \E k \in (i + 1)..(c - 1) : r[n] = parts[k]
      /\ \A k \in (i + 1)..(c - 1) : IsStatement(parts[k]) => \E n \in 1..L : r[n] = parts[k]
  BY ReplacementIs
<1> HIDE DEF r
<1>4. Spliced(new, r, c)
  <2>1. c \in i..Len(parts) /\ i <= Len(parts)
    BY <1>1, <1>2
  <2> QED  BY <1>3, <2>1, SpliceIs DEF r
<1>5. /\ new \in Seq(Part) /\ Len(new) \in Nat /\ DOMAIN new = 1..Len(new) /\ Len(new) = Len(parts) - D
      /\ \A n \in 1..(i - 1) : new[n] = parts[n]
      /\ \A n \in i..(i + L - 1) : new[n] = r[n - i + 1]
      /\ \A n \in (i + L)..Len(new) : new[n] = parts[n + D]
  BY <1>4 DEF Spliced
<1>6. i \in Int /\ c \in Int /\ L \in Int /\ D \in Int /\ i >= 1 /\ c > i /\ c <= Len(parts) /\ D = c + 1 - i - L
  BY <1>1, <1>2, <1>3
<1> HIDE DEF L, D
<1>7. \A n \in 1..Len(new) : n \in 1..(i - 1) \/ n \in i..(i + L - 1) \/ n \in (i + L)..Len(new)
  BY <1>5, <1>6
<1>8. \A n \in 1..(i - 1) : n \in 1..Len(parts) /\ n \in 1..Len(new)
  BY <1>3, <1>5, <1>6
<1>9. \A n \in i..(i + L - 1) : n - i + 1 \in 1..L /\ n \in 1..Len(new)
  <2>1. Len(parts) \in Int /\ Len(new) \in Int /\ Len(new) = Len(parts) - D
    BY <1>1, <1>5
  <2> QED  BY ONLY <1>6, <2>1
<1>10. \A n \in 1..L : n + i - 1 \in i..(i + L - 1) /\ (n + i - 1) - i + 1 = n
  BY <1>6
<1>11. \A n \in (i + L)..Len(new) : n + D \in (c + 1)..Len(parts) /\ n \in 1..Len(new)
  <2>1. /\ Len(parts) \in Int /\ Len(new) \in Int /\ Len(new) = Len(parts) - D
        /\ L \in Nat
    BY <1>1, <1>3, <1>5
  <2> QED  BY ONLY <1>6, <2>1
<1>12. ASSUME NEW m \in (c + 1)..Len(parts)
       PROVE  m - D \in (i + L)..Len(new) /\ (m - D) + D = m
  <2>1. Len(parts) \in Int /\ Len(new) \in Int /\ Len(new) = Len(parts) - D
    BY <1>1, <1>5
  <2>2. m \in (c + 1)..Len(parts)
    OBVIOUS
  <2> QED  BY ONLY <1>6, <2>1, <2>2
<1>13. \A m \in 1..Len(parts) :
         m \in 1..(i - 1) \/ m = i \/ m \in (i + 1)..(c - 1) \/ m = c \/ m \in (c + 1)..Len(parts)
  BY <1>1, <1>6
<1>14. \A m \in (i + 1)..(c - 1) : m \in 1..Len(parts)
  BY <1>1, <1>6
<1>15. \A m \in (c + 1)..Len(parts) : m \in 1..Len(parts)
  BY <1>6
\* Where the statements of new come from.
<1>16. ASSUME NEW n \in i..(i + L - 1), IsStatement(new[n])
       PROVE  \E m \in (i + 1)..(c - 1) : new[n] = parts[m]
  BY <1>3, <1>5, <1>9, <1>16
<1>17. ASSUME NEW m \in (i + 1)..(c - 1), IsStatement(parts[m])
       PROVE  \E n \in i..(i + L - 1) : new[n] = parts[m]
  <2>1. PICK n \in 1..L : r[n] = parts[m]
    BY <1>3, <1>17
  <2>2. new[n + i - 1] = r[n]
    BY <1>5, <1>10
  <2> QED  BY <1>10, <2>1, <2>2
<1>18. ASSUME NEW m \in (c + 1)..Len(parts)
       PROVE  new[m - D] = parts[m]
  BY <1>5, <1>12
<1>19. OrderedLines(new)
  <2> SUFFICES ASSUME NEW j \in 1..Len(new), NEW k \in 1..Len(new),
                      j < k, IsStatement(new[j]), IsStatement(new[k])
               PROVE  new[j].line < new[k].line
    BY DEF OrderedLines
  <2>1. CASE j \in i..(i + L - 1) /\ k \in i..(i + L - 1)
    <3>1. j - i + 1 \in 1..L /\ k - i + 1 \in 1..L /\ new[j] = r[j - i + 1] /\ new[k] = r[k - i + 1]
      BY <1>5, <1>9, <2>1
    <3>2. j - i + 1 < k - i + 1
      BY <1>6
    <3> QED  BY <1>3, <3>1, <3>2 DEF OrderedLines, L
  <2>2. ASSUME NEW m \in 1..Len(parts), NEW n \in 1..Len(parts), m < n, new[j] = parts[m], new[k] = parts[n]
        PROVE  new[j].line < new[k].line
    BY <2>2 DEF OrderedLines
  <2>3. CASE j \in 1..(i - 1)
    <3>1. j \in 1..Len(parts) /\ new[j] = parts[j]
      BY <1>5, <1>8, <2>3
    <3>2. CASE k \in 1..(i - 1)
      BY <1>5, <1>8, <2>2, <3>1, <3>2
    <3>3. CASE k \in i..(i + L - 1)
      <4>1. PICK n \in (i + 1)..(c - 1) : new[k] = parts[n]
        BY <1>16, <3>3
      <4>2. n \in 1..Len(parts) /\ j < n
        BY <1>6, <1>14, <2>3
      <4> QED  BY <2>2, <3>1, <4>1, <4>2
    <3>4. CASE k \in (i + L)..Len(new)
      <4>1. k + D \in 1..Len(parts) /\ new[k] = parts[k + D] /\ j < k + D
        BY <1>5, <1>6, <1>11, <1>15, <2>3, <3>4
      <4> QED  BY <2>2, <3>1, <4>1
    <3> QED  BY <1>7, <3>2, <3>3, <3>4
  <2>4. CASE j \in i..(i + L - 1) /\ k \in (i + L)..Len(new)
    <3>1. PICK m \in (i + 1)..(c - 1) : new[j] = parts[m]
      BY <1>16, <2>4
    <3>2. k + D \in 1..Len(parts) /\ new[k] = parts[k + D] /\ m \in 1..Len(parts)
      BY <1>5, <1>11, <1>14, <1>15, <2>4
    <3>3. m < k + D
      BY <1>6, <1>11, <2>4
    <3> QED  BY <2>2, <3>1, <3>2, <3>3
  <2>5. CASE j \in (i + L)..Len(new) /\ k \in (i + L)..Len(new)
    <3>1. j + D \in 1..Len(parts) /\ k + D \in 1..Len(parts) /\ new[j] = parts[j + D] /\ new[k] = parts[k + D]
      BY <1>5, <1>11, <1>15, <2>5
    <3>2. j + D < k + D
      BY <1>6
    <3> QED  BY <2>2, <3>1, <3>2
  <2>6. \/ j \in 1..(i - 1)
        \/ j \in i..(i + L - 1) /\ k \in i..(i + L - 1)
        \/ j \in i..(i + L - 1) /\ k \in (i + L)..Len(new)
        \/ j \in (i + L)..Len(new) /\ k \in (i + L)..Len(new)
    <3>1. j \in i..(i + L - 1) => ~(k \in 1..(i - 1))
      BY <1>6
    <3>2. j \in (i + L)..Len(new) => ~(k \in 1..(i - 1)) /\ ~(k \in i..(i + L - 1))
      <4>1. Len(new) \in Nat /\ L \in Nat
        BY <1>3, <1>5
      <4>2. j \in 1..Len(new) /\ k \in 1..Len(new) /\ j < k
        OBVIOUS
      <4> QED  BY ONLY <1>6, <4>1, <4>2
    <3> QED  BY <1>7, <3>1, <3>2
  <2> QED  BY <2>1, <2>3, <2>4, <2>5, <2>6
<1>20. {new[k] : k \in StatementsAt(new)} = {parts[k] : k \in StatementsAt(parts)}
  <2>1. ASSUME NEW n \in 1..Len(new), IsStatement(new[n])
        PROVE  \E m \in 1..Len(parts) : new[n] = parts[m]
    BY <1>5, <1>7, <1>8, <1>11, <1>14, <1>15, <1>16, <2>1
  <2>2. ASSUME NEW m \in 1..Len(parts), IsStatement(parts[m])
        PROVE  \E n \in 1..Len(new) : new[n] = parts[m]
    <3>1. CASE m \in 1..(i - 1)
      BY <1>5, <1>8, <3>1
    <3>2. CASE m \in (i + 1)..(c - 1)
      BY <1>9, <1>17, <2>2, <3>2
    <3>3. CASE m \in (c + 1)..Len(parts)
      BY <1>11, <1>12, <1>18, <3>3
    <3> QED  BY <1>1, <1>2, <1>13, <2>2, <3>1, <3>2, <3>3
  <2>3. \A k : /\ k \in StatementsAt(new) <=> k \in 1..Len(new) /\ IsStatement(new[k])
               /\ k \in StatementsAt(parts) <=> k \in 1..Len(parts) /\ IsStatement(parts[k])
    BY <1>1, <1>5 DEF StatementsAt, IsStatement
  <2>4. \A k \in StatementsAt(new) : \E m \in StatementsAt(parts) : new[k] = parts[m]
    BY <2>1, <2>3
  <2>5. \A m \in StatementsAt(parts) : \E k \in StatementsAt(new) : new[k] = parts[m]
    BY <2>2, <2>3
  <2> QED  BY <2>4, <2>5
<1>21. ASSUME NEW n \in 1..Len(new), IsStatement(new[n]), IsInTransaction(new, n)
       PROVE  \E m \in 1..Len(parts) : new[n] = parts[m] /\ IsInTransaction(parts, m)
  <2>1. PICK b \in 1..(n - 1) :
          new[b].kind = "begin" /\ \A m \in (b + 1)..(n - 1) : new[m].kind \notin {"commit", "rollback"}
    BY <1>5, <1>21, InTransactionMeans
  <2>2. CASE n \in 1..(i - 1)
    <3>1. n \in 1..Len(parts) /\ new[n] = parts[n]
      BY <1>5, <1>8, <2>2
    <3>2. b \in 1..(i - 1) /\ \A m \in (b + 1)..(n - 1) : m \in 1..(i - 1)
      BY <1>6, <2>2
    <3>3. parts[b].kind = "begin" /\ \A m \in (b + 1)..(n - 1) : parts[m].kind \notin {"commit", "rollback"}
      BY <1>5, <2>1, <3>2
    <3> QED  BY <1>1, <3>1, <3>3, InTransactionMeans
  <2>3. CASE n \in i..(i + L - 1)
    <3>1. PICK m \in (i + 1)..(c - 1) : new[n] = parts[m]
      BY <1>16, <1>21, <2>3
    <3>2. i \in 1..(m - 1) /\ \A q \in (i + 1)..(m - 1) : q \in (i + 1)..(c - 1)
      BY <1>6
    <3>3. IsInTransaction(parts, m)
      BY <1>1, <1>2, <1>14, <3>2, InTransactionMeans
    <3> QED  BY <1>14, <3>1, <3>3
  <2>4. CASE n \in (i + L)..Len(new)
    <3>1. i + L - 1 \in i..(i + L - 1) /\ (i + L - 1) - i + 1 = L /\ i + L - 1 < n
      BY <1>3, <1>6, <2>4
    <3>2. new[i + L - 1].kind = "commit"
      <4>1. r[L].kind = "commit"
        <5>1. r # <<>>
          BY <1>3 DEF L
        <5> QED  BY <1>3, <5>1 DEF WellSplit, L
      <4> QED  BY <1>5, <3>1, <4>1
    <3>3. b >= i + L
      <4>1. b # i + L - 1
        BY <2>1, <3>2
      <4>2. i + L - 1 \notin (b + 1)..(n - 1)
        BY <2>1, <3>2
      <4> QED  BY <1>6, <3>1, <4>1, <4>2
    <3>4. /\ b \in (i + L)..Len(new) /\ b + D \in 1..(n + D - 1) /\ n + D \in 1..Len(parts)
          /\ new[b] = parts[b + D] /\ new[n] = parts[n + D]
      <4>1. b \in (i + L)..Len(new)
        BY <1>5, <1>6, <3>3
      <4>2. b + D \in (c + 1)..Len(parts) /\ n + D \in 1..Len(parts)
        BY <1>11, <1>15, <2>4, <4>1
      <4>3. b + D \in 1..(n + D - 1)
        BY <1>6, <4>2
      <4> QED  BY <1>5, <2>4, <4>1, <4>2, <4>3
    <3>5. ASSUME NEW q \in ((b + D) + 1)..((n + D) - 1)
          PROVE  parts[q].kind \notin {"commit", "rollback"}
      <4>1. q - D \in (b + 1)..(n - 1) /\ q - D \in (i + L)..Len(new) /\ (q - D) + D = q
        BY <1>5, <1>6, <3>4
      <4>2. new[q - D] = parts[q]
        BY <1>5, <4>1
      <4> QED  BY <2>1, <4>1, <4>2
    <3>6. IsInTransaction(parts, n + D)
      <4>1. n + D \in 1..Len(parts) /\ b + D \in 1..((n + D) - 1) /\ parts[b + D].kind = "begin"
        <5>1. new[b].kind = "begin" /\ new[b] = parts[b + D]
          BY <2>1, <3>4
        <5>2. parts[b + D].kind = "begin"
          BY ONLY <5>1
        <5> QED  BY <1>6, <3>4, <5>2
      <4> QED  BY <1>1, <3>5, <4>1, InTransactionFrom
    <3> QED  BY <3>4, <3>6
  <2> QED  BY <1>7, <2>2, <2>3, <2>4
<1>22. ASSUME NEW m \in 1..Len(parts), IsStatement(parts[m]), IsInTransaction(parts, m)
       PROVE  \E n \in 1..Len(new) : new[n] = parts[m] /\ IsInTransaction(new, n)
  <2>1. PICK b \in 1..(m - 1) :
          parts[b].kind = "begin" /\ \A q \in (b + 1)..(m - 1) : parts[q].kind \notin {"commit", "rollback"}
    BY <1>1, <1>22, InTransactionMeans
  <2>2. CASE m \in 1..(i - 1)
    <3>1. m \in 1..Len(new) /\ new[m] = parts[m]
      BY <1>5, <1>8, <2>2
    <3>2. b \in 1..(i - 1) /\ \A q \in (b + 1)..(m - 1) : q \in 1..(i - 1)
      BY <1>6, <2>2
    <3>3. new[b].kind = "begin" /\ \A q \in (b + 1)..(m - 1) : new[q].kind \notin {"commit", "rollback"}
      BY <1>5, <2>1, <3>2
    <3> QED  BY <1>5, <3>1, <3>3, InTransactionMeans
  <2>3. CASE m \in (i + 1)..(c - 1)
    <3>1. PICK n \in i..(i + L - 1) : new[n] = parts[m]
      BY <1>17, <1>22, <2>3
    <3>2. n - i + 1 \in 1..L /\ n \in 1..Len(new) /\ IsStatement(r[n - i + 1])
      BY <1>5, <1>9, <1>22, <3>1
    <3>3. InABlock(r, n - i + 1)
      BY <1>3, <3>2 DEF WellSplit, L
    <3>4. PICK a \in 1..(n - i) : r[a].kind = "begin" /\ \A q \in (a + 1)..(n - i) : r[q].kind # "commit"
      <4>1. (n - i + 1) - 1 = n - i
        BY <1>6
      <4> QED  BY <3>3, <4>1 DEF InABlock
    <3>5. a \in 1..L /\ a + i - 1 \in 1..(n - 1) /\ new[a + i - 1].kind = "begin"
      <4>1. a \in 1..L /\ a + i - 1 \in 1..(n - 1)
        BY <1>6, <3>2
      <4> QED  BY <1>5, <1>10, <3>4, <4>1
    <3>6. ASSUME NEW q \in ((a + i - 1) + 1)..(n - 1)
          PROVE  new[q].kind \notin {"commit", "rollback"}
      <4>1. q \in i..(i + L - 1) /\ q - i + 1 \in (a + 1)..(n - i) /\ q - i + 1 \in 1..L
        BY <1>6, <3>2, <3>5
      <4>2. new[q] = r[q - i + 1] /\ r[q - i + 1].kind # "commit"
        BY <1>5, <3>4, <4>1
      <4>3. r[q - i + 1].kind # "rollback"
        BY <1>3, <4>1 DEF WellSplit, L
      <4> QED  BY <4>2, <4>3
    <3>7. IsInTransaction(new, n)
      BY <1>5, <3>2, <3>5, <3>6, InTransactionMeans
    <3> QED  BY <3>1, <3>2, <3>7
  <2>4. CASE m \in (c + 1)..Len(parts)
    <3>1. b > c
      <4>1. b # c
        BY <1>2, <2>1
      <4>2. c \notin (b + 1)..(m - 1)
        BY <1>2, <2>1
      <4> QED  BY <1>6, <2>4, <4>1, <4>2
    <3>2. b \in (c + 1)..Len(parts)
      BY <1>1, <1>6, <3>1
    <3>3. /\ b - D \in 1..(m - D - 1) /\ m - D \in 1..Len(new)
          /\ new[b - D] = parts[b] /\ new[m - D] = parts[m]
      <4>1. b - D \in (i + L)..Len(new) /\ m - D \in (i + L)..Len(new)
        BY <1>12, <2>4, <3>2
      <4>2. b - D \in 1..(m - D - 1) /\ m - D \in 1..Len(new)
        BY <1>3, <1>6, <1>11, <4>1
      <4> QED  BY <1>18, <2>4, <3>2, <4>2
    <3>4. ASSUME NEW q \in ((b - D) + 1)..((m - D) - 1)
          PROVE  new[q].kind \notin {"commit", "rollback"}
      <4>1. q + D \in (b + 1)..(m - 1) /\ q + D \in (c + 1)..Len(parts) /\ (q + D) - D = q
        <5>1. q \in Int /\ b \in Int /\ m \in Int /\ D \in Int /\ c \in Int /\ Len(parts) \in Int
          BY <1>6
        <5>2. b - D + 1 <= q /\ q <= m - D - 1 /\ c + 1 <= b /\ m <= Len(parts)
          BY <3>2, <5>1
        <5> QED  BY ONLY <5>1, <5>2
      <4>2. new[q] = parts[q + D]
        BY <1>18, <4>1
      <4> QED  BY <2>1, <4>1, <4>2
    <3>5. IsInTransaction(new, m - D)
      BY <1>5, <2>1, <3>3, <3>4, InTransactionFrom
    <3> QED  BY <3>3, <3>5
  <2> QED  BY <1>1, <1>2, <1>13, <1>22, <2>2, <2>3, <2>4
<1>23. InTransaction(new) = InTransaction(parts)
  <2> DEFINE At(ps) == {k \in StatementsAt(ps) : ps[k].kind # "rollback" /\ IsInTransaction(ps, k)}
  <2>1. \A k : /\ k \in StatementsAt(new) <=> k \in 1..Len(new) /\ IsStatement(new[k])
               /\ k \in StatementsAt(parts) <=> k \in 1..Len(parts) /\ IsStatement(parts[k])
    BY <1>1, <1>5 DEF StatementsAt, IsStatement
  <2>2. ASSUME NEW k \in At(new)
        PROVE  \E m \in At(parts) : new[k] = parts[m]
    <3>1. k \in 1..Len(new) /\ IsStatement(new[k]) /\ new[k].kind # "rollback" /\ IsInTransaction(new, k)
      BY <2>1
    <3>2. PICK m \in 1..Len(parts) : new[k] = parts[m] /\ IsInTransaction(parts, m)
      BY <1>21, <3>1
    <3> QED  BY <2>1, <3>1, <3>2
  <2>3. ASSUME NEW m \in At(parts)
        PROVE  \E k \in At(new) : new[k] = parts[m]
    <3>1. m \in 1..Len(parts) /\ IsStatement(parts[m]) /\ parts[m].kind # "rollback" /\ IsInTransaction(parts, m)
      BY <2>1
    <3>2. PICK k \in 1..Len(new) : new[k] = parts[m] /\ IsInTransaction(new, k)
      BY <1>22, <3>1
    <3> QED  BY <2>1, <3>1, <3>2
  <2>4. InTransaction(new) = {new[k] : k \in At(new)} /\ InTransaction(parts) = {parts[k] : k \in At(parts)}
    BY DEF InTransaction
  <2> HIDE DEF At
  <2> QED  BY <2>2, <2>3, <2>4
<1> QED  BY <1>5, <1>19, <1>20, <1>23 DEF KeepsStatements

LEMMA InitIs ==
  ASSUME Init
  PROVE  TypeOK /\ OrderedLines(parts) /\ parts = input
<1>1. PICK kinds \in BoundedSeq(Kinds, MaxLen) : input = Numbered(kinds)
  BY DEF Init
<1>2. PICK m \in 0..MaxLen : kinds \in [1..m -> Kinds]
  BY <1>1 DEF BoundedSeq, SeqOf
<1>3. m \in Nat /\ m <= MaxLen
  BY <1>2, TxnSplitAssumption
<1>4. input = [n \in 1..m |-> [line |-> n, kind |-> kinds[n]]]
  BY <1>1, <1>2 DEF Numbered
<1>5. ASSUME NEW n \in 1..m
      PROVE  [line |-> n, kind |-> kinds[n]] \in Part
  <2>1. n \in 1..MaxLen /\ kinds[n] \in Kinds
    BY <1>2, <1>3, TxnSplitAssumption
  <2> QED  BY <2>1 DEF Part
<1>6. input \in Seq(Part) /\ Len(input) = m
  BY <1>3, <1>4, <1>5
<1>7. \A n \in 1..m : input[n].line = n
  BY <1>4
<1>8. parts = input /\ i = 1 /\ diagnostics = {} /\ pass = "first"
  BY DEF Init
<1>9. OrderedLines(parts)
  BY <1>3, <1>6, <1>7, <1>8 DEF OrderedLines
<1> QED  BY <1>3, <1>6, <1>8, <1>9 DEF TypeOK

LEMMA OrderIs ==
  ASSUME NEW ps \in Seq(Part)
  PROVE  OrderedLines(ps) <=>
           \A j, k \in StatementsAt(ps) : j < k => ps[j].line < ps[k].line
<1>1. \A k : k \in StatementsAt(ps) <=> k \in 1..Len(ps) /\ IsStatement(ps[k])
  BY DEF StatementsAt, IsStatement
<1> QED  BY <1>1 DEF OrderedLines

LEMMA StatementsStep ==
  ASSUME TypeOK, StatementsKept, [Next]_vars
  PROVE  StatementsKept' /\ OrderedLines(parts)
<1>1. parts \in Seq(Part)
  BY DEF TypeOK
<1>2. OrderedLines(parts)
  BY <1>1, OrderIs DEF StatementsKept
<1>3. ASSUME UNCHANGED <<input, parts>>
      PROVE  StatementsKept'
  BY <1>3 DEF StatementsKept, StatementsAt, InTransaction, IsInTransaction, Between, Ends
<1>4. CASE SplitBlock
  <2>1. PICK c \in ScanEnds(i, {"commit"}) :
          Broken(i, c) # {} /\ parts' = Splice(i, c, Replacement(i, c))
    BY <1>4 DEF SplitBlock
  <2>2. Begins /\ input' = input
    BY <1>4 DEF SplitBlock
  <2>3. /\ parts' \in Seq(Part)
        /\ {parts'[k] : k \in StatementsAt(parts')} = {parts[k] : k \in StatementsAt(parts)}
        /\ OrderedLines(parts')
        /\ InTransaction(parts') = InTransaction(parts)
    <3> DEFINE new == Splice(i, c, Replacement(i, c))
    <3>1. new = Splice(i, c, Replacement(i, c))
      OBVIOUS
    <3> HIDE DEF new
    <3>2. KeepsStatements(new, parts)
      BY <1>2, <2>1, <2>2, <3>1, SplitKeepsStatements
    <3>3. parts' = new
      BY <2>1, <3>1
    <3> QED  BY <3>2, <3>3 DEF KeepsStatements
  <2>4. \A j, k \in StatementsAt(parts') : j < k => parts'[j].line < parts'[k].line
    BY <2>3, OrderIs
  <2> QED  BY <1>2, <2>2, <2>3, <2>4 DEF StatementsKept
<1>5. CASE Rerun
  <2>1. input' = parts /\ parts' = parts
    BY <1>5 DEF Rerun
  <2>2. \A j, k \in StatementsAt(parts) : j < k => parts[j].line < parts[k].line
    BY DEF StatementsKept
  <2> QED  BY <1>2, <2>1, <2>2 DEF StatementsKept
<1>6. CASE SkipPart \/ SkipUnparsable \/ SkipUncommitted \/ KeepBlock \/ UNCHANGED vars
  <2>1. UNCHANGED <<input, parts>>
    BY <1>6 DEF SkipPart, SkipUnparsable, SkipUncommitted, KeepBlock, vars
  <2> QED  BY <1>2, <1>3, <2>1
<1> QED  BY <1>2, <1>4, <1>5, <1>6 DEF Next, FixStep

------------------------------------------------------------------------------
(* The transactions that DSQL accepts.                                     *)

\* The BEGIN at b is committed at c, whether or not a transaction is open at b.
CommittedFrom(ps, b, c) ==
  /\ b \in 1..Len(ps) /\ ps[b].kind = "begin"
  /\ c \in (b + 1)..Len(ps) /\ ps[c].kind = "commit"
  /\ \A k \in (b + 1)..(c - 1) : ps[k].kind \notin {"commit", "rollback", "bad"}
Accepts(ps, b, c) ==
  \A x, y \in (b + 1)..(c - 1) :
    /\ ps[x].kind = "ddl" /\ ps[y].kind = "ddl" => x = y
    /\ ~(ps[x].kind = "ddl" /\ ps[y].kind = "dml")
AcceptedUpTo(ps, m) ==
  \A b, c \in 1..Len(ps) : b < m /\ CommittedFrom(ps, b, c) => Accepts(ps, b, c)

\* The loop leaves no block behind that DSQL refuses; a rerun finds none.
AcceptedInv ==
  /\ AcceptedUpTo(parts, i)
  /\ pass = "rerun" => parts = input /\ AcceptedUpTo(parts, Len(parts) + 1)

LEMMA BrokenIsRefused ==
  ASSUME TypeOK, NEW b \in 1..Len(parts), NEW c \in (b + 1)..Len(parts)
  PROVE  Broken(b, c) = {} <=> Accepts(parts, b, c)
<1>1. Broken(b, c) =
           {r \in {"MultiDdlTransaction"} : \E x, y \in InBlock(b, c, "ddl") : x # y}
             \cup {r \in {"MixedDdlDmlTransaction"} :
                     InBlock(b, c, "ddl") # {} /\ InBlock(b, c, "dml") # {}}
  BY BrokenMeans
<1>2. Broken(b, c) = {} <=> /\ \A x, y \in InBlock(b, c, "ddl") : x = y
                            /\ InBlock(b, c, "ddl") = {} \/ InBlock(b, c, "dml") = {}
  BY <1>1
<1>3. \A k : InBlock(b, c, k) = {j \in (b + 1)..(c - 1) : parts[j].kind = k}
  BY DEF InBlock
<1>4. (\A x, y \in InBlock(b, c, "ddl") : x = y)
        <=> \A x, y \in (b + 1)..(c - 1) : parts[x].kind = "ddl" /\ parts[y].kind = "ddl" => x = y
  BY <1>3
<1>5. (InBlock(b, c, "ddl") = {} \/ InBlock(b, c, "dml") = {})
        <=> \A x, y \in (b + 1)..(c - 1) : ~(parts[x].kind = "ddl" /\ parts[y].kind = "dml")
  <2>1. InBlock(b, c, "ddl") = {} <=> \A x \in (b + 1)..(c - 1) : parts[x].kind # "ddl"
    BY <1>3
  <2>2. InBlock(b, c, "dml") = {} <=> \A y \in (b + 1)..(c - 1) : parts[y].kind # "dml"
    BY <1>3
  <2> QED  BY <2>1, <2>2, Zenon
<1>6. Accepts(parts, b, c) <=>
        /\ \A x, y \in (b + 1)..(c - 1) : parts[x].kind = "ddl" /\ parts[y].kind = "ddl" => x = y
        /\ \A x, y \in (b + 1)..(c - 1) : ~(parts[x].kind = "ddl" /\ parts[y].kind = "dml")
  BY Zenon DEF Accepts
<1> QED  BY <1>2, <1>4, <1>5, <1>6

LEMMA WellSplitIsAccepted ==
  ASSUME NEW r \in Seq(Part), WellSplit(r), NEW b, NEW c, CommittedFrom(r, b, c)
  PROVE  Accepts(r, b, c)
<1>1. Len(r) \in Nat /\ b \in 1..Len(r) /\ c \in (b + 1)..Len(r) /\ r[b].kind = "begin"
  BY DEF CommittedFrom
<1>2. \A k \in (b + 1)..(c - 1) : k \in 1..Len(r) /\ r[k].kind # "commit"
  BY <1>1 DEF CommittedFrom
<1>3. ASSUME NEW x \in (b + 1)..(c - 1), r[x].kind = "ddl"
      PROVE  x = b + 1 /\ x = c - 1
  <2>1. r[x - 1].kind = "begin" /\ r[x + 1].kind = "commit"
    BY <1>2, <1>3 DEF WellSplit
  <2>2. x = c - 1
    <3>1. x + 1 \notin (b + 1)..(c - 1)
      BY <1>2, <2>1
    <3> QED  BY <1>1, <3>1
  <2>3. x = b + 1
    <3>1. SUFFICES ASSUME x # b + 1
                   PROVE  FALSE
      OBVIOUS
    <3>2. x - 1 \in (b + 1)..(c - 1) /\ x - 1 # 1 /\ x - 1 \in 1..Len(r)
      BY <1>1, <3>1
    <3>3. r[x - 1 - 1].kind = "commit"
      BY <2>1, <3>2 DEF WellSplit
    <3>4. x - 1 - 1 # b
      BY <1>1, <3>3
    <3>5. x - 1 - 1 \in (b + 1)..(c - 1)
      BY <1>1, <3>2, <3>4
    <3> QED  BY <1>2, <3>3, <3>5
  <2> QED  BY <2>2, <2>3
<1>4. \A x, y \in (b + 1)..(c - 1) : r[x].kind = "ddl" => x = y
  BY <1>1, <1>3
<1> QED  BY <1>4 DEF Accepts

\* The block at the loop: where it is committed is where its scan ends.
LEMMA ScanFindsEnd ==
  ASSUME TypeOK, Begins, NEW kinds, NEW e \in ScanEnds(i, kinds), NEW c, CommittedFrom(parts, i, c)
  PROVE  e = c
<1>1. Len(parts) \in Nat /\ i \in 1..Len(parts)
  BY DEF TypeOK, Begins
<1>2. e \in (i + 1)..Len(parts)
  BY <1>1, ScanHolds
<1>3. /\ is_txn_end(parts[e]) \/ parts[e].kind = "bad"
      /\ \A k \in (i + 1)..(e - 1) : parts[k].kind \notin {"commit", "rollback", "bad"}
  BY <1>1, ScanHolds
<1>4. /\ c \in (i + 1)..Len(parts) /\ parts[c].kind = "commit"
      /\ \A k \in (i + 1)..(c - 1) : parts[k].kind \notin {"commit", "rollback", "bad"}
  BY DEF CommittedFrom
<1>5. e \notin (i + 1)..(c - 1) /\ c \notin (i + 1)..(e - 1)
  BY <1>3, <1>4 DEF is_txn_end
<1> QED  BY <1>1, <1>2, <1>4, <1>5

LEMMA ScanCommits ==
  ASSUME TypeOK, Begins, NEW c \in ScanEnds(i, {"commit"})
  PROVE  CommittedFrom(parts, i, c)
<1>1. i \in 1..Len(parts) /\ parts[i].kind = "begin"
  BY DEF TypeOK, Begins
<1>2. parts[c].kind \in {"commit"}
  BY <1>1, ScanHolds
<1>3. c \in (i + 1)..Len(parts)
  BY <1>1, ScanHolds
<1>4. \A k \in (i + 1)..(c - 1) : parts[k].kind \notin {"commit", "rollback", "bad"}
  BY <1>1, ScanHolds
<1> QED  BY <1>1, <1>2, <1>3, <1>4 DEF CommittedFrom

LEMMA ScanUncommitted ==
  ASSUME TypeOK, Begins, ScanEnds(i, {"commit", "bad"}) = {}, NEW c, CommittedFrom(parts, i, c)
  PROVE  FALSE
<1>1. i \in 1..Len(parts) /\ c \in Stops(i)
  BY DEF CommittedFrom, Stops, is_txn_end
<1>2. PICK e \in ScanEnds(i, {"commit", "rollback", "bad"}) : TRUE
  BY <1>1, ScanStops
<1>3. e = c /\ parts[e].kind = "commit"
  BY ScanFindsEnd DEF CommittedFrom
<1>4. e \in ScanEnds(i, {"commit", "bad"})
  BY <1>2, <1>3 DEF ScanEnds
<1> QED  BY <1>4

LEMMA AcceptedStep ==
  ASSUME TypeOK, StatementsKept, AcceptedInv, [Next]_vars
  PROVE  AcceptedInv'
<1>1. parts \in Seq(Part) /\ Len(parts) \in Nat /\ i \in 1..(Len(parts) + 1)
  BY DEF TypeOK
<1>2. OrderedLines(parts)
  BY <1>1, OrderIs DEF StatementsKept
\* A step that leaves the parts has to show the BEGINs it goes past.
<1>3. ASSUME UNCHANGED <<input, parts, pass>>,
             \A b, c \in 1..Len(parts) :
               i <= b /\ b < i' /\ CommittedFrom(parts, b, c) => Accepts(parts, b, c)
      PROVE  AcceptedInv'
  <2>1. i' \in 1..(Len(parts) + 1)
    BY <1>1, <1>2, <1>3, TypeStep DEF TypeOK
  <2>2. AcceptedUpTo(parts, i')
    <3> SUFFICES ASSUME NEW b \in 1..Len(parts), NEW c \in 1..Len(parts),
                        b < i', CommittedFrom(parts, b, c)
                 PROVE  Accepts(parts, b, c)
      BY DEF AcceptedUpTo
    <3>1. CASE b < i
      BY <3>1 DEF AcceptedInv, AcceptedUpTo
    <3>2. CASE i <= b
      BY <1>3, <3>2
    <3> QED  BY <1>1, <3>1, <3>2
  <2> QED  BY <1>3, <2>2 DEF AcceptedInv
<1>5. CASE SkipPart
  <2>1. \A b \in 1..Len(parts) : i <= b /\ b < i' => b = i
    BY <1>1, <1>5 DEF SkipPart
  <2> QED  BY <1>3, <1>5, <2>1 DEF SkipPart, CommittedFrom
<1>6. CASE SkipUnparsable
  <2>1. PICK e \in ScanEnds(i, {"bad"}) : TRUE
    BY <1>6 DEF SkipUnparsable
  <2>2. \A b \in 1..Len(parts) : i <= b /\ b < i' => b = i
    BY <1>1, <1>6 DEF SkipUnparsable
  <2>3. ASSUME NEW c, CommittedFrom(parts, i, c)
        PROVE  FALSE
    <3>1. e = c /\ parts[e].kind = "bad"
      BY <1>6, <2>1, <2>3, ScanFindsEnd DEF SkipUnparsable, ScanEnds
    <3> QED  BY <2>3, <3>1 DEF CommittedFrom
  <2> QED  BY <1>3, <1>6, <2>2, <2>3 DEF SkipUnparsable
<1>7. CASE SkipUncommitted
  <2>1. \A b \in 1..Len(parts) : i <= b /\ b < i' => b = i
    BY <1>1, <1>7 DEF SkipUncommitted
  <2>2. ASSUME NEW c, CommittedFrom(parts, i, c)
        PROVE  FALSE
    BY <1>7, <2>2, ScanUncommitted DEF SkipUncommitted
  <2> QED  BY <1>3, <1>7, <2>1, <2>2 DEF SkipUncommitted
<1>8. CASE KeepBlock
  <2>1. PICK c \in ScanEnds(i, {"commit"}) : Broken(i, c) = {} /\ i' = c + 1
    BY <1>8 DEF KeepBlock
  <2>2. i \in 1..Len(parts)
    BY <1>1, <1>8 DEF KeepBlock, Begins
  <2>3. /\ c \in (i + 1)..Len(parts) /\ parts[c].kind = "commit"
        /\ \A k \in (i + 1)..(c - 1) : parts[k].kind \notin {"commit", "rollback", "bad"}
    BY <1>8, <2>1, ScanCommits DEF CommittedFrom, KeepBlock
  <2>4. Accepts(parts, i, c)
    BY <2>1, <2>2, <2>3, BrokenIsRefused
  <2>5. ASSUME NEW b \in 1..Len(parts), NEW d \in 1..Len(parts), i <= b, b < i', CommittedFrom(parts, b, d)
        PROVE  Accepts(parts, b, d)
    <3>1. /\ parts[b].kind = "begin" /\ parts[d].kind = "commit" /\ d \in (b + 1)..Len(parts)
          /\ \A k \in (b + 1)..(d - 1) : parts[k].kind # "commit"
      BY <2>5 DEF CommittedFrom
    <3>2. b # c /\ c \notin (b + 1)..(d - 1) /\ d \notin (i + 1)..(c - 1)
      BY <2>3, <3>1
    <3>3. d = c
      BY <1>1, <2>1, <2>2, <2>3, <2>5, <3>1, <3>2
    <3>4. \A k \in (b + 1)..(d - 1) : k \in (i + 1)..(c - 1)
      BY <2>2, <2>3, <2>5, <3>3
    <3> QED  BY <2>4, <3>4 DEF Accepts
  <2>6. UNCHANGED <<input, parts, pass>>
    BY <1>8 DEF KeepBlock
  <2> QED  BY <1>3, <2>5, <2>6
<1>9. CASE SplitBlock
  <2>1. PICK c \in ScanEnds(i, {"commit"}) :
          /\ Broken(i, c) # {}
          /\ parts' = Splice(i, c, Replacement(i, c))
          /\ i' = i + Len(Replacement(i, c))
    BY <1>9 DEF SplitBlock
  <2>2. Begins /\ i \in 1..Len(parts) /\ parts[i].kind = "begin" /\ input' = input /\ pass' = pass
    BY <1>1, <1>9 DEF SplitBlock, Begins
  <2>3. CommittedFrom(parts, i, c)
    BY <2>1, <2>2, ScanCommits
  <2>4. c \in (i + 1)..Len(parts) /\ c \in 1..Len(parts) /\ ~Accepts(parts, i, c)
    <3>1. c \in (i + 1)..Len(parts)
      BY <2>3 DEF CommittedFrom
    <3> QED  BY <1>1, <2>1, <2>2, <3>1, BrokenIsRefused
  <2>5. pass # "rerun"
    BY <1>1, <2>2, <2>3, <2>4 DEF AcceptedInv, AcceptedUpTo
  \* No BEGIN before the block is open at it: it would have been split first.
  <2>6. ASSUME NEW b \in 1..(i - 1), parts[b].kind = "begin",
               \A k \in (b + 1)..(i - 1) : parts[k].kind \notin {"commit", "rollback", "bad"}
        PROVE  FALSE
    <3>1. \A k \in (i + 1)..(c - 1) : parts[k].kind \notin {"commit", "rollback", "bad"}
      BY <2>3 DEF CommittedFrom
    <3>2. \A k \in (b + 1)..(c - 1) : k \in (b + 1)..(i - 1) \/ k = i \/ k \in (i + 1)..(c - 1)
      BY <1>1
    <3>3. \A k \in (b + 1)..(c - 1) : parts[k].kind \notin {"commit", "rollback", "bad"}
      BY <2>2, <2>6, <3>1, <3>2
    <3>4. b \in 1..Len(parts) /\ c \in (b + 1)..Len(parts) /\ b < i
      BY <1>1, <2>2, <2>4
    <3>5. CommittedFrom(parts, b, c)
      BY <2>3, <2>6, <3>3, <3>4 DEF CommittedFrom
    <3>6. Accepts(parts, b, c)
      BY <2>4, <3>4, <3>5 DEF AcceptedInv, AcceptedUpTo
    <3>7. \A k \in (i + 1)..(c - 1) : k \in (b + 1)..(c - 1)
      BY <1>1
    <3> QED  BY <2>4, <3>6, <3>7 DEF Accepts
  <2> DEFINE r == Replacement(i, c)
             L == Len(r)
  <2>7. r \in Seq(Part) /\ L \in Nat /\ L >= 3 /\ WellSplit(r)
    BY <1>2, <2>1, <2>2, ReplacementIs
  <2>8. i' = i + L
    BY <2>1
  <2> HIDE DEF r
  <2>9. Spliced(parts', r, c)
    <3>1. c \in i..Len(parts) /\ i <= Len(parts)
      BY <1>1, <2>2, <2>4
    <3>2. Spliced(Splice(i, c, r), r, c)
      BY <2>7, <3>1, SpliceIs
    <3> QED  BY <2>1, <3>2 DEF r
  <2>10. r[L].kind = "commit"
    <3>1. r # <<>>
      BY <2>7
    <3> QED  BY <2>7, <3>1 DEF WellSplit
  <2> HIDE DEF L
  <2>11. /\ \A n \in 1..(i - 1) : parts'[n] = parts[n]
         /\ \A n \in i..(i + L - 1) : parts'[n] = r[n - i + 1]
    BY <2>9 DEF Spliced, L
  <2>12. parts'[i + L - 1].kind = "commit"
    <3>1. i + L - 1 \in i..(i + L - 1) /\ (i + L - 1) - i + 1 = L
      BY <1>1, <2>7
    <3> QED  BY <2>10, <2>11, <3>1
  <2>13. ASSUME NEW b \in 1..Len(parts'), NEW d \in 1..Len(parts'), b < i', CommittedFrom(parts', b, d)
         PROVE  Accepts(parts', b, d)
    <3>1. /\ parts'[b].kind = "begin" /\ parts'[d].kind = "commit" /\ b \in Nat /\ d \in Nat /\ b < d /\ b >= 1
          /\ \A k \in (b + 1)..(d - 1) : parts'[k].kind \notin {"commit", "rollback", "bad"}
      <4>1. Len(parts') \in Nat
        BY <2>9 DEF Spliced
      <4> QED  BY <2>13, <4>1 DEF CommittedFrom
    <3>2. CASE b < i
      <4>1. b \in 1..(i - 1) /\ parts[b].kind = "begin"
        BY <1>1, <2>11, <3>1, <3>2
      <4>2. d < i
        <5>1. SUFFICES ASSUME d >= i
                       PROVE  FALSE
          BY <1>1, <3>1
        <5>2. \A k \in (b + 1)..(i - 1) : k \in (b + 1)..(d - 1) /\ k \in 1..(i - 1)
          BY <1>1, <3>1, <5>1
        <5>3. \A k \in (b + 1)..(i - 1) : parts[k].kind \notin {"commit", "rollback", "bad"}
          BY <2>11, <3>1, <5>2
        <5> QED  BY <2>6, <4>1, <5>3
      <4>3. \A k \in (b + 1)..d : k \in 1..(i - 1) /\ parts'[k] = parts[k]
        BY <1>1, <2>11, <3>1, <4>2
      <4>4. \A k \in (b + 1)..(d - 1) : k \in (b + 1)..d
        BY <3>1
      <4>5. d \in (b + 1)..d /\ d \in (b + 1)..Len(parts) /\ b \in 1..Len(parts) /\ d \in 1..Len(parts)
        BY <1>1, <3>1, <4>2
      <4>6. CommittedFrom(parts, b, d)
        BY <3>1, <4>1, <4>3, <4>4, <4>5 DEF CommittedFrom
      <4>7. Accepts(parts, b, d)
        BY <3>2, <4>5, <4>6 DEF AcceptedInv, AcceptedUpTo
      <4> QED  BY <4>3, <4>4, <4>7 DEF Accepts
    <3>3. CASE b >= i
      <4>1. b \in i..(i + L - 1)
        BY <1>1, <2>7, <2>8, <2>13, <3>1, <3>3
      <4>2. b # i + L - 1 /\ i + L - 1 \notin (b + 1)..(d - 1)
        BY <2>12, <3>1
      <4>3. d \in i..(i + L - 1)
        BY <1>1, <2>7, <3>1, <4>1, <4>2
      <4> DEFINE B == b - i + 1
                 E == d - i + 1
      <4>4. B \in Int /\ E \in Int /\ B = b - i + 1 /\ E = d - i + 1 /\ B \in 1..L /\ E \in (B + 1)..L
        <5>1. i \in Int /\ b \in Int /\ d \in Int /\ L \in Int
          BY <1>1, <2>7, <3>1
        <5>2. i <= b /\ b <= i + L - 1 /\ d <= i + L - 1 /\ b < d
          BY <3>1, <4>1, <4>3, <5>1
        <5> QED  BY ONLY <5>1, <5>2
      <4>5. r[B].kind = "begin" /\ r[E].kind = "commit"
        BY <2>11, <3>1, <4>1, <4>3
      <4> HIDE DEF B, E
      <4>6. ASSUME NEW k \in (b + 1)..(d - 1)
            PROVE  k - i + 1 \in (B + 1)..(E - 1) /\ parts'[k] = r[k - i + 1]
        <5>1. k - i + 1 \in (B + 1)..(E - 1) /\ k \in i..(i + L - 1)
          BY <1>1, <2>7, <3>1, <4>1, <4>3, <4>4
        <5> QED  BY <2>11, <5>1
      <4>7. ASSUME NEW k \in (B + 1)..(E - 1)
            PROVE  r[k].kind \notin {"commit", "rollback", "bad"}
        <5>1. k + i - 1 \in (b + 1)..(d - 1) /\ (k + i - 1) - i + 1 = k
          BY <1>1, <3>1, <4>4
        <5>2. parts'[k + i - 1] = r[(k + i - 1) - i + 1]
          BY <4>6, <5>1
        <5> QED  BY <3>1, <5>1, <5>2
      <4>8. Accepts(r, B, E)
        <5>1. CommittedFrom(r, B, E)
          BY <4>4, <4>5, <4>7 DEF CommittedFrom, L
        <5> QED  BY <2>7, <5>1, WellSplitIsAccepted
      <4>9. ASSUME NEW x \in (b + 1)..(d - 1), NEW y \in (b + 1)..(d - 1), parts'[x].kind = "ddl"
            PROVE  (parts'[y].kind = "ddl" => x = y) /\ parts'[y].kind # "dml"
        <5> DEFINE u == x - i + 1
                   v == y - i + 1
        <5>1. u \in (B + 1)..(E - 1) /\ v \in (B + 1)..(E - 1) /\ parts'[x] = r[u] /\ parts'[y] = r[v]
          BY <4>6
        <5>2. u = v => x = y
          BY <1>1, <3>1
        <5> HIDE DEF u, v
        <5>3. (r[v].kind = "ddl" => u = v) /\ r[v].kind # "dml"
          BY <4>8, <4>9, <5>1 DEF Accepts
        <5> QED  BY <5>1, <5>2, <5>3
      <4> QED  BY <4>9 DEF Accepts
    <3> QED  BY <1>1, <3>1, <3>2, <3>3
  <2>14. AcceptedUpTo(parts', i')
    BY <2>13 DEF AcceptedUpTo
  <2> QED  BY <2>2, <2>5, <2>14 DEF AcceptedInv
<1>10. CASE Rerun
  <2>1. i > Len(parts) /\ parts' = parts /\ input' = parts /\ i' = 1 /\ pass' = "rerun"
    BY <1>10 DEF Rerun, Finished
  <2>2. AcceptedUpTo(parts, Len(parts) + 1)
    <3>1. i = Len(parts) + 1
      BY <1>1, <2>1
    <3> QED  BY <3>1 DEF AcceptedInv
  <2>3. AcceptedUpTo(parts, 1)
    BY <1>1 DEF AcceptedUpTo
  <2> QED  BY <2>1, <2>2, <2>3 DEF AcceptedInv
<1>11. CASE UNCHANGED vars
  BY <1>11 DEF vars, AcceptedInv
<1> QED  BY <1>5, <1>6, <1>7, <1>8, <1>9, <1>10, <1>11 DEF Next, FixStep

------------------------------------------------------------------------------
(* What lint reports.                                                      *)

LintTxn == [in_txn : BOOLEAN, line : Nat, ddl : Nat, dml : Nat]
LintReport == [rule : {"ParseError", "MultiDdlTransaction", "MixedDdlDmlTransaction"}, line : Nat]
LintState == [txn : LintTxn, reports : SUBSET LintReport]

LEMMA CheckStatementType ==
  ASSUME NEW s \in LintState, NEW p \in Part
  PROVE  CheckStatement(s, p) \in LintState
<1>1. p.line \in Nat /\ s.txn \in LintTxn /\ s.reports \in SUBSET LintReport
  BY TxnSplitAssumption DEF Part, LintState
<1>2. Outside \in LintTxn
  BY DEF Outside, LintTxn
<1>3. [Outside EXCEPT !.in_txn = TRUE, !.line = p.line] \in LintTxn
  BY <1>1 DEF Outside, LintTxn
<1>4. \A r \in BrokenBy(s.txn.ddl, s.txn.dml) : Report(r, s.txn.line) \in LintReport
  BY <1>1 DEF BrokenBy, Report, LintReport, LintTxn
<1>5. Report("ParseError", p.line) \in LintReport
  BY <1>1 DEF Report, LintReport
<1>6. CASE p.kind = "bad"
  <2>1. CheckStatement(s, p) =
          [s EXCEPT !.reports = @ \cup {x \in {Report("ParseError", p.line)} : s.txn.in_txn}]
    BY <1>6 DEF CheckStatement, is_txn_end
  <2>2. s.reports \cup {x \in {Report("ParseError", p.line)} : s.txn.in_txn} \in SUBSET LintReport
    BY <1>1, <1>5
  <2> QED  BY <1>1, <2>1, <2>2 DEF LintState
<1>7. CASE p.kind = "begin" /\ ~s.txn.in_txn
  BY <1>1, <1>3, <1>7 DEF CheckStatement, LintState, is_txn_end
<1>8. CASE is_txn_end(p)
  BY <1>1, <1>2, <1>4, <1>8 DEF CheckStatement, LintState, is_txn_end
<1>9. CASE p.kind = "ddl"
  BY <1>1, <1>9 DEF CheckStatement, LintState, LintTxn, is_txn_end
<1>10. CASE p.kind = "dml"
  BY <1>1, <1>10 DEF CheckStatement, LintState, LintTxn, is_txn_end
<1>11. CASE p.kind = "other" \/ (p.kind = "begin" /\ s.txn.in_txn)
  BY <1>11 DEF CheckStatement, is_txn_end
<1>12. p.kind \in Kinds
  BY DEF Part
<1> QED  BY <1>6, <1>7, <1>8, <1>9, <1>10, <1>11, <1>12 DEF Kinds, is_txn_end

\* The state of lint after the first k statements, for every k.
Before == [txn |-> Outside, reports |-> {}]
LEMMA LintByPrefix ==
  ASSUME NEW ps \in Seq(Part)
  PROVE  \E f \in [0..Len(ps) -> LintState] :
           /\ f[0] = Before
           /\ \A k \in 1..Len(ps) : f[k] = CheckStatement(f[k - 1], ps[k])
           /\ check_ddl_transactions(ps) = f[Len(ps)].reports
<1> DEFINE n == Len(ps)
           A == LintState
           base == Before
           step == [k \in 1..n |-> [x \in A |-> CheckStatement(x, ps[k])]]
           Equation(g) == g = [s \in SUBSET DOMAIN ps |->
                                 IF s = {} THEN base ELSE CheckStatement(g[s \ {Max(s)}], ps[Max(s)])]
           iter == CHOOSE g : Equation(g)
<1>1. n \in Nat /\ DOMAIN ps = 1..n /\ \A k \in 1..n : ps[k] \in Part
  OBVIOUS
<1>2. step \in [1..n -> [A -> A]] /\ base \in A
  <2>1. base \in A
    BY DEF Before, Outside, LintState, LintTxn
  <2> QED  BY <1>1, <2>1, CheckStatementType
<1>3. \E g : Equation(g)
  <2>1. PICK g \in [SUBSET (1..n) -> A] : Solves(g, n, base, step)
    <3>1. n \in Nat /\ base \in A /\ step \in [1..n -> [A -> A]]
      BY <1>1, <1>2
    <3> HIDE DEF step, base, n, A
    <3> QED  BY <3>1, RecursionExists
  <2>2. ASSUME NEW s \in SUBSET (1..n), s # {}
        PROVE  step[Max(s)][g[s \ {Max(s)}]] = CheckStatement(g[s \ {Max(s)}], ps[Max(s)])
    <3>1. Max(s) \in 1..n
      BY <1>1, <2>2, MaxOf
    <3>2. g[s \ {Max(s)}] \in A
      BY <2>1
    <3> QED  BY <3>1, <3>2
  <2>3. Equation(g)
    <3> HIDE DEF step, base, A
    <3> QED  BY <1>1, <2>1, <2>2 DEF Solves
  <2> QED  BY <2>3
<1>4. Equation(iter)
  BY <1>3
<1>5. check_ddl_transactions(ps) = iter[1..n].reports
  BY <1>1 DEF check_ddl_transactions, FoldLeft, MapThenFoldSet, Before
<1>6. iter[{}] = base
  BY <1>4
<1>7. Follows(iter, n, A, step)
  <2> SUFFICES ASSUME NEW s \in SUBSET (1..n), s # {}, iter[s \ {Max(s)}] \in A
               PROVE  iter[s] = step[Max(s)][iter[s \ {Max(s)}]]
    BY DEF Follows
  <2>1. Max(s) \in 1..n
    BY <1>1, MaxOf
  <2>2. iter[s] = CheckStatement(iter[s \ {Max(s)}], ps[Max(s)])
    BY <1>1, <1>4
  <2> HIDE DEF iter, A, n
  <2> QED  BY <2>1, <2>2
<1>8. PICK f \in [0..n -> A] : Course(f, n, base, step) /\ f[n] = iter[1..n]
  <2>1. n \in Nat /\ base \in A /\ step \in [1..n -> [A -> A]] /\ iter[{}] = base
    BY <1>1, <1>2, <1>6
  <2> HIDE DEF iter, step, base, n, A
  <2> QED  BY <1>7, <2>1, RecursionByPrefix
<1>9. ASSUME NEW k \in 1..n
      PROVE  f[k] = CheckStatement(f[k - 1], ps[k])
  <2>1. f[k - 1] \in A
    BY <1>1, <1>8
  <2> QED  BY <1>8, <2>1 DEF Course
<1> QED  BY <1>5, <1>8, <1>9 DEF Course

\* No transaction is open where the BEGIN at b opens one.
NoneOpenAt(ps, k) ==
  \A a \in 1..(k - 1) :
    ps[a].kind = "begin" => \E m \in (a + 1)..(k - 1) : ps[m].kind \in {"commit", "rollback"}
OpenFrom(ps, b, k) ==
  /\ b \in 1..(k - 1) /\ ps[b].kind = "begin" /\ NoneOpenAt(ps, b)
  /\ \A m \in (b + 1)..(k - 1) : ps[m].kind \notin {"commit", "rollback"}

\* What is reported of a transaction from b to c.
Refused(ps, b, c) ==
  {r \in {"MultiDdlTransaction"} :
     \E x, y \in (b + 1)..(c - 1) : ps[x].kind = "ddl" /\ ps[y].kind = "ddl" /\ x # y}
    \cup {r \in {"MixedDdlDmlTransaction"} :
            \E x, y \in (b + 1)..(c - 1) : ps[x].kind = "ddl" /\ ps[y].kind = "dml"}
ReportOf(ps, b, c, d) ==
  /\ OpenFrom(ps, b, c) /\ ps[c].kind = "commit"
  /\ \E q \in Refused(ps, b, c) : d = Report(q, ps[b].line)

\* The statements of a kind that lint has counted.
Counted(ps, b, k, kind) == {j \in (b + 1)..(k - 1) : ps[j].kind = kind}

LEMMA RefusedIsBroken ==
  ASSUME NEW ps \in Seq(Part), NEW b \in Nat, NEW c \in Nat
  PROVE  Refused(ps, b, c) =
           BrokenBy(Cardinality(Counted(ps, b, c, "ddl")), Cardinality(Counted(ps, b, c, "dml")))
<1>1. IsFiniteSet((b + 1)..(c - 1))
  <2>1. b + 1 \in Int /\ c - 1 \in Int
    OBVIOUS
  <2> QED  BY <2>1, FS_Interval
<1>2. \A k : Counted(ps, b, c, k) \in SUBSET ((b + 1)..(c - 1))
  BY DEF Counted
<1>3. IsFiniteSet(Counted(ps, b, c, "ddl")) /\ IsFiniteSet(Counted(ps, b, c, "dml"))
  BY <1>1, <1>2, FS_Subset
<1>4. BrokenBy(Cardinality(Counted(ps, b, c, "ddl")), Cardinality(Counted(ps, b, c, "dml"))) =
           {r \in {"MultiDdlTransaction"} : \E x, y \in Counted(ps, b, c, "ddl") : x # y}
             \cup {r \in {"MixedDdlDmlTransaction"} :
                     Counted(ps, b, c, "ddl") # {} /\ Counted(ps, b, c, "dml") # {}}
  BY <1>3, BrokenByMeans
<1>5. (\E x, y \in Counted(ps, b, c, "ddl") : x # y)
        <=> \E x, y \in (b + 1)..(c - 1) : ps[x].kind = "ddl" /\ ps[y].kind = "ddl" /\ x # y
  BY DEF Counted
<1>6. (Counted(ps, b, c, "ddl") # {} /\ Counted(ps, b, c, "dml") # {})
        <=> \E x, y \in (b + 1)..(c - 1) : ps[x].kind = "ddl" /\ ps[y].kind = "dml"
  BY DEF Counted
<1> QED  BY <1>4, <1>5, <1>6 DEF Refused

\* One more statement is counted.
LEMMA CountedNext ==
  ASSUME NEW ps \in Seq(Part), NEW b \in Nat, NEW k \in Nat, b < k, NEW kind
  PROVE  Cardinality(Counted(ps, b, k + 1, kind)) =
           IF ps[k].kind = kind THEN Cardinality(Counted(ps, b, k, kind)) + 1
                                ELSE Cardinality(Counted(ps, b, k, kind))
<1>1. \A j : j \in (b + 1)..(k + 1 - 1) <=> j \in (b + 1)..(k - 1) \/ j = k
  OBVIOUS
<1>2. k \notin Counted(ps, b, k, kind)
  BY DEF Counted
<1>3. CASE ps[k].kind = kind
  <2>1. IsFiniteSet((b + 1)..(k - 1)) /\ Counted(ps, b, k, kind) \in SUBSET ((b + 1)..(k - 1))
    <3>1. b + 1 \in Int /\ k - 1 \in Int
      OBVIOUS
    <3> QED  BY <3>1, FS_Interval DEF Counted
  <2>2. IsFiniteSet(Counted(ps, b, k, kind))
    BY <2>1, FS_Subset
  <2>3. Counted(ps, b, k + 1, kind) = Counted(ps, b, k, kind) \cup {k}
    BY <1>1, <1>3 DEF Counted
  <2> QED  BY <1>2, <1>3, <2>2, <2>3, FS_AddElement
<1>4. CASE ps[k].kind # kind
  <2>1. Counted(ps, b, k + 1, kind) = Counted(ps, b, k, kind)
    BY <1>1, <1>4 DEF Counted
  <2> QED  BY <1>4, <2>1
<1> QED  BY <1>3, <1>4

\* The state of lint before statement k.
LintInv(ps, s, k) ==
  /\ s.txn.in_txn => \E b \in 1..(k - 1) :
                       /\ OpenFrom(ps, b, k)
                       /\ s.txn.line = ps[b].line
                       /\ s.txn.ddl = Cardinality(Counted(ps, b, k, "ddl"))
                       /\ s.txn.dml = Cardinality(Counted(ps, b, k, "dml"))
  /\ ~s.txn.in_txn => NoneOpenAt(ps, k)
  /\ \A d : d \in s.reports <=> \E b, c \in 1..(k - 1) : ReportOf(ps, b, c, d)

LEMMA LintStep ==
  ASSUME NEW ps \in Seq(Part), NEW k \in 1..Len(ps), NEW p, p = ps[k], p.kind # "bad",
         NEW s \in LintState, LintInv(ps, s, k), NEW t, t = CheckStatement(s, p)
  PROVE  LintInv(ps, t, k + 1)
<1>1. k \in Nat /\ p \in Part /\ p.kind \in Kinds /\ \A m : m \in 1..(k + 1 - 1) <=> m \in 1..(k - 1) \/ m = k
  <2>1. k \in Nat /\ p \in Part
    OBVIOUS
  <2>2. \A m : m \in 1..(k + 1 - 1) <=> m \in 1..(k - 1) \/ m = k
    BY <2>1
  <2> QED  BY <2>1, <2>2 DEF Part
<1>2. \A a \in 1..(k - 1) : \A m : m \in (a + 1)..(k + 1 - 1) <=> m \in (a + 1)..(k - 1) \/ m = k
  BY <1>1
\* The transaction that is open at k.
<1>3. ASSUME p.kind \notin {"commit", "rollback"}, NEW b, OpenFrom(ps, b, k)
      PROVE  OpenFrom(ps, b, k + 1)
  BY <1>1, <1>2, <1>3 DEF OpenFrom
<1>4. ASSUME p.kind # "begin", NoneOpenAt(ps, k)
      PROVE  NoneOpenAt(ps, k + 1)
  BY <1>1, <1>2, <1>4 DEF NoneOpenAt
<1>5. ASSUME NEW b, NEW e, OpenFrom(ps, b, k), OpenFrom(ps, e, k)
      PROVE  b = e
  <2>1. /\ b \in 1..(k - 1) /\ e \in 1..(k - 1) /\ ps[b].kind = "begin" /\ ps[e].kind = "begin"
        /\ NoneOpenAt(ps, b) /\ NoneOpenAt(ps, e)
        /\ \A m \in (b + 1)..(k - 1) : ps[m].kind \notin {"commit", "rollback"}
        /\ \A m \in (e + 1)..(k - 1) : ps[m].kind \notin {"commit", "rollback"}
    BY <1>5 DEF OpenFrom
  <2>2. ASSUME b < e
        PROVE  FALSE
    <3>1. b \in 1..(e - 1) /\ \A m \in (b + 1)..(e - 1) : m \in (b + 1)..(k - 1)
      BY <1>1, <2>1, <2>2
    <3> QED  BY <2>1, <3>1 DEF NoneOpenAt
  <2>3. ASSUME e < b
        PROVE  FALSE
    <3>1. e \in 1..(b - 1) /\ \A m \in (e + 1)..(b - 1) : m \in (e + 1)..(k - 1)
      BY <1>1, <2>1, <2>3
    <3> QED  BY <2>1, <3>1 DEF NoneOpenAt
  <2> QED  BY <1>1, <2>1, <2>2, <2>3
\* Nothing is reported before the end of a transaction.
<1>6. ASSUME p.kind # "commit", t.reports = s.reports
      PROVE  \A d : d \in t.reports <=> \E b, c \in 1..(k + 1 - 1) : ReportOf(ps, b, c, d)
  <2>1. \A b, c, d : ReportOf(ps, b, c, d) /\ c \in 1..(k + 1 - 1) => c \in 1..(k - 1) /\ b \in 1..(k - 1)
    BY <1>1, <1>6 DEF ReportOf, OpenFrom
  <2> QED  BY <1>1, <1>6, <2>1 DEF LintInv
<1>7. CASE p.kind = "begin" /\ ~s.txn.in_txn
  <2>1. t = [s EXCEPT !.txn = [Outside EXCEPT !.in_txn = TRUE, !.line = p.line]]
    BY <1>7 DEF CheckStatement, is_txn_end
  <2>2. t.txn.in_txn /\ t.txn.line = p.line /\ t.txn.ddl = 0 /\ t.txn.dml = 0 /\ t.reports = s.reports
    <3>1. t.txn = [Outside EXCEPT !.in_txn = TRUE, !.line = p.line] /\ t.reports = s.reports
      BY <2>1 DEF LintState
    <3> QED  BY <3>1 DEF Outside
  <2>3. OpenFrom(ps, k, k + 1)
    <3>1. k \in 1..(k + 1 - 1) /\ (k + 1)..(k + 1 - 1) = {}
      BY <1>1
    <3> QED  BY <1>7, <3>1 DEF OpenFrom, LintInv
  <2>4. \A kind : Counted(ps, k, k + 1, kind) = {}
    BY <1>1 DEF Counted
  <2>5. \A kind : Cardinality(Counted(ps, k, k + 1, kind)) = 0
    BY <2>4, FS_EmptySet
  <2>6. k \in 1..(k + 1 - 1)
    BY <1>1
  <2> QED  BY <1>6, <1>7, <2>2, <2>3, <2>5, <2>6 DEF LintInv
<1>8. CASE is_txn_end(p)
  <2>1. t = [txn |-> Outside,
             reports |-> s.reports \cup
               {Report(r, s.txn.line) : r \in {x \in BrokenBy(s.txn.ddl, s.txn.dml) :
                                                 s.txn.in_txn /\ p.kind = "commit"}}]
    BY <1>8 DEF CheckStatement, is_txn_end
  <2>2. ~t.txn.in_txn
    BY <2>1 DEF Outside
  <2>3. NoneOpenAt(ps, k + 1)
    <3>1. p.kind \in {"commit", "rollback"}
      BY <1>8 DEF is_txn_end
    <3>2. \A a \in 1..(k + 1 - 1) : ps[a].kind = "begin" => a \in 1..(k - 1) /\ k \in (a + 1)..(k + 1 - 1)
      BY <1>1, <3>1
    <3> QED  BY <3>1, <3>2 DEF NoneOpenAt
  <2>4. CASE s.txn.in_txn /\ p.kind = "commit"
    <3>1. PICK b \in 1..(k - 1) : /\ OpenFrom(ps, b, k)
                                  /\ s.txn.line = ps[b].line
                                  /\ s.txn.ddl = Cardinality(Counted(ps, b, k, "ddl"))
                                  /\ s.txn.dml = Cardinality(Counted(ps, b, k, "dml"))
      BY <2>4 DEF LintInv
    <3>2. Refused(ps, b, k) = BrokenBy(s.txn.ddl, s.txn.dml)
      <4>1. b \in Nat
        BY <1>1
      <4> QED  BY <1>1, <3>1, <4>1, RefusedIsBroken
    <3>3. \A d : d \in t.reports <=> d \in s.reports \/ \E q \in Refused(ps, b, k) : d = Report(q, ps[b].line)
      <4>1. t.reports = s.reports \cup {Report(r, s.txn.line) : r \in BrokenBy(s.txn.ddl, s.txn.dml)}
        BY <2>1, <2>4
      <4> QED  BY <3>1, <3>2, <4>1
    <3>4. \A d : ReportOf(ps, b, k, d) <=> \E q \in Refused(ps, b, k) : d = Report(q, ps[b].line)
      BY <2>4, <3>1 DEF ReportOf
    <3>5. \A e, d : ReportOf(ps, e, k, d) => e = b
      BY <1>5, <3>1 DEF ReportOf
    <3>6. ASSUME NEW d
          PROVE  d \in t.reports <=> \E e, c \in 1..(k + 1 - 1) : ReportOf(ps, e, c, d)
      <4>1. d \in t.reports <=> (\E e, c \in 1..(k - 1) : ReportOf(ps, e, c, d)) \/ ReportOf(ps, b, k, d)
        BY <3>3, <3>4 DEF LintInv
      <4>2. ASSUME NEW e \in 1..(k + 1 - 1), NEW c \in 1..(k + 1 - 1), ReportOf(ps, e, c, d)
            PROVE  (e \in 1..(k - 1) /\ c \in 1..(k - 1)) \/ (e = b /\ c = k)
        <5>1. e < c
          BY <1>1, <4>2 DEF ReportOf, OpenFrom
        <5> QED  BY <1>1, <3>5, <4>2, <5>1
      <4>3. k \in 1..(k + 1 - 1) /\ b \in 1..(k + 1 - 1) /\ \A m \in 1..(k - 1) : m \in 1..(k + 1 - 1)
        BY <1>1
      <4> QED  BY <4>1, <4>2, <4>3
    <3> QED  BY <2>2, <2>3, <3>6 DEF LintInv
  <2>5. CASE ~(s.txn.in_txn /\ p.kind = "commit")
    <3>1. t.reports = s.reports
      BY <2>1, <2>5
    <3>2. CASE p.kind # "commit"
      <4> QED  BY <1>6, <2>2, <2>3, <3>1, <3>2 DEF LintInv
    <3>3. CASE ~s.txn.in_txn
      <4>1. \A b, d : ~ReportOf(ps, b, k, d)
        BY <3>3 DEF ReportOf, OpenFrom, NoneOpenAt, LintInv
      <4>2. ASSUME NEW b, NEW c \in 1..(k + 1 - 1), NEW d, ReportOf(ps, b, c, d)
            PROVE  c \in 1..(k - 1) /\ b \in 1..(k - 1)
        <5>1. c # k
          BY <4>1, <4>2
        <5>2. b \in 1..(c - 1)
          BY <4>2 DEF ReportOf, OpenFrom
        <5> QED  BY <1>1, <5>1, <5>2
      <4>3. \A d : d \in t.reports <=> \E b, c \in 1..(k + 1 - 1) : ReportOf(ps, b, c, d)
        BY <1>1, <3>1, <4>2 DEF LintInv
      <4> QED  BY <2>2, <2>3, <4>3 DEF LintInv
    <3> QED  BY <2>5, <3>2, <3>3
  <2> QED  BY <2>4, <2>5
<1>9. CASE s.txn.in_txn /\ ~is_txn_end(p)
  <2>1. /\ t.txn.in_txn /\ t.txn.line = s.txn.line /\ t.reports = s.reports
        /\ t.txn.ddl = IF p.kind = "ddl" THEN s.txn.ddl + 1 ELSE s.txn.ddl
        /\ t.txn.dml = IF p.kind = "dml" THEN s.txn.dml + 1 ELSE s.txn.dml
    BY <1>9 DEF CheckStatement, LintState, LintTxn, is_txn_end
  <2>2. PICK b \in 1..(k - 1) : /\ OpenFrom(ps, b, k)
                                /\ s.txn.line = ps[b].line
                                /\ s.txn.ddl = Cardinality(Counted(ps, b, k, "ddl"))
                                /\ s.txn.dml = Cardinality(Counted(ps, b, k, "dml"))
    BY <1>9 DEF LintInv
  <2>3. p.kind \notin {"commit", "rollback"}
    BY <1>9 DEF is_txn_end
  <2>4. b \in Nat /\ b < k
    BY <1>1
  <2>5. /\ t.txn.ddl = Cardinality(Counted(ps, b, k + 1, "ddl"))
        /\ t.txn.dml = Cardinality(Counted(ps, b, k + 1, "dml"))
    BY <1>1, <2>1, <2>2, <2>4, CountedNext
  <2>6. b \in 1..(k + 1 - 1) /\ OpenFrom(ps, b, k + 1)
    BY <1>1, <1>3, <2>2, <2>3
  <2> QED  BY <1>6, <2>1, <2>2, <2>3, <2>5, <2>6 DEF LintInv
<1>10. CASE ~s.txn.in_txn /\ p.kind # "begin" /\ ~is_txn_end(p)
  <2>1. t = s
    BY <1>10 DEF CheckStatement, is_txn_end
  <2>2. NoneOpenAt(ps, k + 1)
    BY <1>4, <1>10 DEF LintInv
  <2>3. p.kind # "commit"
    BY <1>10 DEF is_txn_end
  <2> QED  BY <1>6, <1>10, <2>1, <2>2, <2>3 DEF LintInv
<1> QED  BY <1>7, <1>8, <1>9, <1>10

\* Lint reports the transactions of the script that break a rule.
LEMMA LintReports ==
  ASSUME NEW ps \in Seq(Part), \A k \in 1..Len(ps) : ps[k].kind # "bad"
  PROVE  \A d : d \in check_ddl_transactions(ps) <=> \E b, c \in 1..Len(ps) : ReportOf(ps, b, c, d)
<1> DEFINE n == Len(ps)
<1>1. PICK f \in [0..n -> LintState] :
        /\ f[0] = Before
        /\ \A k \in 1..n : f[k] = CheckStatement(f[k - 1], ps[k])
        /\ check_ddl_transactions(ps) = f[n].reports
  BY LintByPrefix
<1> DEFINE S == {k \in 0..n : LintInv(ps, f[k], k + 1)}
<1>2. n \in Nat /\ 0 \in 0..n /\ n \in 0..n
  OBVIOUS
<1>3. 0 \in S
  <2>1. ~Before.txn.in_txn /\ Before.reports = {} /\ 1..(0 + 1 - 1) = {}
    BY DEF Before, Outside
  <2>2. NoneOpenAt(ps, 0 + 1)
    BY <2>1 DEF NoneOpenAt
  <2>3. LintInv(ps, f[0], 0 + 1)
    BY <1>1, <2>1, <2>2 DEF LintInv
  <2> QED  BY <1>2, <2>3
<1>4. ASSUME NEW k \in 1..n, k - 1 \in S
      PROVE  k \in S
  <2>1. k - 1 \in 0..n /\ k \in 0..n /\ LintInv(ps, f[k - 1], k) /\ k - 1 + 1 = k
    BY <1>4
  <2>2. f[k - 1] \in LintState /\ f[k] = CheckStatement(f[k - 1], ps[k])
    BY <1>1, <2>1
  <2>3. LintInv(ps, f[k], k + 1)
    BY <2>1, <2>2, LintStep
  <2> QED  BY <2>1, <2>3
<1>5. LintInv(ps, f[n], n + 1)
  <2> HIDE DEF S
  <2>1. 0..n \subseteq S
    BY <1>2, <1>3, <1>4, UpTo
  <2>2. n \in S
    BY <1>2, <2>1
  <2> QED  BY <2>2 DEF S
<1>6. n + 1 - 1 = n
  BY <1>2
<1> QED  BY <1>1, <1>5, <1>6 DEF LintInv

------------------------------------------------------------------------------
(* What fix reports.                                                       *)

\* The part of the input that the loop is at.
Place == i + Len(input) - Len(parts)
Parses(ps) == \A j \in 1..Len(ps) : ps[j].kind # "bad"

\* What the loop has still to look at is the rest of the input; no transaction open there
\* commits; the diagnostics are about the transactions that the loop has gone past.
DiagnosticsInv ==
  pass = "first" /\ Parses(input) =>
    /\ Place \in 1..(Len(input) + 1)
    /\ \A n \in i..Len(parts) : parts[n] = input[n - i + Place]
    /\ \A a \in 1..(Place - 1), c \in Place..Len(input) : ~CommittedFrom(input, a, c)
    /\ \A d : d \in diagnostics <=>
                \E b \in 1..(Place - 1), c \in 1..Len(input) : ReportOf(input, b, c, d)

LEMMA ReportIsCommitted ==
  ASSUME NEW ps \in Seq(Part), Parses(ps), NEW b, NEW c \in 1..Len(ps), NEW d, ReportOf(ps, b, c, d)
  PROVE  CommittedFrom(ps, b, c) /\ NoneOpenAt(ps, b)
<1>1. Len(ps) \in Nat
  OBVIOUS
<1>2. /\ b \in 1..(c - 1) /\ ps[b].kind = "begin" /\ ps[c].kind = "commit" /\ NoneOpenAt(ps, b)
      /\ \A m \in (b + 1)..(c - 1) : ps[m].kind \notin {"commit", "rollback"}
  BY DEF ReportOf, OpenFrom
<1>3. b \in 1..Len(ps) /\ c \in (b + 1)..Len(ps) /\ \A m \in (b + 1)..(c - 1) : m \in 1..Len(ps)
  BY <1>1, <1>2
<1> QED  BY <1>2, <1>3 DEF CommittedFrom, Parses

\* A BEGIN is committed at one place.
LEMMA CommittedOnce ==
  ASSUME NEW ps \in Seq(Part), NEW b, NEW c, NEW e, CommittedFrom(ps, b, c), CommittedFrom(ps, b, e)
  PROVE  c = e
<1>1. Len(ps) \in Nat
  OBVIOUS
<1>2. /\ b \in 1..Len(ps) /\ c \in (b + 1)..Len(ps) /\ e \in (b + 1)..Len(ps)
      /\ c \notin (b + 1)..(e - 1) /\ e \notin (b + 1)..(c - 1)
  BY DEF CommittedFrom
<1> QED  BY <1>1, <1>2

\* The block that the loop is at, in the input.
LEMMA BlockOfInput ==
  ASSUME TypeOK, i <= Len(parts), Place \in 1..(Len(input) + 1),
         \A n \in i..Len(parts) : parts[n] = input[n - i + Place],
         NEW C \in Int
  PROVE  /\ CommittedFrom(input, Place, C) <=> CommittedFrom(parts, i, C + i - Place)
         /\ CommittedFrom(input, Place, C) => Refused(input, Place, C) = Refused(parts, i, C + i - Place)
<1> DEFINE P == Place
           c == C + i - P
<1>1. /\ i \in 1..Len(parts) /\ Len(parts) \in Nat /\ Len(input) \in Nat
      /\ P \in 1..Len(input) /\ P = i + Len(input) - Len(parts)
  BY DEF TypeOK, Place
<1>2. c \in Int /\ c = C + i - P
  BY <1>1
<1> HIDE DEF P, c
<1>3. \A n \in i..Len(parts) : parts[n] = input[n - i + P]
  BY DEF P
<1>4. C \in (P + 1)..Len(input) <=> c \in (i + 1)..Len(parts)
  BY <1>1, <1>2
<1>5. ASSUME NEW m \in (P + 1)..Len(input)
      PROVE  m + i - P \in (i + 1)..Len(parts) /\ parts[m + i - P] = input[m]
  <2>1. m + i - P \in (i + 1)..Len(parts) /\ m + i - P \in i..Len(parts) /\ (m + i - P) - i + P = m
    BY <1>1
  <2> QED  BY <1>3, <2>1
<1>6. ASSUME NEW n \in (i + 1)..Len(parts)
      PROVE  n - i + P \in (P + 1)..Len(input) /\ parts[n] = input[n - i + P]
  <2>1. n \in i..Len(parts) /\ n - i + P \in (P + 1)..Len(input)
    BY <1>1
  <2> QED  BY <1>3, <2>1
<1>7. parts[i] = input[P]
  <2>1. i \in i..Len(parts) /\ i - i + P = P
    BY <1>1
  <2> QED  BY <1>3, <2>1
<1>8. ASSUME C \in (P + 1)..Len(input), NEW m \in (P + 1)..(C - 1)
      PROVE  m + i - P \in (i + 1)..(c - 1) /\ parts[m + i - P] = input[m]
  <2>1. m \in (P + 1)..Len(input) /\ m + i - P \in (i + 1)..(c - 1)
    BY <1>1, <1>2, <1>8
  <2> QED  BY <1>5, <2>1
<1>9. ASSUME C \in (P + 1)..Len(input), NEW n \in (i + 1)..(c - 1)
      PROVE  n - i + P \in (P + 1)..(C - 1) /\ parts[n] = input[n - i + P]
  <2>1. n \in (i + 1)..Len(parts) /\ n - i + P \in (P + 1)..(C - 1)
    BY <1>1, <1>2, <1>9
  <2> QED  BY <1>6, <2>1
<1>10. CASE C \notin (P + 1)..Len(input)
  BY <1>4, <1>10 DEF CommittedFrom, P, c
<1>11. CASE C \in (P + 1)..Len(input)
  <2>1. parts[c] = input[C]
    BY <1>2, <1>5, <1>11
  <2>2. (\A k \in (P + 1)..(C - 1) : input[k].kind \notin {"commit", "rollback", "bad"})
          <=> \A k \in (i + 1)..(c - 1) : parts[k].kind \notin {"commit", "rollback", "bad"}
    <3>1. ASSUME \A k \in (P + 1)..(C - 1) : input[k].kind \notin {"commit", "rollback", "bad"},
                 NEW k \in (i + 1)..(c - 1)
          PROVE  parts[k].kind \notin {"commit", "rollback", "bad"}
      BY <1>9, <1>11, <3>1
    <3>2. ASSUME \A k \in (i + 1)..(c - 1) : parts[k].kind \notin {"commit", "rollback", "bad"},
                 NEW k \in (P + 1)..(C - 1)
          PROVE  input[k].kind \notin {"commit", "rollback", "bad"}
      BY <1>8, <1>11, <3>2
    <3> QED  BY <3>1, <3>2
  <2>3. CommittedFrom(input, P, C) <=> CommittedFrom(parts, i, c)
    BY <1>1, <1>4, <1>7, <1>11, <2>1, <2>2 DEF CommittedFrom
  <2>4. (\E x, y \in (P + 1)..(C - 1) : input[x].kind = "ddl" /\ input[y].kind = "ddl" /\ x # y)
          <=> \E x, y \in (i + 1)..(c - 1) : parts[x].kind = "ddl" /\ parts[y].kind = "ddl" /\ x # y
    <3>1. ASSUME NEW x \in (P + 1)..(C - 1), NEW y \in (P + 1)..(C - 1),
                 input[x].kind = "ddl", input[y].kind = "ddl", x # y
          PROVE  \E u, v \in (i + 1)..(c - 1) : parts[u].kind = "ddl" /\ parts[v].kind = "ddl" /\ u # v
      <4>1. x + i - P # y + i - P
        <5>1. x \in Int /\ y \in Int /\ i \in Int /\ P \in Int /\ x # y
          BY <1>1, <3>1
        <5> QED  BY ONLY <5>1
      <4> QED  BY <1>8, <1>11, <3>1, <4>1
    <3>2. ASSUME NEW x \in (i + 1)..(c - 1), NEW y \in (i + 1)..(c - 1),
                 parts[x].kind = "ddl", parts[y].kind = "ddl", x # y
          PROVE  \E u, v \in (P + 1)..(C - 1) : input[u].kind = "ddl" /\ input[v].kind = "ddl" /\ u # v
      <4>1. x - i + P # y - i + P
        <5>1. x \in Int /\ y \in Int /\ i \in Int /\ P \in Int /\ x # y
          BY <1>1, <3>2
        <5> QED  BY ONLY <5>1
      <4>2. /\ x - i + P \in (P + 1)..(C - 1) /\ input[x - i + P].kind = "ddl"
            /\ y - i + P \in (P + 1)..(C - 1) /\ input[y - i + P].kind = "ddl"
        BY <1>9, <1>11, <3>2
      <4> QED  BY ONLY <4>1, <4>2
    <3> QED  BY <3>1, <3>2
  <2>5. (\E x, y \in (P + 1)..(C - 1) : input[x].kind = "ddl" /\ input[y].kind = "dml")
          <=> \E x, y \in (i + 1)..(c - 1) : parts[x].kind = "ddl" /\ parts[y].kind = "dml"
    <3>1. ASSUME NEW x \in (P + 1)..(C - 1), NEW y \in (P + 1)..(C - 1),
                 input[x].kind = "ddl", input[y].kind = "dml"
          PROVE  \E u, v \in (i + 1)..(c - 1) : parts[u].kind = "ddl" /\ parts[v].kind = "dml"
      BY <1>8, <1>11, <3>1
    <3>2. ASSUME NEW x \in (i + 1)..(c - 1), NEW y \in (i + 1)..(c - 1),
                 parts[x].kind = "ddl", parts[y].kind = "dml"
          PROVE  \E u, v \in (P + 1)..(C - 1) : input[u].kind = "ddl" /\ input[v].kind = "dml"
      BY <1>9, <1>11, <3>2
    <3> QED  BY <3>1, <3>2
  <2>6. Refused(input, P, C) = Refused(parts, i, c)
    BY <2>4, <2>5 DEF Refused
  <2> QED  BY <2>3, <2>6 DEF P, c
<1> QED  BY <1>10, <1>11

LEMMA DiagnosticsStep ==
  ASSUME TypeOK, StatementsKept, DiagnosticsInv, [Next]_vars
  PROVE  DiagnosticsInv'
<1> DEFINE P == Place
           K == Len(input)
<1>1. /\ parts \in Seq(Part) /\ Len(parts) \in Nat /\ i \in 1..(Len(parts) + 1)
      /\ input \in Seq(Part) /\ K \in Nat /\ OrderedLines(parts)
  BY OrderIs DEF TypeOK, StatementsKept
<1>2. P = i + K - Len(parts) /\ P \in Int
  BY <1>1 DEF Place
\* The first pass over a script that parses.
<1>3. SUFFICES ASSUME pass' = "first", Parses(input')
               PROVE  DiagnosticsInv'
  BY DEF DiagnosticsInv
<1>4. CASE UNCHANGED vars
  BY <1>4 DEF vars, DiagnosticsInv, Place
<1>5. CASE Rerun
  BY <1>3, <1>5 DEF Rerun
<1>6. CASE FixStep
  <2>1. pass = "first" /\ input' = input /\ Parses(input) /\ i <= Len(parts)
    BY <1>3, <1>6 DEF FixStep, SkipPart, SkipUnparsable, SkipUncommitted, KeepBlock, SplitBlock, Begins
  <2>2. /\ P \in 1..(K + 1)
        /\ \A n \in i..Len(parts) : parts[n] = input[n - i + P]
        /\ \A a \in 1..(P - 1), c \in P..K : ~CommittedFrom(input, a, c)
        /\ \A d : d \in diagnostics <=> \E b \in 1..(P - 1), c \in 1..K : ReportOf(input, b, c, d)
    BY <2>1 DEF DiagnosticsInv
  <2>3. P \in 1..K /\ parts[i] = input[P]
    <3>1. P \in 1..K /\ i \in i..Len(parts) /\ i - i + P = P
      BY <1>1, <1>2, <2>1, <2>2
    <3> QED  BY <2>2, <3>1
  <2> HIDE DEF P, K
  \* The loop goes past one part, which begins no committed transaction.
  <2>4. ASSUME i' = i + 1, UNCHANGED <<parts, diagnostics>>, \A c : ~CommittedFrom(input, P, c)
        PROVE  DiagnosticsInv'
    <3>1. Place' = P + 1 /\ Len(input') = K /\ P + 1 \in 1..(K + 1)
      BY <1>1, <1>2, <2>1, <2>3, <2>4 DEF Place, K
    <3>2. ASSUME NEW n \in i'..Len(parts')
          PROVE  parts'[n] = input'[n - i' + (P + 1)]
      <4>1. n \in i..Len(parts) /\ n - i' + (P + 1) = n - i + P
        BY <1>1, <1>2, <2>4
      <4> QED  BY <2>1, <2>2, <2>4, <4>1
    <3>3. ASSUME NEW a \in 1..P, NEW c \in (P + 1)..K
          PROVE  ~CommittedFrom(input, a, c)
      <4>1. c \in P..K /\ (a = P \/ a \in 1..(P - 1))
        BY <1>1, <1>2
      <4> QED  BY <2>2, <2>4, <4>1
    <3>4. ASSUME NEW d
          PROVE  d \in diagnostics <=> \E b \in 1..P, c \in 1..K : ReportOf(input, b, c, d)
      <4>1. \A c \in 1..K : ~ReportOf(input, P, c, d)
        BY <1>1, <2>1, <2>4, ReportIsCommitted DEF K
      <4>2. \A b : b \in 1..P <=> b \in 1..(P - 1) \/ b = P
        BY <2>3
      <4> QED  BY <2>2, <4>1, <4>2
    <3>5. diagnostics' = diagnostics /\ input' = input
      BY <2>1, <2>4
    <3>7. \A d : d \in diagnostics' <=> \E b \in 1..P, c \in 1..K : ReportOf(input', b, c, d)
      BY <3>4, <3>5
    <3>8. \A a \in 1..P, c \in (P + 1)..K : ~CommittedFrom(input', a, c)
      BY <3>3, <3>5
    <3>9. Place' - 1 = P /\ P \in Int
      BY <1>2, <3>1
    <3> QED  BY <3>1, <3>2, <3>7, <3>8, <3>9 DEF DiagnosticsInv
  \* The loop goes past a committed transaction.
  <2>5. ASSUME NEW C \in Int, CommittedFrom(input, P, C), Place' = C + 1,
               \A n \in i'..Len(parts') : parts'[n] = input[n - i' + (C + 1)],
               \A d : d \in diagnostics' <=>
                        d \in diagnostics \/ \E q \in Refused(input, P, C) : d = Report(q, input[P].line)
        PROVE  DiagnosticsInv'
    <3>1. /\ C \in (P + 1)..K /\ input[C].kind = "commit" /\ input[P].kind = "begin"
          /\ \A m \in (P + 1)..(C - 1) : input[m].kind \notin {"commit", "rollback", "bad"}
      BY <2>5 DEF CommittedFrom, K
    <3>2. C + 1 \in 1..(K + 1) /\ Len(input') = K /\ C + 1 - 1 = C
      BY <1>1, <2>1, <2>3, <3>1 DEF K
    <3>3. ASSUME NEW a \in 1..C, NEW c \in (C + 1)..K
          PROVE  ~CommittedFrom(input, a, c)
      <4>1. SUFFICES ASSUME CommittedFrom(input, a, c)
                     PROVE  FALSE
        OBVIOUS
      <4>2. input[a].kind = "begin" /\ \A m \in (a + 1)..(c - 1) : input[m].kind # "commit"
        BY <4>1 DEF CommittedFrom
      <4>3. a # C
        BY <3>1, <4>2
      <4>4. C \in (a + 1)..(c - 1)
        BY <4>3
      <4> QED  BY <3>1, <4>2, <4>4
    <3>4. NoneOpenAt(input, P)
      <4> SUFFICES ASSUME NEW a \in 1..(P - 1), input[a].kind = "begin",
                          \A m \in (a + 1)..(P - 1) : input[m].kind \notin {"commit", "rollback"}
                   PROVE  FALSE
        BY DEF NoneOpenAt
      <4>1. \A m \in (a + 1)..(C - 1) : m \in (a + 1)..(P - 1) \/ m = P \/ m \in (P + 1)..(C - 1)
        BY <2>3
      <4>2. \A m \in (a + 1)..(P - 1) : m \in 1..K
        BY <1>1, <2>3
      <4>3. \A m \in (a + 1)..(C - 1) : input[m].kind \notin {"commit", "rollback", "bad"}
        BY <2>1, <3>1, <4>1, <4>2 DEF Parses, K
      <4>4. a \in 1..K /\ C \in (a + 1)..K /\ C \in P..K
        BY <1>1, <2>3, <3>1
      <4>5. CommittedFrom(input, a, C)
        BY <3>1, <4>3, <4>4 DEF CommittedFrom, K
      <4> QED  BY <2>2, <4>4, <4>5
    <3>5. ASSUME NEW d
          PROVE  d \in diagnostics' <=> \E b \in 1..C, c \in 1..K : ReportOf(input, b, c, d)
      <4>1. OpenFrom(input, P, C)
        <5>1. P \in 1..(C - 1)
          BY <2>3, <3>1
        <5> QED  BY <3>1, <3>4, <5>1 DEF OpenFrom
      <4>2. ReportOf(input, P, C, d) <=> \E q \in Refused(input, P, C) : d = Report(q, input[P].line)
        BY <3>1, <4>1 DEF ReportOf
      <4>3. ASSUME NEW b \in 1..C, NEW c \in 1..K, ReportOf(input, b, c, d)
            PROVE  b \in 1..(P - 1) \/ (b = P /\ c = C)
        <5>1. CommittedFrom(input, b, c) /\ NoneOpenAt(input, b) /\ input[b].kind = "begin"
          BY <1>1, <2>1, <4>3, ReportIsCommitted DEF CommittedFrom, K
        <5>2. CASE b = P
          BY <1>1, <2>5, <5>1, <5>2, CommittedOnce
        <5>3. CASE b > P
          <6>1. b # C
            BY <3>1, <5>1
          <6>2. P \in 1..(b - 1) /\ \A m \in (P + 1)..(b - 1) : m \in (P + 1)..(C - 1)
            BY <2>3, <3>1, <5>3, <6>1
          <6> QED  BY <3>1, <5>1, <6>2 DEF NoneOpenAt
        <5>4. CASE b < P
          BY <2>3, <5>4
        <5> QED  BY <2>3, <5>2, <5>3, <5>4
      <4>4. P \in 1..C /\ C \in 1..K /\ \A b \in 1..(P - 1) : b \in 1..C
        BY <1>1, <2>3, <3>1
      <4> QED  BY <2>2, <2>5, <4>2, <4>3, <4>4
    <3> QED  BY <2>1, <2>5, <3>2, <3>3, <3>5 DEF DiagnosticsInv
  \* The end of the block, in the parts and in the input.
  <2>6. ASSUME NEW C \in Int
        PROVE  /\ CommittedFrom(input, P, C) <=> CommittedFrom(parts, i, C + i - P)
               /\ CommittedFrom(input, P, C) => Refused(input, P, C) = Refused(parts, i, C + i - P)
    BY <2>1, <2>2, BlockOfInput DEF P, K
  <2>7. CASE SkipPart
    <3>1. \A c : ~CommittedFrom(input, P, c)
      BY <2>3, <2>7 DEF SkipPart, CommittedFrom
    <3> QED  BY <2>4, <2>7, <3>1 DEF SkipPart
  <2>8. CASE SkipUnparsable
    <3>1. PICK e \in ScanEnds(i, {"bad"}) : TRUE
      BY <2>8 DEF SkipUnparsable
    <3>2. e \in (i + 1)..Len(parts) /\ parts[e].kind \in {"bad"}
      <4>1. i \in 1..Len(parts)
        BY <1>1, <2>1
      <4> QED  BY <3>1, <4>1, ScanHolds
    <3>3. e \in i..Len(parts) /\ e - i + P \in 1..K
      BY <1>1, <1>2, <2>3, <3>2
    <3> QED  BY <2>1, <2>2, <3>2, <3>3 DEF Parses, K
  <2>9. CASE SkipUncommitted
    <3>1. ASSUME NEW c, CommittedFrom(input, P, c)
          PROVE  FALSE
      <4>1. c \in Int
        BY <1>1, <3>1 DEF CommittedFrom
      <4>2. CommittedFrom(parts, i, c + i - P)
        BY <2>6, <3>1, <4>1
      <4> QED  BY <2>9, <4>2, ScanUncommitted DEF SkipUncommitted
    <3> QED  BY <2>4, <2>9, <3>1 DEF SkipUncommitted
  \* The transaction from i to c.
  <2>10. ASSUME Begins, NEW c \in ScanEnds(i, {"commit"})
         PROVE  /\ c \in (i + 1)..Len(parts) /\ c - i + P \in Int
                /\ CommittedFrom(input, P, c - i + P)
                /\ Refused(input, P, c - i + P) = Broken(i, c)
    <3>1. CommittedFrom(parts, i, c)
      BY <2>10, ScanCommits
    <3>2. c \in (i + 1)..Len(parts) /\ i \in 1..Len(parts)
      BY <1>1, <2>1, <3>1 DEF CommittedFrom
    <3>3. c - i + P \in Int /\ (c - i + P) + i - P = c
      BY <1>1, <1>2, <3>2
    <3>4. CommittedFrom(input, P, c - i + P) /\ Refused(input, P, c - i + P) = Refused(parts, i, c)
      BY <2>6, <3>1, <3>3
    <3>5. Refused(parts, i, c) = Broken(i, c)
      <4>1. i \in Nat /\ c \in Nat
        BY <1>1, <3>2
      <4> QED  BY <1>1, <4>1, RefusedIsBroken DEF Broken, InBlock, Counted
    <3> QED  BY <3>2, <3>3, <3>4, <3>5
  <2>11. CASE KeepBlock
    <3>1. PICK c \in ScanEnds(i, {"commit"}) : Broken(i, c) = {} /\ i' = c + 1
      BY <2>11 DEF KeepBlock
    <3> DEFINE C == c - i + P
    <3>2. /\ c \in (i + 1)..Len(parts) /\ C \in Int /\ CommittedFrom(input, P, C)
          /\ Refused(input, P, C) = {} /\ C = c - i + P
      BY <2>10, <2>11, <3>1 DEF KeepBlock
    <3> HIDE DEF C
    <3>3. parts' = parts /\ diagnostics' = diagnostics
      BY <2>11 DEF KeepBlock
    <3>4. Place' = C + 1
      BY <1>1, <1>2, <2>1, <3>1, <3>2, <3>3 DEF Place, K
    <3>5. ASSUME NEW n \in i'..Len(parts')
          PROVE  parts'[n] = input[n - i' + (C + 1)]
      <4>1. n \in i..Len(parts) /\ n - i' + (C + 1) = n - i + P
        BY <1>1, <1>2, <3>1, <3>2, <3>3
      <4> QED  BY <2>2, <3>3, <4>1
    <3>6. \A d : d \in diagnostics' <=>
                   d \in diagnostics \/ \E q \in Refused(input, P, C) : d = Report(q, input[P].line)
      BY <3>2, <3>3
    <3> QED  BY <2>5, <3>2, <3>4, <3>5, <3>6
  <2>12. CASE SplitBlock
    <3>1. PICK c \in ScanEnds(i, {"commit"}) :
            /\ Broken(i, c) # {}
            /\ parts' = Splice(i, c, Replacement(i, c))
            /\ i' = i + Len(Replacement(i, c))
            /\ diagnostics' = diagnostics \cup {Report(q, parts[i].line) : q \in Broken(i, c)}
      BY <2>12 DEF SplitBlock
    <3> DEFINE C == c - i + P
               r == Replacement(i, c)
               D == c + 1 - i - Len(r)
    <3>2. /\ Begins /\ c \in (i + 1)..Len(parts) /\ C \in Int /\ CommittedFrom(input, P, C)
          /\ Refused(input, P, C) = Broken(i, c) /\ C = c - i + P
      BY <2>10, <2>12, <3>1 DEF SplitBlock
    <3> HIDE DEF C
    <3>3. r \in Seq(Part) /\ Len(r) \in Nat /\ Spliced(parts', r, c)
      <4>1. r \in Seq(Part)
        BY <1>1, <3>1, <3>2, ReplacementIs
      <4>2. c \in i..Len(parts) /\ i <= Len(parts)
        BY <1>1, <2>1, <3>2
      <4> HIDE DEF r
      <4>3. Spliced(Splice(i, c, r), r, c)
        BY <4>1, <4>2, SpliceIs
      <4> QED  BY <3>1, <4>1, <4>3 DEF r
    <3>4. /\ Len(parts') = Len(parts) - D /\ i' = i + Len(r) /\ D \in Int /\ D = c + 1 - i - Len(r)
          /\ \A n \in (i + Len(r))..Len(parts') : parts'[n] = parts[n + D]
      BY <1>1, <3>1, <3>2, <3>3 DEF Spliced
    <3> HIDE DEF D, r
    <3>5. Place' = C + 1
      <4>1. Place' = i' + K - Len(parts')
        BY <2>1 DEF Place, K
      <4>2. /\ i \in Int /\ K \in Int /\ Len(parts) \in Int /\ D \in Int /\ Len(r) \in Int
            /\ P \in Int /\ c \in Int /\ C \in Int
        BY <1>1, <1>2, <3>2, <3>3, <3>4
      <4>3. Place' = (i + Len(r)) + K - (Len(parts) - D)
        BY <3>4, <4>1
      <4>4. P = i + K - Len(parts) /\ C = c - i + P /\ D = c + 1 - i - Len(r)
        BY <1>2, <3>2, <3>4
      <4> QED  BY ONLY <4>2, <4>3, <4>4
    <3>6. ASSUME NEW n \in i'..Len(parts')
          PROVE  parts'[n] = input[n - i' + (C + 1)]
      <4>1. n + D \in i..Len(parts) /\ (n + D) - i + P = n - i' + (C + 1)
        <5>1. /\ i \in Int /\ Len(parts) \in Int /\ D \in Int /\ Len(r) \in Int
              /\ P \in Int /\ c \in Int /\ C \in Int /\ n \in Int
              /\ i' \in Int /\ Len(parts') \in Int
          BY <1>1, <1>2, <3>2, <3>3, <3>4
        <5>2. /\ i' = i + Len(r) /\ Len(parts') = Len(parts) - D /\ i' <= n /\ n <= Len(parts')
              /\ C = c - i + P /\ D = c + 1 - i - Len(r) /\ c > i
          BY <3>2, <3>4, <5>1
        <5> QED  BY ONLY <5>1, <5>2
      <4>2. parts'[n] = parts[n + D]
        BY <3>4
      <4> QED  BY <2>2, <4>1, <4>2
    <3>7. \A d : d \in diagnostics' <=>
                   d \in diagnostics \/ \E q \in Refused(input, P, C) : d = Report(q, input[P].line)
      BY <2>3, <3>1, <3>2
    <3> QED  BY <2>5, <3>2, <3>5, <3>6, <3>7
  <2> QED  BY <1>6, <2>7, <2>8, <2>9, <2>11, <2>12 DEF FixStep
<1> QED  BY <1>4, <1>5, <1>6 DEF Next

------------------------------------------------------------------------------
(* The theorems.                                                           *)

\* The inductive invariant.
Inv == TypeOK /\ StatementsKept /\ AcceptedInv /\ DiagnosticsInv

LEMMA InvInit == Init => Inv
<1> SUFFICES ASSUME Init
             PROVE  Inv
  OBVIOUS
<1>1. TypeOK /\ OrderedLines(parts) /\ parts = input /\ i = 1 /\ diagnostics = {} /\ pass = "first"
  BY InitIs DEF Init
<1>2. parts \in Seq(Part) /\ Len(parts) \in Nat
  BY <1>1 DEF TypeOK
<1>3. StatementsKept
  BY <1>1, <1>2, OrderIs DEF StatementsKept
<1>4. AcceptedInv
  BY <1>1, <1>2 DEF AcceptedInv, AcceptedUpTo
<1>5. DiagnosticsInv
  <2>1. Place = 1
    BY <1>1, <1>2 DEF Place
  <2>2. 1..(Place - 1) = {} /\ Place \in 1..(Len(input) + 1)
    BY <1>1, <1>2, <2>1
  <2>3. \A n \in i..Len(parts) : parts[n] = input[n - i + Place]
    BY <1>1, <1>2, <2>1
  <2> QED  BY <1>1, <2>2, <2>3 DEF DiagnosticsInv
<1> QED  BY <1>1, <1>3, <1>4, <1>5 DEF Inv

LEMMA Invariant == Spec => []Inv
<1>1. Inv /\ [Next]_vars => Inv'
  BY TypeStep, StatementsStep, AcceptedStep, DiagnosticsStep DEF Inv
<1> QED  BY <1>1, InvInit, PTL DEF Spec

\* TypeOK: parts, index and diagnostics have their types in every state of the loop over the
\* list that it rewrites (fix_ddl_transactions, lint.rs); the index never leaves the list.
THEOREM TypeCorrect == Spec => []TypeOK
<1>1. Inv => TypeOK
  BY DEF Inv
<1> QED  BY <1>1, Invariant, PTL

\* StatementsKept: whatever blocks are split, and however often --fix runs, the script keeps
\* its statements, each once and in their order, and those that run in a transaction.
THEOREM StatementsStay == Spec => []StatementsKept
<1>1. Inv => StatementsKept
  BY DEF Inv
<1> QED  BY <1>1, Invariant, PTL

\* FixIsIdempotent: a second --fix splits no block of what the first one made.
THEOREM RerunChangesNothing == Spec => []FixIsIdempotent
<1>1. Inv => FixIsIdempotent
  BY DEF Inv, AcceptedInv, FixIsIdempotent
<1> QED  BY <1>1, Invariant, PTL

\* FixedScriptAccepted: when the loop ends, every transaction that the script commits has at
\* most one DDL statement and no DML statement beside it.
THEOREM FixedAccepted == Spec => []FixedScriptAccepted
<1>1. Inv => FixedScriptAccepted
  <2> SUFFICES ASSUME Inv, Finished, NEW t \in Transactions(parts), Commits(parts, t)
               PROVE  /\ Cardinality(Holds(parts, t, "ddl")) <= 1
                      /\ Holds(parts, t, "ddl") = {} \/ Holds(parts, t, "dml") = {}
    BY DEF FixedScriptAccepted
  <2> DEFINE b == t[1]
             c == t[2]
  <2>1. parts \in Seq(Part) /\ Len(parts) \in Nat /\ DOMAIN parts = 1..Len(parts)
    BY DEF Inv, TypeOK
  <2>2. /\ b \in 1..Len(parts) /\ c \in 1..Len(parts) /\ parts[b].kind = "begin" /\ b < c
        /\ Between(b, c) \cap Ends(parts) = {} /\ parts[c].kind = "commit"
        /\ Holds(parts, t, "bad") = {}
    BY <2>1 DEF Transactions, Opens, Ends, Commits
  <2>3. \A k : Holds(parts, t, k) = {j \in (b + 1)..(c - 1) : parts[j].kind = k}
    BY DEF Holds, Between
  <2> HIDE DEF b, c
  <2>4. \A k \in (b + 1)..(c - 1) : parts[k].kind \notin {"commit", "rollback", "bad"}
    <3>1. \A k \in (b + 1)..(c - 1) : k \in 1..Len(parts)
      BY <2>1, <2>2
    <3> QED  BY <2>1, <2>2, <2>3, <3>1 DEF Between, Ends, is_txn_end
  <2>5. CommittedFrom(parts, b, c)
    BY <2>1, <2>2, <2>4 DEF CommittedFrom
  <2>6. Accepts(parts, b, c)
    <3>1. b < i
      BY <2>1, <2>2 DEF Finished, Inv, TypeOK
    <3> QED  BY <2>2, <2>5, <3>1 DEF Inv, AcceptedInv, AcceptedUpTo
  <2>7. \A x, y \in Holds(parts, t, "ddl") : x = y
    BY <2>3, <2>6 DEF Accepts
  <2>8. Holds(parts, t, "ddl") = {} \/ Holds(parts, t, "dml") = {}
    <3>1. \A x \in Holds(parts, t, "ddl"), y \in Holds(parts, t, "dml") : FALSE
      BY <2>3, <2>6 DEF Accepts
    <3> QED  BY <3>1
  <2>9. IsFiniteSet(Holds(parts, t, "ddl"))
    <3>1. b + 1 \in Int /\ c - 1 \in Int
      BY <2>2
    <3>2. IsFiniteSet((b + 1)..(c - 1)) /\ Holds(parts, t, "ddl") \in SUBSET ((b + 1)..(c - 1))
      BY <2>3, <3>1, FS_Interval
    <3> QED  BY <3>2, FS_Subset
  <2> QED  BY <2>7, <2>8, <2>9, AtMostOne
<1> QED  BY <1>1, Invariant, PTL

\* ModesAgree: of a script that parses, --fix reports exactly what lint reports, whatever
\* blocks it has split on the way.
THEOREM LintAndFixAgree == Spec => []ModesAgree
<1>1. Inv => ModesAgree
  <2> SUFFICES ASSUME Inv, Finished, pass = "first", \A j \in DOMAIN input : input[j].kind # "bad"
               PROVE  diagnostics = check_ddl_transactions(input)
    BY DEF ModesAgree
  <2>1. /\ input \in Seq(Part) /\ Len(input) \in Nat /\ DOMAIN input = 1..Len(input)
        /\ Len(parts) \in Nat /\ i \in 1..(Len(parts) + 1)
    BY DEF Inv, TypeOK
  <2>2. Parses(input) /\ \A j \in 1..Len(input) : input[j].kind # "bad"
    BY <2>1 DEF Parses
  <2>3. Place - 1 = Len(input)
    BY <2>1 DEF Place, Finished
  <2>4. \A d : d \in diagnostics <=> \E b, c \in 1..Len(input) : ReportOf(input, b, c, d)
    BY <2>2, <2>3 DEF Inv, DiagnosticsInv
  <2>5. \A d : d \in check_ddl_transactions(input) <=> \E b, c \in 1..Len(input) : ReportOf(input, b, c, d)
    BY <2>1, <2>2, LintReports
  <2>6. \A d : d \in diagnostics <=> d \in check_ddl_transactions(input)
    BY <2>4, <2>5
  <2> QED  BY <2>6
<1> QED  BY <1>1, Invariant, PTL

===============================================================================
