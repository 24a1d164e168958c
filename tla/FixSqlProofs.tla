------------------------------ MODULE FixSqlProofs ------------------------------
(***************************************************************************)
(* Proofs about FixSql, for scripts of any length.                         *)
(***************************************************************************)
EXTENDS FixSql, SequenceLemmas

------------------------------------------------------------------------------
(* drop_parts.                                                             *)

\* q is ps without the parts at D, in their order.
Retains(q, ps, D) ==
  /\ IsSeq(q)
  /\ \E e \in [1..Len(q) -> 1..Len(ps)] :
       /\ \A j \in 1..Len(q) : q[j] = ps[e[j]] /\ e[j] \notin D
       /\ \A j, k \in 1..Len(q) : j < k => e[j] < e[k]
       /\ \A i \in 1..Len(ps) : i \notin D => \E j \in 1..Len(q) : e[j] = i

\* With the places after m gone through.
RetainsEnd(q, ps, D, m) ==
  /\ q \in Seq(Range(ps)) /\ Len(q) >= m
  /\ \E e \in [1..Len(q) -> 1..Len(ps)] :
       /\ \A j \in 1..Len(q) : q[j] = ps[e[j]] /\ (e[j] > m => e[j] \notin D)
       /\ \A j, k \in 1..Len(q) : j < k => e[j] < e[k]
       /\ \A j \in 1..m : e[j] = j
       /\ \A i \in 1..Len(ps) : (i <= m \/ i \notin D) => \E j \in 1..Len(q) : e[j] = i

LEMMA RetainsEndStep ==
  ASSUME NEW ps, IsSeq(ps), NEW D, NEW i \in 1..Len(ps), NEW q, RetainsEnd(q, ps, D, i)
  PROVE  RetainsEnd(IF i \in D THEN RemoveAt(q, i) ELSE q, ps, D, i - 1)
<1> DEFINE n == Len(ps)
           R == Range(ps)
<1>1. n \in Nat /\ i \in 1..n
  BY SeqFacts
<1>2. q \in Seq(R) /\ Len(q) >= i /\ Len(q) \in Nat
  BY DEF RetainsEnd
<1> HIDE DEF n, R
<1>3. PICK e \in [1..Len(q) -> 1..n] :
        /\ \A j \in 1..Len(q) : q[j] = ps[e[j]] /\ (e[j] > i => e[j] \notin D)
        /\ \A j, m \in 1..Len(q) : j < m => e[j] < e[m]
        /\ \A j \in 1..i : e[j] = j
        /\ \A x \in 1..n : (x <= i \/ x \notin D) => \E j \in 1..Len(q) : e[j] = x
  BY DEF RetainsEnd, n
<1>4. \A j \in 1..Len(q) : e[j] \in 1..n
  BY <1>3
<1>5. i \in 1..Len(q) /\ e[i] = i
  <2>1. i \in 1..Len(q) /\ i \in 1..i
    BY <1>1, <1>2
  <2> QED  BY <1>3, <2>1
<1>6. CASE i \notin D
  <2>1. \A j \in 1..Len(q) : q[j] = ps[e[j]] /\ (e[j] > i - 1 => e[j] \notin D)
    <3> SUFFICES ASSUME NEW j \in 1..Len(q)
                 PROVE  q[j] = ps[e[j]] /\ (e[j] > i - 1 => e[j] \notin D)
      OBVIOUS
    <3>1. e[j] \in 1..n
      BY <1>4
    <3>2. e[j] > i - 1 => e[j] > i \/ e[j] = i
      BY <1>1, <3>1
    <3> QED  BY <1>3, <1>6, <3>2
  <2>2. \A j \in 1..(i - 1) : e[j] = j
    <3>1. \A j \in 1..(i - 1) : j \in 1..i
      BY <1>1
    <3> QED  BY <1>3, <3>1
  <2>3. \A x \in 1..n : (x <= i - 1 \/ x \notin D) => \E j \in 1..Len(q) : e[j] = x
    <3>1. \A x \in 1..n : x <= i - 1 => x <= i
      BY <1>1
    <3> QED  BY <1>3, <3>1
  <2>4. Len(q) >= i - 1
    BY <1>1, <1>2
  <2>5. RetainsEnd(q, ps, D, i - 1)
    BY <1>2, <1>3, <2>1, <2>2, <2>3, <2>4 DEF RetainsEnd, R, n
  <2> QED  BY <1>6, <2>5
<1>7. CASE i \in D
  <2> DEFINE new == RemoveAt(q, i)
             f == [j \in 1..(Len(q) - 1) |-> IF j < i THEN e[j] ELSE e[j + 1]]
  <2>1. /\ new \in Seq(R) /\ Len(new) = Len(q) - 1
        /\ \A j \in 1..(Len(q) - 1) : new[j] = IF j < i THEN q[j] ELSE q[j + 1]
    BY <1>2, <1>5, RemoveAtIs
  <2> HIDE DEF new
  <2>2. ASSUME NEW j \in 1..(Len(q) - 1)
        PROVE  /\ f[j] \in 1..n /\ new[j] = ps[f[j]] /\ (f[j] > i - 1 => f[j] \notin D)
               /\ j \in 1..Len(q) /\ j + 1 \in 1..Len(q)
               /\ (j < i => f[j] = e[j] /\ e[j] < i)
               /\ (~(j < i) => f[j] = e[j + 1] /\ e[j + 1] > i)
    <3>1. j \in 1..Len(q) /\ j + 1 \in 1..Len(q)
      BY <1>2
    <3>2. CASE j < i
      <4>1. f[j] = e[j] /\ new[j] = q[j]
        BY <2>1, <3>2
      <4>2. e[j] < e[i] /\ e[j] \in 1..n
        BY <1>3, <1>4, <1>5, <3>1, <3>2
      <4>3. ~(e[j] > i - 1)
        BY <1>1, <1>5, <4>2
      <4> HIDE DEF f
      <4> QED  BY <1>3, <1>5, <3>1, <3>2, <4>1, <4>2, <4>3
    <3>3. CASE ~(j < i)
      <4>1. f[j] = e[j + 1] /\ new[j] = q[j + 1]
        BY <2>1, <3>3
      <4>2. i < j + 1
        BY <1>1, <3>1, <3>3
      <4>3. e[i] < e[j + 1] /\ e[j + 1] \in 1..n
        BY <1>3, <1>4, <1>5, <3>1, <4>2
      <4>4. e[j + 1] > i
        BY <1>1, <1>5, <4>3
      <4> HIDE DEF f
      <4> QED  BY <1>3, <3>1, <3>3, <4>1, <4>3, <4>4
    <3> QED  BY <3>2, <3>3
  <2>3. f \in [1..(Len(q) - 1) -> 1..n]
    <3>1. f = [j \in 1..(Len(q) - 1) |-> f[j]]
      OBVIOUS
    <3> HIDE DEF f
    <3> QED  BY <2>2, <3>1
  <2> HIDE DEF f
  <2>4. ASSUME NEW j \in 1..(Len(q) - 1), NEW m \in 1..(Len(q) - 1), j < m
        PROVE  f[j] < f[m]
    <3>1. CASE m < i
      <4>1. j < i
        BY <1>1, <1>2, <2>4, <3>1
      <4> QED  BY <1>3, <2>2, <2>4, <3>1, <4>1
    <3>2. CASE ~(m < i)
      <4>1. CASE j < i
        <5>1. f[j] = e[j] /\ e[j] < i /\ f[m] = e[m + 1] /\ e[m + 1] > i
          BY <2>2, <3>2, <4>1
        <5>2. e[j] \in 1..n /\ e[m + 1] \in 1..n
          BY <1>4, <2>2
        <5> QED  BY <1>1, <5>1, <5>2
      <4>2. CASE ~(j < i)
        <5>1. f[j] = e[j + 1] /\ f[m] = e[m + 1] /\ j + 1 \in 1..Len(q) /\ m + 1 \in 1..Len(q)
          BY <2>2, <3>2, <4>2
        <5>2. j + 1 < m + 1
          BY <1>2, <2>4
        <5> QED  BY <1>3, <5>1, <5>2
      <4> QED  BY <4>1, <4>2
    <3> QED  BY <3>1, <3>2
  <2>5. ASSUME NEW j \in 1..(i - 1)
        PROVE  f[j] = j
    <3>1. j \in 1..(Len(q) - 1) /\ j < i /\ j \in 1..i
      BY <1>1, <1>2
    <3> QED  BY <1>3, <2>2, <3>1
  <2>6. ASSUME NEW x \in 1..n, x <= i - 1 \/ x \notin D
        PROVE  \E j \in 1..(Len(q) - 1) : f[j] = x
    <3>1. x # i
      BY <1>1, <1>7, <2>6
    <3>2. PICK m \in 1..Len(q) : e[m] = x
      <4>1. x <= i \/ x \notin D
        BY <1>1, <2>6
      <4> QED  BY <1>3, <4>1
    <3>3. m # i
      BY <1>5, <3>1, <3>2
    <3>4. CASE m < i
      <4>1. m \in 1..(Len(q) - 1)
        BY <1>2, <1>5, <3>4
      <4> QED  BY <2>2, <3>2, <3>4, <4>1
    <3>5. CASE ~(m < i)
      <4>1. m - 1 \in 1..(Len(q) - 1) /\ ~(m - 1 < i) /\ m - 1 + 1 = m
        BY <1>2, <1>5, <3>3, <3>5
      <4>2. f[m - 1] = e[m]
        BY <2>2, <4>1
      <4> QED  BY <3>2, <4>1, <4>2
    <3> QED  BY <3>4, <3>5
  <2>7. Len(new) >= i - 1
    BY <1>1, <1>2, <2>1
  <2>8. \A j \in 1..(Len(q) - 1) : new[j] = ps[f[j]] /\ (f[j] > i - 1 => f[j] \notin D)
    BY <2>2
  <2>9. /\ f \in [1..Len(new) -> 1..n]
        /\ \A j \in 1..Len(new) : new[j] = ps[f[j]] /\ (f[j] > i - 1 => f[j] \notin D)
        /\ \A j, k \in 1..Len(new) : j < k => f[j] < f[k]
        /\ \A x \in 1..n : (x <= i - 1 \/ x \notin D) => \E j \in 1..Len(new) : f[j] = x
    BY <2>1, <2>3, <2>4, <2>6, <2>8
  <2>10. RetainsEnd(new, ps, D, i - 1)
    BY <2>1, <2>5, <2>7, <2>9 DEF RetainsEnd, R, n
  <2> QED  BY <1>7, <2>10 DEF new
<1> QED  BY <1>6, <1>7

\* The parts at the listed places are dropped, and no other.
LEMMA DropPartsIs ==
  ASSUME NEW ps, IsSeq(ps), NEW indices
  PROVE  Retains(drop_parts(ps, indices), ps, Range(indices))
<1> DEFINE n == Len(ps)
           D == Range(indices)
           A == {q \in Seq(Range(ps)) : Len(q) <= n}
           seq == [k \in DOMAIN ps |-> n + 1 - k]
           Op(x, i) == IF i \in D THEN RemoveAt(x, i) ELSE x
           Equation(g) == g = [s \in SUBSET DOMAIN seq |->
                                 IF s = {} THEN ps ELSE Op(g[s \ {Max(s)}], seq[Max(s)])]
           iter == CHOOSE g : Equation(g)
           step == [k \in 1..n |-> [x \in A |-> IF n + 1 - k \in 1..Len(x) THEN Op(x, n + 1 - k) ELSE x]]
<1>1. n \in Nat /\ DOMAIN ps = 1..n /\ DOMAIN seq = 1..n /\ ps \in A
  BY SeqFacts DEF IsSeq
<1>2. step \in [1..n -> [A -> A]]
  <2> SUFFICES ASSUME NEW k \in 1..n, NEW x \in A
               PROVE  (IF n + 1 - k \in 1..Len(x) THEN Op(x, n + 1 - k) ELSE x) \in A
    OBVIOUS
  <2>1. CASE n + 1 - k \in 1..Len(x)
    <3>1. RemoveAt(x, n + 1 - k) \in Seq(Range(ps)) /\ Len(RemoveAt(x, n + 1 - k)) = Len(x) - 1
      <4>1. x \in Seq(Range(ps))
        OBVIOUS
      <4> HIDE DEF n, A, D
      <4> QED  BY ONLY <2>1, <4>1, RemoveAtIs
    <3>2. Len(x) \in Nat /\ Len(x) <= n
      OBVIOUS
    <3>3. RemoveAt(x, n + 1 - k) \in A
      <4>1. Len(x) - 1 <= n
        BY <1>1, <3>2
      <4> QED  BY <3>1, <4>1
    <3> HIDE DEF A, D, n
    <3> QED  BY <2>1, <3>3
  <2> HIDE DEF A
  <2> QED  BY <2>1
<1>3. \E g : Equation(g)
  <2>1. PICK g \in [SUBSET (1..n) -> A] : Solves(g, n, ps, step)
    <3>1. n \in Nat /\ ps \in A /\ step \in [1..n -> [A -> A]]
      BY <1>1, <1>2
    <3> HIDE DEF step, n, A
    <3> QED  BY <3>1, RecursionExists
  <2> DEFINE S == {m \in 0..n : \A s \in SUBSET (1..m) : Len(g[s]) >= n - m}
  <2>2. 0 \in S
    <3>1. 1..0 = {} /\ 0 \in 0..n
      BY <1>1
    <3>2. g[{}] = ps
      BY <1>1, <2>1 DEF Solves
    <3>3. \A s \in SUBSET (1..0) : s = {}
      BY <3>1
    <3>4. Len(ps) >= n - 0
      BY <1>1
    <3> QED  BY <3>1, <3>2, <3>3, <3>4
  <2>3. ASSUME NEW k \in 1..n, k - 1 \in S
        PROVE  k \in S
    <3> SUFFICES ASSUME NEW s \in SUBSET (1..k)
                 PROVE  Len(g[s]) >= n - k
      BY <1>1
    <3>1. \A t \in SUBSET (1..(k - 1)) : Len(g[t]) >= n - (k - 1) /\ Len(g[t]) \in Nat /\ g[t] \in A
      <4> SUFFICES ASSUME NEW t \in SUBSET (1..(k - 1))
                   PROVE  Len(g[t]) >= n - (k - 1) /\ Len(g[t]) \in Nat /\ g[t] \in A
        OBVIOUS
      <4>1. t \in SUBSET (1..n)
        BY <1>1
      <4>2. g[t] \in A
        BY <2>1, <4>1
      <4>3. Len(g[t]) \in Nat
        BY <4>2
      <4> QED  BY <2>3, <4>2, <4>3
    <3>2. CASE k \notin s
      <4>1. s \in SUBSET (1..(k - 1))
        BY <3>2
      <4>2. Len(g[s]) >= n - (k - 1) /\ Len(g[s]) \in Nat
        BY <3>1, <4>1
      <4> QED  BY <1>1, <4>2
    <3>3. CASE k \in s
      <4>1. s \ {k} \in SUBSET (1..(k - 1)) /\ s \in SUBSET (1..n) /\ s # {}
        BY <1>1, <3>3
      <4>2. Max(s) = k
        <5>1. k \in Nat /\ s \in SUBSET (1..k)
          OBVIOUS
        <5>2. Max(s) \in s /\ Max(s) >= k
          BY <3>3, <4>1, <5>1, MaxOf
        <5>3. Max(s) \in 1..k
          BY <5>2
        <5> QED  BY <5>1, <5>2, <5>3
      <4> DEFINE x == g[s \ {k}]
      <4>3. x \in A /\ Len(x) \in Nat /\ Len(x) >= n - (k - 1)
        BY <3>1, <4>1
      <4>4. g[s] = step[k][x]
        BY <2>1, <4>1, <4>2 DEF Solves
      <4> HIDE DEF x
      <4>5. step[k][x] = IF n + 1 - k \in 1..Len(x) THEN Op(x, n + 1 - k) ELSE x
        BY <4>3
      <4>6. n + 1 - k \in 1..Len(x) => Len(RemoveAt(x, n + 1 - k)) = Len(x) - 1
        <5>1. x \in Seq(Range(ps))
          BY <4>3
        <5> HIDE DEF n
        <5> QED  BY ONLY <5>1, RemoveAtIs
      <4>7. Len(g[s]) = Len(x) - 1 \/ Len(g[s]) = Len(x)
        <5> HIDE DEF step, A, D, n
        <5> QED  BY <4>4, <4>5, <4>6
      <4> QED  BY <1>1, <4>3, <4>7
    <3> QED  BY <3>2, <3>3
  <2>4. 0..n \subseteq S
    <3> HIDE DEF S
    <3> QED  BY <1>1, <2>2, <2>3, UpTo
  <2>5. ASSUME NEW s \in SUBSET (1..n), s # {}
        PROVE  step[Max(s)][g[s \ {Max(s)}]] = Op(g[s \ {Max(s)}], seq[Max(s)])
    <3> DEFINE k == Max(s)
               x == g[s \ {k}]
    <3>1. k \in s /\ k \in 1..n /\ \A y \in s : k >= y
      BY <1>1, <2>5, MaxOf
    <3> HIDE DEF k
    <3>2. s \ {k} \in SUBSET (1..(k - 1)) /\ s \ {k} \in SUBSET (1..n) /\ k - 1 \in 0..n
      <4>1. \A y \in s \ {k} : y \in 1..(k - 1)
        BY <1>1, <3>1
      <4> QED  BY <1>1, <3>1, <4>1
    <3>3. x \in A /\ Len(x) >= n - (k - 1)
      BY <2>1, <2>4, <3>2
    <3>4. Len(x) \in Nat
      BY <3>3
    <3> HIDE DEF x
    <3>5. n + 1 - k \in 1..Len(x) /\ seq[k] = n + 1 - k
      BY <1>1, <3>1, <3>3, <3>4
    <3>6. step[k][x] = Op(x, seq[k])
      <4>1. step[k][x] = IF n + 1 - k \in 1..Len(x) THEN Op(x, n + 1 - k) ELSE x
        BY <3>1, <3>3
      <4> HIDE DEF step, seq, A, n
      <4> QED  BY <3>5, <4>1
    <3> QED  BY <3>6 DEF k, x
  <2>6. Equation(g)
    <3>1. \A s \in SUBSET (1..n) : g[s] = IF s = {} THEN ps ELSE Op(g[s \ {Max(s)}], seq[Max(s)])
      <4> HIDE DEF step, seq, A, n, D
      <4> QED  BY <2>1, <2>5 DEF Solves
    <3> QED  BY <1>1, <2>1, <3>1
  <2> QED  BY <2>6
<1>4. Equation(iter)
  BY <1>3
<1>5. drop_parts(ps, indices) = iter[1..n]
  BY <1>1 DEF drop_parts, FoldLeft, MapThenFoldSet
<1> DEFINE S == {k \in 0..n : RetainsEnd(iter[1..k], ps, D, n - k)}
<1>6. 0 \in S
  <2>1. iter[{}] = ps /\ 1..0 = {} /\ 0 \in 0..n
    <3>1. {} \in SUBSET DOMAIN seq /\ 1..0 = {} /\ 0 \in 0..n
      BY <1>1
    <3> HIDE DEF seq, n, D, iter
    <3> QED  BY <1>4, <3>1
  <2> DEFINE e == [j \in 1..n |-> j]
  <2>2. /\ e \in [1..n -> 1..n]
        /\ \A j \in 1..n : e[j] = j /\ ps[j] = ps[e[j]] /\ ~(e[j] > n)
        /\ \A j, k \in 1..n : j < k => e[j] < e[k]
    BY <1>1
  <2>3. ps \in Seq(Range(ps)) /\ n >= n
    BY <1>1
  <2> HIDE DEF e
  <2>4. RetainsEnd(ps, ps, D, n)
    BY <2>2, <2>3 DEF RetainsEnd
  <2>5. n - 0 = n
    BY <1>1
  <2> QED  BY <2>1, <2>4, <2>5
<1>7. ASSUME NEW k \in 1..n, k - 1 \in S
      PROVE  k \in S
  <2>1. Max(1..k) = k /\ (1..k) \ {k} = 1..(k - 1)
    BY MaxOfInterval
  <2>2. 1..k \in SUBSET (1..n) /\ 1..k # {}
    <3>1. k \in 1..k /\ \A x \in 1..k : x \in 1..n
      BY <1>1
    <3> QED  BY <3>1
  <2>3. seq[k] = n + 1 - k
    BY <1>1
  <2>4. iter[1..k] = Op(iter[1..(k - 1)], n + 1 - k)
    <3>1. 1..k \in SUBSET DOMAIN seq
      BY <1>1, <2>2
    <3> HIDE DEF iter, seq, n, D
    <3>2. iter[1..k] = Op(iter[(1..k) \ {Max(1..k)}], seq[Max(1..k)])
      BY <1>4, <2>2, <3>1
    <3> QED  BY <2>1, <2>3, <3>2
  <2>5. RetainsEnd(iter[1..(k - 1)], ps, D, n + 1 - k)
    <3>1. n - (k - 1) = n + 1 - k
      BY <1>1
    <3> QED  BY <1>7, <3>1
  <2>6. n + 1 - k \in 1..n /\ n + 1 - k - 1 = n - k /\ k \in 0..n
    <3>1. n \in Nat /\ k \in 1..n
      BY <1>1
    <3> HIDE DEF n
    <3> QED  BY ONLY <3>1
  <2>7. RetainsEnd(Op(iter[1..(k - 1)], n + 1 - k), ps, D, n + 1 - k - 1)
    <3> HIDE DEF iter, D
    <3> QED  BY <2>5, <2>6, RetainsEndStep
  <2> HIDE DEF iter
  <2> QED  BY <2>4, <2>6, <2>7
<1> HIDE DEF iter
<1>8. RetainsEnd(iter[1..n], ps, D, 0)
  <2>1. n \in S
    <3> HIDE DEF S
    <3>1. 0..n \subseteq S
      BY <1>1, <1>6, <1>7, UpTo
    <3> QED  BY <1>1, <3>1
  <2>2. n - n = 0
    BY <1>1
  <2> QED  BY <2>1, <2>2
<1>9. \A q : RetainsEnd(q, ps, D, 0) => Retains(q, ps, D)
  <2> SUFFICES ASSUME NEW q, RetainsEnd(q, ps, D, 0)
               PROVE  Retains(q, ps, D)
    OBVIOUS
  <2>1. IsSeq(q)
    BY SeqIsSeq DEF RetainsEnd
  <2>2. PICK e \in [1..Len(q) -> 1..n] :
          /\ \A j \in 1..Len(q) : q[j] = ps[e[j]] /\ (e[j] > 0 => e[j] \notin D)
          /\ \A j, k \in 1..Len(q) : j < k => e[j] < e[k]
          /\ \A i \in 1..n : (i <= 0 \/ i \notin D) => \E j \in 1..Len(q) : e[j] = i
    BY DEF RetainsEnd
  <2>3. \A j \in 1..Len(q) : e[j] > 0
    BY <1>1, <2>2
  <2> HIDE DEF D
  <2> QED  BY <2>1, <2>2, <2>3 DEF Retains
<1> QED  BY <1>5, <1>8, <1>9

------------------------------------------------------------------------------
(* What the rules report of a statement is a sequence.                     *)

LEMMA ReportIsSeq ==
  ASSUME NEW c, NEW r, NEW f
  PROVE  IsSeq(Report(c, r, f))
<1>1. IsSeq(<<>>) /\ IsSeq(<<Found(r, f)>>)
  BY EmptyIsSeq, SingletonIsSeq
<1> QED  BY <1>1, Zenon DEF Report

LEMMA FlattenIsSeq ==
  ASSUME NEW n \in Nat, NEW seqs, seqs = [k \in 1..n |-> seqs[k]], \A k \in 1..n : IsSeq(seqs[k])
  PROVE  IsSeq(FlattenSeq(seqs))
<1>1. IsSeq(seqs) /\ Len(seqs) = n
  BY FunctionIsSeq
<1>2. Flattened(FlattenSeq(seqs), n, seqs)
  BY <1>1, FlattenSeqIs
<1> QED  BY <1>2 DEF Flattened

LEMMA CacheFoundIsSeq ==
  ASSUME NEW r, NEW cache
  PROVE  IsSeq(CacheFound(r, cache)) /\ IsSeq(CacheMissingFound(r, cache))
BY ReportIsSeq, ConcatIsSeq DEF CacheFound, CacheMissingFound

LEMMA ForeignKeyFoundIsSeq ==
  ASSUME NEW f
  PROVE  IsSeq(ForeignKeyFound(f))
<1>1. IsSeq(Report(f.match = "partial", "ForeignKeyMatchPartial", Unfixable)
              \o Report(f.enforced = "enforced", "ForeignKeyEnforced", Fixed))
  BY ReportIsSeq, ConcatIsSeq
<1> QED  BY <1>1, ReportIsSeq, ConcatIsSeq DEF ForeignKeyFound

LEMMA ForeignKeysFoundIsSeq ==
  ASSUME NEW S, IsFiniteSet(S)
  PROVE  IsSeq(OfEach(ForeignKeyFound, S))
<1> DEFINE q == SetToSeq(S)
           seqs == [k \in DOMAIN q |-> ForeignKeyFound(q[k])]
<1>1. IsSeq(q)
  BY SetToSeqIs
<1>2. DOMAIN q = 1..Len(q) /\ Len(q) \in Nat
  BY <1>1, SeqFacts
<1> HIDE DEF q
<1>3. \A k \in 1..Len(q) : IsSeq(seqs[k])
  BY <1>2, ForeignKeyFoundIsSeq
<1>4. seqs = [k \in 1..Len(q) |-> seqs[k]]
  BY <1>2
<1>5. OfEach(ForeignKeyFound, S) = FlattenSeq(seqs)
  BY DEF OfEach, q
<1> HIDE DEF seqs
<1> QED  BY <1>2, <1>3, <1>4, <1>5, FlattenIsSeq

LEMMA IdentitiesFoundIsSeq ==
  ASSUME NEW S, IsFiniteSet(S)
  PROVE  /\ IsSeq(OfEach(LAMBDA i : CacheFound("IdentityCache", i.cache), S))
         /\ IsSeq(OfEach(LAMBDA i : CacheMissingFound("IdentityCacheMissing", i.cache), S))
<1> DEFINE q == SetToSeq(S)
           cached == [k \in DOMAIN q |-> CacheFound("IdentityCache", q[k].cache)]
           missing == [k \in DOMAIN q |-> CacheMissingFound("IdentityCacheMissing", q[k].cache)]
<1>1. IsSeq(q)
  BY SetToSeqIs
<1>2. DOMAIN q = 1..Len(q) /\ Len(q) \in Nat
  BY <1>1, SeqFacts
<1> HIDE DEF q
<1>3. \A k \in 1..Len(q) : IsSeq(cached[k]) /\ IsSeq(missing[k])
  BY <1>2, CacheFoundIsSeq
<1>4. cached = [k \in 1..Len(q) |-> cached[k]] /\ missing = [k \in 1..Len(q) |-> missing[k]]
  BY <1>2
<1>5. /\ OfEach(LAMBDA i : CacheFound("IdentityCache", i.cache), S) = FlattenSeq(cached)
      /\ OfEach(LAMBDA i : CacheMissingFound("IdentityCacheMissing", i.cache), S) = FlattenSeq(missing)
  BY DEF OfEach, q
<1> HIDE DEF cached, missing
<1> QED  BY <1>2, <1>3, <1>4, <1>5, FlattenIsSeq

LEMMA ColumnFoundIsSeq ==
  ASSUME NEW c, IsColumn(c), NEW in_alter_table
  PROVE  IsSeq(ColumnFound(c, in_alter_table))
<1> DEFINE A == Report(c.type = "serial", "SerialType", IF in_alter_table THEN Unfixable ELSE Warned)
           B == Report(c.type = "array", "ArrayType", Unfixable)
           C == Report(c.type = "numeric_wide", "NumericBounds", Unfixable)
           D1 == Report(c.identity # {}, "IdentityType", Unfixable)
           D2 == Report(c.identity # {} /\ c.type \notin {"bigint", "serial"}, "IdentityType", Warned)
           D3 == OfEach(LAMBDA i : CacheFound("IdentityCache", i.cache), c.identity)
           E == OfEach(ForeignKeyFound, c.references)
           F == Report(c.collate # "none", "Collation", IF c.collate = "C" THEN Fixed ELSE Warned)
<1>1. IsSeq(A) /\ IsSeq(B) /\ IsSeq(C) /\ IsSeq(D1) /\ IsSeq(D2) /\ IsSeq(F)
  BY ReportIsSeq
<1>2. IsSeq(D3) /\ IsSeq(E)
  BY IdentitiesFoundIsSeq, ForeignKeysFoundIsSeq DEF IsColumn
<1>3. ColumnFound(c, in_alter_table) = A \o B \o C \o (IF in_alter_table THEN D1 ELSE D2 \o D3) \o E \o F
  BY DEF ColumnFound
<1> HIDE DEF A, B, C, D1, D2, D3, E, F
<1> DEFINE D == IF in_alter_table THEN D1 ELSE D2 \o D3
<1>4. IsSeq(D)
  BY <1>1, <1>2, ConcatIsSeq
<1> HIDE DEF D
<1>5. IsSeq(A \o B)
  BY <1>1, ConcatIsSeq
<1>6. IsSeq(A \o B \o C)
  BY <1>1, <1>5, ConcatIsSeq
<1>7. IsSeq(A \o B \o C \o D)
  BY <1>4, <1>6, ConcatIsSeq
<1>8. IsSeq(A \o B \o C \o D \o E)
  BY <1>2, <1>7, ConcatIsSeq
<1>9. IsSeq(A \o B \o C \o D \o E \o F)
  BY <1>1, <1>8, ConcatIsSeq
<1> QED  BY <1>3, <1>9 DEF D

LEMMA CreateTableFoundIsSeq ==
  ASSUME NEW s, IsStatement(s), s.kind = "create_table"
  PROVE  IsSeq(CreateTableFound(s))
<1> DEFINE q == SetToSeq(DOMAIN s.columns)
           columns == [k \in DOMAIN q |-> ColumnFound(s.columns[q[k]], FALSE)]
           cacheless == [k \in DOMAIN q |->
             OfEach(LAMBDA i : CacheMissingFound("IdentityCacheMissing", i.cache), s.columns[q[k]].identity)]
           clauses == [k \in DOMAIN TableClauses |->
             Report(TableClauses[k].clause \in s.clauses, TableClauses[k].rule, TableClauses[k].fix_result)]
           keys == OfEach(ForeignKeyFound, {c \in s.constraints : c.type = "foreign_key"})
<1>1. IsFiniteSet(DOMAIN s.columns) /\ IsFiniteSet(s.constraints)
      /\ \A n \in DOMAIN s.columns : IsColumn(s.columns[n])
  BY DEF IsStatement, IsCreateTable, IsTable
<1>2. IsSeq(q) /\ Range(q) = DOMAIN s.columns
  BY <1>1, SetToSeqIs
<1>3. DOMAIN q = 1..Len(q) /\ Len(q) \in Nat /\ \A k \in 1..Len(q) : q[k] \in DOMAIN s.columns
  BY <1>2, SeqFacts
<1>4. CreateTableFound(s) = FlattenSeq(columns) \o keys \o FlattenSeq(clauses) \o FlattenSeq(cacheless)
  BY DEF CreateTableFound, OfEach, InTurn
<1> HIDE DEF q
<1>5. \A k \in 1..Len(q) : IsSeq(columns[k]) /\ IsSeq(cacheless[k])
  <2> SUFFICES ASSUME NEW k \in 1..Len(q)
               PROVE  IsSeq(columns[k]) /\ IsSeq(cacheless[k])
    OBVIOUS
  <2>1. IsColumn(s.columns[q[k]])
    BY <1>1, <1>3
  <2>2. IsSeq(ColumnFound(s.columns[q[k]], FALSE))
    BY <2>1, ColumnFoundIsSeq
  <2>3. IsSeq(OfEach(LAMBDA i : CacheMissingFound("IdentityCacheMissing", i.cache), s.columns[q[k]].identity))
    BY <2>1, IdentitiesFoundIsSeq DEF IsColumn
  <2> QED  BY <1>3, <2>2, <2>3
<1>6. columns = [k \in 1..Len(q) |-> columns[k]] /\ cacheless = [k \in 1..Len(q) |-> cacheless[k]]
  BY <1>3
<1>7. IsSeq(FlattenSeq(columns)) /\ IsSeq(FlattenSeq(cacheless))
  <2> HIDE DEF columns, cacheless
  <2> QED  BY <1>3, <1>5, <1>6, FlattenIsSeq
<1>8. DOMAIN TableClauses = 1..8
  BY DEF TableClauses
<1>9. IsSeq(FlattenSeq(clauses))
  <2>1. clauses = [k \in 1..8 |-> clauses[k]] /\ \A k \in 1..8 : IsSeq(clauses[k])
    BY <1>8, ReportIsSeq
  <2> HIDE DEF clauses
  <2> QED  BY <2>1, FlattenIsSeq
<1>10. IsSeq(keys)
  <2>1. IsFiniteSet({c \in s.constraints : c.type = "foreign_key"})
    BY <1>1, FS_Subset
  <2> QED  BY <2>1, ForeignKeysFoundIsSeq
<1> HIDE DEF columns, cacheless, clauses, keys
<1>11. IsSeq(FlattenSeq(columns) \o keys)
  BY <1>7, <1>10, ConcatIsSeq
<1>12. IsSeq(FlattenSeq(columns) \o keys \o FlattenSeq(clauses))
  BY <1>9, <1>11, ConcatIsSeq
<1> QED  BY <1>4, <1>7, <1>12, ConcatIsSeq

LEMMA OperationFoundIsSeq ==
  ASSUME NEW o, o.op = "add_column" => IsColumn(o.definition), NEW async
  PROVE  IsSeq(ColumnsAndConstraints(o, async)) /\ IsSeq(AddedColumns(o)) /\ IsSeq(Operations(o))
<1>1. \A r, f : IsSeq(<<Found(r, f)>>) /\ IsSeq(<<>>)
  BY EmptyIsSeq, SingletonIsSeq
<1>2. \A c, r, f : IsSeq(Report(c, r, f))
  BY ReportIsSeq
<1>3. IsSeq(ColumnsAndConstraints(o, async))
  <2>1. IsSeq(ForeignKeyFound(o.constraint) \o Report(~o.not_valid, "ForeignKeyNotValid", Warned))
    BY ForeignKeyFoundIsSeq, ReportIsSeq, ConcatIsSeq
  <2>2. o.op = "add_column" => IsSeq(ColumnFound(o.definition, TRUE))
    BY ColumnFoundIsSeq
  <2> QED  BY <1>1, ReportIsSeq, <2>1, <2>2 DEF ColumnsAndConstraints
<1>4. IsSeq(AddedColumns(o))
  BY <1>1, ReportIsSeq, ConcatIsSeq DEF AddedColumns
<1>5. IsSeq(Operations(o))
  <2>1. IsSeq(CacheMissingFound("IdentityCacheMissing", o.cache) \o CacheFound("IdentityCache", o.cache))
    BY CacheFoundIsSeq, ConcatIsSeq
  <2> QED  BY <1>1, <2>1 DEF Operations
<1> QED  BY <1>3, <1>4, <1>5

LEMMA AlterTableFoundIsSeq ==
  ASSUME NEW s, IsStatement(s), s.kind = "alter_table"
  PROVE  IsSeq(AlterTableFound(s))
<1> DEFINE n == Len(s.ops)
           A == [k \in DOMAIN s.ops |-> ColumnsAndConstraints(s.ops[k], s.async)]
           B == [k \in DOMAIN s.ops |-> AddedColumns(s.ops[k])]
           C == [k \in DOMAIN s.ops |-> Operations(s.ops[k])]
<1>1. IsSeq(s.ops) /\ \A o \in Range(s.ops) : o.op = "add_column" => IsColumn(o.definition)
  BY DEF IsStatement, IsAlter, IsOperation, IsSeq
<1>2. n \in Nat /\ DOMAIN s.ops = 1..n /\ \A k \in 1..n : s.ops[k] \in Range(s.ops)
  BY <1>1, SeqFacts
<1>3. AlterTableFound(s) = FlattenSeq(A) \o FlattenSeq(B) \o FlattenSeq(C)
  BY DEF AlterTableFound, InTurn
<1> HIDE DEF n
<1>4. \A k \in 1..n : IsSeq(A[k]) /\ IsSeq(B[k]) /\ IsSeq(C[k])
  BY <1>1, <1>2, OperationFoundIsSeq
<1>5. /\ A = [k \in 1..n |-> A[k]] /\ B = [k \in 1..n |-> B[k]] /\ C = [k \in 1..n |-> C[k]]
  BY <1>2
<1> HIDE DEF A, B, C
<1>6. IsSeq(FlattenSeq(A)) /\ IsSeq(FlattenSeq(B)) /\ IsSeq(FlattenSeq(C))
  BY <1>2, <1>4, <1>5, FlattenIsSeq
<1>7. IsSeq(FlattenSeq(A) \o FlattenSeq(B))
  BY <1>6, ConcatIsSeq
<1> QED  BY <1>3, <1>6, <1>7, ConcatIsSeq

LEMMA CheckFoundIsSeq ==
  ASSUME NEW s, IsStatement(s)
  PROVE  IsSeq(CheckFound(s))
<1>1. \A r, f : IsSeq(<<Found(r, f)>>)
  BY SingletonIsSeq
<1>2. IsSeq(<<>>)
  BY EmptyIsSeq
<1>3. IsSeq(CreateIndexFound(s))
  <2> DEFINE A == Report(s.concurrently, "IndexConcurrently", Warned)
             B == Report(~s.concurrently /\ ~s.async, "IndexAsync", Warned)
             C == Report(s.using # "none", "IndexUsing", IF s.using = "btree" THEN Fixed ELSE Warned)
             D == Report(s.sort # "none", "IndexSortDirection", IF s.sort = "asc" THEN Fixed ELSE Warned)
             E == Report(s.volatile, "IndexVolatileFunction", Unfixable)
  <2>1. IsSeq(A) /\ IsSeq(B) /\ IsSeq(C) /\ IsSeq(D) /\ IsSeq(E)
    BY ReportIsSeq
  <2>2. CreateIndexFound(s) = A \o B \o C \o D \o E
    BY DEF CreateIndexFound
  <2> HIDE DEF A, B, C, D, E
  <2>3. IsSeq(A \o B)
    BY <2>1, ConcatIsSeq
  <2>4. IsSeq(A \o B \o C)
    BY <2>1, <2>3, ConcatIsSeq
  <2>5. IsSeq(A \o B \o C \o D)
    BY <2>1, <2>4, ConcatIsSeq
  <2> QED  BY <2>1, <2>2, <2>5, ConcatIsSeq
<1>4. IsSeq(AlterSequenceFound(s))
  BY ReportIsSeq, CacheFoundIsSeq, ConcatIsSeq DEF AlterSequenceFound, SequenceTypeFound
<1>5. IsSeq(CreateSequenceFound(s))
  BY <1>4, CacheFoundIsSeq, ConcatIsSeq DEF CreateSequenceFound
<1>6. IsSeq(StatisticsFound(s)) /\ IsSeq(TransactionFound(s))
  BY ReportIsSeq, ConcatIsSeq DEF StatisticsFound, TransactionFound
<1>7. IsSeq(UnsupportedFound(s))
  <2> DEFINE A == Report(s.temporary, "UnsupportedTempView", Warned)
             B == Report(s.collate \notin SupportedCollations, "Collation", Unfixable)
  <2>1. IsSeq(A) /\ IsSeq(B)
    BY ReportIsSeq
  <2>2. IsSeq(A \o B)
    BY <2>1, ConcatIsSeq
  <2>3. s.kind = "create_view" => UnsupportedFound(s) = A \o B
    BY DEF UnsupportedFound
  <2>4. s.kind = "query" => UnsupportedFound(s) = B
    BY DEF UnsupportedFound
  <2>5. s.kind \notin {"create_view", "query"} => UnsupportedFound(s) \in {<<>>} \cup {<<Found(r, Unfixable)>> : r \in {UnsupportedStatements[s.kind]}}
    BY DEF UnsupportedFound
  <2> HIDE DEF A, B
  <2> QED  BY <1>1, <1>2, <2>1, <2>2, <2>3, <2>4, <2>5
<1>8. s.kind = "create_table" => IsSeq(CreateTableFound(s))
  BY CreateTableFoundIsSeq
<1>9. s.kind = "alter_table" => IsSeq(AlterTableFound(s))
  BY AlterTableFoundIsSeq
<1> QED  BY <1>3, <1>4, <1>5, <1>6, <1>7, <1>8, <1>9 DEF CheckFound

------------------------------------------------------------------------------
(* What the rules make of a statement is a statement of its kind, in which  *)
(* the idioms look at the same.                                            *)

\* What the idioms look at in a statement.
AlikeOp(o, p) ==
  /\ o.op = p.op
  /\ p.op = "set_default" => o = p
  /\ p.op = "add_constraint" => o.constraint.type = p.constraint.type
  /\ p.op = "add_column" => o.definition.inline = p.definition.inline
Alike(s, t) ==
  /\ s.kind = t.kind
  /\ t.kind = "create_table" => s.table = t.table /\ DOMAIN s.columns = DOMAIN t.columns
  /\ t.kind = "create_sequence" => s.sequence = t.sequence
  /\ t.kind = "alter_table" => s.table = t.table /\ Len(s.ops) = Len(t.ops) /\ AlikeOp(s.ops[1], t.ops[1])
  /\ AddsNoInline(s) <=> AddsNoInline(t)
  /\ t.kind = "dump_identity" => s = t

LEMMA AlikeItself ==
  ASSUME NEW s
  PROVE  Alike(s, s)
BY DEF Alike, AlikeOp

LEMMA AlikeTransitive ==
  ASSUME NEW s, NEW t, NEW u, Alike(s, t), Alike(t, u)
  PROVE  Alike(s, u)
BY DEF Alike, AlikeOp

LEMMA CacheIs ==
  ASSUME NEW cache \in CacheOption
  PROVE  validate_cache_options(cache) \in CacheOption /\ cache_1_option(cache) \in CacheOption
BY DEF CacheOption, CacheExpression, validate_cache_options, cache_1_option

LEMMA IdentityCache1Is ==
  ASSUME NEW cache \in CacheOption
  PROVE  IsFiniteSet(identity_with_cache(cache)) /\ \A i \in identity_with_cache(cache) : IsIdentity(i)
<1> DEFINE i == [cache |-> cache, options |-> "default"]
<1>1. IsIdentity(i)
  BY DEF IsIdentity
<1>2. identity_with_cache(cache) = {i}
  BY DEF identity_with_cache
<1> HIDE DEF i
<1> QED  BY <1>1, <1>2, FS_Singleton

\* Caches of a set of identities, and foreign keys of a set, replaced one by one.
LEMMA CachesReplaced ==
  ASSUME NEW S, IsFiniteSet(S), \A i \in S : IsIdentity(i), NEW f, \A i \in S : f[i] \in CacheOption
  PROVE  LET new == {[i EXCEPT !.cache = f[i]] : i \in S}
         IN IsFiniteSet(new) /\ \A i \in new : IsIdentity(i)
<1> DEFINE g == [i \in S |-> [i EXCEPT !.cache = f[i]]]
           new == {[i EXCEPT !.cache = f[i]] : i \in S}
<1>1. new = {g[i] : i \in S}
  OBVIOUS
<1>2. \A i \in new : IsIdentity(i)
  BY DEF IsIdentity
<1> HIDE DEF g, new
<1>3. IsFiniteSet({g[i] : i \in S})
  BY ImageIsFinite
<1> QED  BY <1>1, <1>2, <1>3 DEF new

LEMMA ForeignKeysReplaced ==
  ASSUME NEW S, IsFiniteSet(S), \A f \in S : IsForeignKey(f)
  PROVE  LET new == {check_foreign_key(f) : f \in S}
         IN IsFiniteSet(new) /\ \A f \in new : IsForeignKey(f)
<1> DEFINE g == [f \in S |-> check_foreign_key(f)]
           new == {check_foreign_key(f) : f \in S}
<1>1. new = {g[f] : f \in S}
  OBVIOUS
<1>2. \A f \in new : IsForeignKey(f)
  BY DEF IsForeignKey, check_foreign_key
<1> HIDE DEF g, new
<1>3. IsFiniteSet({g[f] : f \in S})
  BY ImageIsFinite
<1> QED  BY <1>1, <1>2, <1>3 DEF new

LEMMA IdentityColumnIs ==
  ASSUME NEW c, IsColumn(c)
  PROVE  IsColumn(IdentityColumn(c))
<1> DEFINE f == [i \in c.identity |-> validate_cache_options(i.cache)]
           cached == {[i EXCEPT !.cache = validate_cache_options(@)] : i \in c.identity}
           new == IF c.type = "serial" THEN identity_cache_1 ELSE cached
<1>1. cached = {[i EXCEPT !.cache = f[i]] : i \in c.identity} /\ \A i \in c.identity : f[i] \in CacheOption
  BY CacheIs DEF IsColumn, IsIdentity
<1> HIDE DEF f
<1>2. IsFiniteSet(cached) /\ \A i \in cached : IsIdentity(i)
  <2> DEFINE put == {[i EXCEPT !.cache = f[i]] : i \in c.identity}
  <2>1. IsFiniteSet(c.identity) /\ \A i \in c.identity : IsIdentity(i) /\ f[i] \in CacheOption
    BY <1>1 DEF IsColumn
  <2>2. IsFiniteSet(put) /\ \A i \in put : IsIdentity(i)
    BY <2>1, CachesReplaced
  <2> HIDE DEF put, cached
  <2> QED  BY <1>1, <2>2 DEF put
<1>3. IsFiniteSet(new) /\ \A i \in new : IsIdentity(i)
  <2> HIDE DEF cached
  <2> QED  BY <1>2, IdentityCache1Is DEF identity_cache_1, CacheOption, CacheExpression
<1>4. IdentityColumn(c) = [c EXCEPT !.type = "bigint", !.identity = new]
  BY DEF IdentityColumn
<1> HIDE DEF new
<1>5. "bigint" \in ColumnTypes
  BY DEF ColumnTypes, Numeric
<1> QED  BY <1>3, <1>4, <1>5 DEF IsColumn

LEMMA CheckColumnIs ==
  ASSUME NEW c, IsColumn(c), NEW in_alter_table
  PROVE  IsColumn(check_column(c, in_alter_table))
<1> DEFINE typed == IF in_alter_table \/ (c.type # "serial" /\ c.identity = {}) THEN c ELSE IdentityColumn(c)
           keys == {check_foreign_key(r) : r \in typed.references}
<1>1. IsColumn(typed)
  BY IdentityColumnIs
<1>2. check_column(c, in_alter_table) = [typed EXCEPT !.collate = "none", !.references = keys]
  BY DEF check_column
<1> HIDE DEF typed
<1>3. IsFiniteSet(keys) /\ \A f \in keys : IsForeignKey(f)
  BY <1>1, ForeignKeysReplaced DEF IsColumn
<1> HIDE DEF keys
<1> QED  BY <1>1, <1>2, <1>3 DEF IsColumn

LEMMA CacheMissingIs ==
  ASSUME NEW c, IsColumn(c)
  PROVE  IsColumn(check_identity_cache_missing(c))
<1> DEFINE f == [i \in c.identity |-> cache_1_option(i.cache)]
           cached == {[i EXCEPT !.cache = cache_1_option(@)] : i \in c.identity}
<1>1. cached = {[i EXCEPT !.cache = f[i]] : i \in c.identity} /\ \A i \in c.identity : f[i] \in CacheOption
  BY CacheIs DEF IsColumn, IsIdentity
<1> HIDE DEF f
<1>2. IsFiniteSet(cached) /\ \A i \in cached : IsIdentity(i)
  <2> DEFINE new == {[i EXCEPT !.cache = f[i]] : i \in c.identity}
  <2>1. IsFiniteSet(c.identity) /\ \A i \in c.identity : IsIdentity(i) /\ f[i] \in CacheOption
    BY <1>1 DEF IsColumn
  <2>2. IsFiniteSet(new) /\ \A i \in new : IsIdentity(i)
    BY <2>1, CachesReplaced
  <2> HIDE DEF new, cached
  <2> QED  BY <1>1, <2>2 DEF new
<1>3. check_identity_cache_missing(c) = [c EXCEPT !.identity = cached]
  BY DEF check_identity_cache_missing
<1> HIDE DEF cached
<1> QED  BY <1>2, <1>3 DEF IsColumn

LEMMA CheckConstraintIs ==
  ASSUME NEW c, IsConstraint(c)
  PROVE  IsConstraint(check_constraint(c)) /\ check_constraint(c).type = c.type
BY DEF IsConstraint, IsForeignKey, check_constraint, check_foreign_key

\* The fields of a CREATE TABLE.
LEMMA TableFacts ==
  ASSUME NEW s, IsStatement(s), s.kind = "create_table"
  PROVE  /\ {"kind", "table", "columns", "constraints", "clauses"} \subseteq DOMAIN s
         /\ IsFiniteSet(DOMAIN s.columns) /\ IsFiniteSet(s.constraints)
         /\ \A n \in DOMAIN s.columns : IsColumn(s.columns[n])
         /\ \A c \in s.constraints : IsConstraint(c)
         /\ s.clauses \subseteq ClauseNames
BY DEF IsStatement, IsCreateTable, IsTable

\* A CREATE TABLE of the same table, with other columns of the same names.
LEMMA TableLike ==
  ASSUME NEW s, IsStatement(s), s.kind = "create_table",
         NEW new, DOMAIN new = DOMAIN s, new.kind = s.kind, new.table = s.table,
         DOMAIN new.columns = DOMAIN s.columns, \A n \in DOMAIN new.columns : IsColumn(new.columns[n]),
         IsFiniteSet(new.constraints), \A c \in new.constraints : IsConstraint(c),
         new.clauses \subseteq s.clauses
  PROVE  IsStatement(new) /\ Alike(new, s)
BY TableFacts DEF IsStatement, IsCreateTable, IsTable, Alike, AddsNoInline

LEMMA CheckCreateTableIs ==
  ASSUME NEW s, IsStatement(s), s.kind = "create_table"
  PROVE  IsStatement(check_create_table(s)) /\ Alike(check_create_table(s), s)
<1> DEFINE columns == [n \in DOMAIN s.columns |-> check_identity_cache_missing(check_column(s.columns[n], FALSE))]
           f == [c \in s.constraints |-> check_constraint(c)]
           constraints == {check_constraint(c) : c \in s.constraints}
           clauses == s.clauses \ {t.clause : t \in {t \in Range(TableClauses) : t.fix_result = Warned}}
           new == [s EXCEPT !.columns = columns, !.constraints = constraints, !.clauses = clauses]
<1>1. /\ {"kind", "table", "columns", "constraints", "clauses"} \subseteq DOMAIN s
      /\ IsFiniteSet(DOMAIN s.columns) /\ IsFiniteSet(s.constraints)
      /\ \A n \in DOMAIN s.columns : IsColumn(s.columns[n])
      /\ \A c \in s.constraints : IsConstraint(c)
  BY TableFacts
<1>2. check_create_table(s) = new
  BY DEF check_create_table
<1>3. IsFiniteSet({f[c] : c \in s.constraints})
  <2> HIDE DEF f
  <2> QED  BY <1>1, ImageIsFinite
<1>4. constraints = {f[c] : c \in s.constraints} /\ \A c \in constraints : IsConstraint(c)
  BY <1>1, CheckConstraintIs
<1>5. DOMAIN columns = DOMAIN s.columns /\ \A n \in DOMAIN columns : IsColumn(columns[n])
  BY <1>1, CheckColumnIs, CacheMissingIs
<1>6. clauses \subseteq s.clauses
  OBVIOUS
<1> HIDE DEF columns, constraints, clauses, f
<1>7. /\ DOMAIN new = DOMAIN s /\ new.kind = s.kind /\ new.table = s.table
      /\ new.columns = columns /\ new.constraints = constraints /\ new.clauses = clauses
  BY <1>1
<1> HIDE DEF new
<1> QED  BY <1>2, <1>3, <1>4, <1>5, <1>7, <1>6, TableLike

LEMMA AlteredOperationIs ==
  ASSUME NEW o, IsOperation(o)
  PROVE  IsOperation(AlteredOperation(o)) /\ AlikeOp(AlteredOperation(o), o)
<1>1. CASE o.op = "add_column"
  <2> DEFINE new == [o EXCEPT !.definition = check_column(o.definition, TRUE)]
  <2>1. AlteredOperation(o) = new
    BY <1>1 DEF AlteredOperation, AddsConstraint
  <2>2. IsColumn(check_column(o.definition, TRUE))
    BY <1>1, CheckColumnIs DEF IsOperation
  <2>3. DOMAIN new = DOMAIN o /\ new.op = o.op /\ new.definition = check_column(o.definition, TRUE)
    BY <1>1 DEF IsOperation
  <2>4. check_column(o.definition, TRUE).inline = o.definition.inline
    BY <1>1 DEF check_column, IsOperation, IsColumn
  <2> HIDE DEF new
  <2> QED  BY <1>1, <2>1, <2>2, <2>3, <2>4 DEF IsOperation, AlikeOp
<1>2. CASE AddsConstraint(o, {"foreign_key", "check"})
  <2> DEFINE new == [o EXCEPT !.constraint = check_constraint(o.constraint), !.not_valid = TRUE]
  <2>1. AlteredOperation(o) = new
    BY <1>2 DEF AlteredOperation, AddsConstraint
  <2>2. o.op = "add_constraint" /\ IsConstraint(o.constraint) /\ {"op", "constraint", "not_valid"} \subseteq DOMAIN o
    BY <1>2 DEF AddsConstraint, IsOperation
  <2>3. DOMAIN new = DOMAIN o /\ new.op = o.op /\ new.constraint = check_constraint(o.constraint)
    BY <2>2
  <2> HIDE DEF new
  <2> QED  BY <2>1, <2>2, <2>3, CheckConstraintIs DEF IsOperation, AlikeOp
<1>3. CASE o.op = "add_identity"
  <2> DEFINE cache == cache_1_option(validate_cache_options(o.cache))
             new == [o EXCEPT !.cache = cache]
  <2>1. AlteredOperation(o) = new
    BY <1>3 DEF AlteredOperation, AddsConstraint
  <2>2. {"op", "cache"} \subseteq DOMAIN o /\ cache \in CacheOption
    BY <1>3, CacheIs DEF IsOperation, IsIdentity
  <2> HIDE DEF cache
  <2>3. DOMAIN new = DOMAIN o /\ new.op = o.op /\ new.cache = cache
    BY <2>2
  <2> HIDE DEF new
  <2> QED  BY <1>3, <2>1, <2>2, <2>3 DEF IsOperation, IsIdentity, AlikeOp
<1>4. CASE o.op \notin {"add_column", "add_identity"} /\ ~AddsConstraint(o, {"foreign_key", "check"})
  <2>1. AlteredOperation(o) = o
    BY <1>4 DEF AlteredOperation
  <2> QED  BY <2>1 DEF AlikeOp
<1> QED  BY <1>1, <1>2, <1>3, <1>4

LEMMA CheckAlterTableIs ==
  ASSUME NEW s, IsStatement(s), s.kind = "alter_table"
  PROVE  IsStatement(check_alter_table(s)) /\ Alike(check_alter_table(s), s)
<1> DEFINE n == Len(s.ops)
           ops == [k \in DOMAIN s.ops |-> AlteredOperation(s.ops[k])]
           async == s.async \/ \E k \in DOMAIN s.ops : s.ops[k].op = "validate_constraint"
           new == [s EXCEPT !.ops = ops, !.async = async]
<1>1. /\ {"kind", "table", "ops", "async"} \subseteq DOMAIN s
      /\ IsSeq(s.ops) /\ n > 0 /\ \A o \in Range(s.ops) : IsOperation(o)
  BY DEF IsStatement, IsAlter, IsSeq
<1>2. n \in Nat /\ DOMAIN s.ops = 1..n /\ \A k \in 1..n : s.ops[k] \in Range(s.ops)
  BY <1>1, SeqFacts
<1>3. check_alter_table(s) = new
  BY DEF check_alter_table
<1> HIDE DEF n
<1>4. \A k \in 1..n : IsOperation(ops[k]) /\ AlikeOp(ops[k], s.ops[k])
  BY <1>1, <1>2, AlteredOperationIs
<1>5. ops = [k \in 1..n |-> ops[k]]
  BY <1>2
<1> HIDE DEF ops, async
<1>6. IsSeq(ops) /\ Len(ops) = n
  BY <1>2, <1>5, FunctionIsSeq
<1>7. \A o \in Range(ops) : IsOperation(o)
  BY <1>4, <1>6, SeqFacts
<1>8. DOMAIN new = DOMAIN s /\ new.ops = ops /\ new.kind = s.kind /\ new.table = s.table
  BY <1>1
<1> HIDE DEF new
<1>9. IsAlter(new)
  BY <1>1, <1>6, <1>7, <1>8 DEF IsAlter, IsSeq
<1>10. AlikeOp(ops[1], s.ops[1])
  BY <1>1, <1>2, <1>4
<1>11. IsStatement(new)
  BY <1>1, <1>8, <1>9 DEF IsStatement
<1>12. AddsNoInline(new) <=> AddsNoInline(s)
  <2>1. DOMAIN ops = 1..n
    BY <1>5
  <2> QED  BY <1>2, <1>4, <1>8, <2>1 DEF AddsNoInline, AlikeOp
<1>13. Alike(new, s)
  BY <1>6, <1>8, <1>10, <1>12 DEF Alike, n
<1> QED  BY <1>3, <1>11, <1>13

LEMMA CheckSequenceIs ==
  ASSUME NEW s, IsStatement(s), s.kind \in {"create_sequence", "alter_sequence"}
  PROVE  IsStatement(check(s)) /\ Alike(check(s), s)
<1> DEFINE type == check_sequence_type(s.type)
           cache == IF s.kind = "create_sequence" THEN cache_1_option(validate_cache_options(s.cache))
                    ELSE validate_cache_options(s.cache)
           new == [s EXCEPT !.type = type, !.cache = cache]
<1>1. check(s) = new
  BY DEF check, check_create_sequence, check_alter_sequence
<1>2. {"kind", "sequence", "type", "cache"} \subseteq DOMAIN s /\ s.cache \in CacheOption
  BY DEF IsStatement, IsSequence, IsIdentity
<1>3. cache \in CacheOption
  BY <1>2, CacheIs
<1> HIDE DEF type, cache
<1>4. DOMAIN new = DOMAIN s /\ new.kind = s.kind /\ new.sequence = s.sequence /\ new.cache = cache
  BY <1>2
<1> HIDE DEF new
<1> QED  BY <1>1, <1>2, <1>3, <1>4 DEF IsStatement, IsSequence, IsIdentity, Alike, AddsNoInline

Plain == {"create_index", "alter_statistics", "begin", "set_session", "create_view"}
LEMMA CheckIs ==
  ASSUME NEW s, IsStatement(s)
  PROVE  IsStatement(check(s)) /\ Alike(check(s), s)
<1>1. CASE s.kind = "create_table"
  BY <1>1, CheckCreateTableIs DEF check
<1>2. CASE s.kind = "alter_table"
  BY <1>2, CheckAlterTableIs DEF check
<1>3. CASE s.kind \in {"create_sequence", "alter_sequence"}
  BY <1>3, CheckSequenceIs
<1>4. CASE s.kind \in Plain
  <2> DEFINE A == [s EXCEPT !.concurrently = FALSE, !.async = TRUE, !.using = "none", !.sort = "none"]
             D == [s EXCEPT !.target = IF @ = StatisticsDefault THEN "in_range" ELSE @]
             E == [s EXCEPT !.level = IF @ = "none" THEN @ ELSE "repeatable_read"]
             F == [s EXCEPT !.temporary = FALSE]
  <2>1. check(s) \in {A, D, E, F}
    BY <1>4 DEF check, check_create_index, check_statistics_target, check_transaction_isolation, Plain
  <2>2. "kind" \in DOMAIN s
    BY DEF IsStatement
  <2>3. /\ DOMAIN A = DOMAIN s /\ A.kind = s.kind
        /\ DOMAIN D = DOMAIN s /\ D.kind = s.kind
        /\ DOMAIN E = DOMAIN s /\ E.kind = s.kind
        /\ DOMAIN F = DOMAIN s /\ F.kind = s.kind
    BY <2>2
  <2> HIDE DEF A, D, E, F
  <2>4. DOMAIN check(s) = DOMAIN s /\ check(s).kind = s.kind
    BY <2>1, <2>2, <2>3
  <2>5. s.kind = "alter_statistics" => check(s).target \in {StatisticsDefault, "in_range", "out_of_range"}
    BY <2>2 DEF IsStatement, check, check_statistics_target
  <2>6. IsStatement(check(s))
    BY <1>4, <2>4, <2>5 DEF IsStatement, Plain
  <2> QED  BY <1>4, <2>4, <2>6 DEF Alike, AddsNoInline, Plain
<1>5. CASE s.kind \notin {"create_table", "alter_table", "create_sequence", "alter_sequence"} \cup Plain
  <2>1. check(s) = s
    BY <1>5 DEF check, Plain
  <2> QED  BY <2>1 DEF Alike, AlikeOp
<1> QED  BY <1>1, <1>2, <1>3, <1>4, <1>5

------------------------------------------------------------------------------
(* What a pass makes of the parts, and where its diagnostics point.        *)

IsPart(p) == DOMAIN p = {"line", "stmt"} /\ IsStatement(p.stmt)
IsParts(ps) == IsSeq(ps) /\ \A k \in 1..Len(ps) : IsPart(ps[k])
SameHead(p, q) == p.line = q.line /\ Alike(p.stmt, q.stmt)

\* q has the parts of ps, with their lines and alike, in their order; those at D
\* are gone.
Rewrites(q, ps, D) ==
  /\ IsParts(q)
  /\ \E e \in [1..Len(q) -> 1..Len(ps)] :
       /\ \A j \in 1..Len(q) : SameHead(q[j], ps[e[j]]) /\ e[j] \notin D
       /\ \A j, k \in 1..Len(q) : j < k => e[j] < e[k]
       /\ \A i \in 1..Len(ps) : i \notin D => \E j \in 1..Len(q) : e[j] = i

DiagnosticsOf(ds, ps) ==
  IsSeq(ds) /\ \A k \in 1..Len(ds) : \E i \in 1..Len(ps) : ds[k].line = ps[i].line

LEMMA PartsFacts ==
  ASSUME NEW ps, IsParts(ps)
  PROVE  Len(ps) \in Nat /\ DOMAIN ps = 1..Len(ps)
BY SeqFacts DEF IsParts

LEMMA Identically ==
  ASSUME NEW ps, IsParts(ps), NEW q, IsParts(q), Len(q) = Len(ps), \A k \in 1..Len(ps) : SameHead(q[k], ps[k])
  PROVE  Rewrites(q, ps, {})
<1> DEFINE e == [j \in 1..Len(q) |-> j]
<1>1. Len(ps) \in Nat
  BY PartsFacts
<1>2. /\ e \in [1..Len(q) -> 1..Len(ps)]
      /\ \A j \in 1..Len(q) : SameHead(q[j], ps[e[j]]) /\ e[j] \notin {}
      /\ \A j, k \in 1..Len(q) : j < k => e[j] < e[k]
      /\ \A i \in 1..Len(ps) : i \notin {} => \E j \in 1..Len(q) : e[j] = i
  BY <1>1
<1> HIDE DEF e
<1> QED  BY <1>2 DEF Rewrites

\* Statements are rewritten, then some are dropped.
LEMMA DroppedAfter ==
  ASSUME NEW ps, IsParts(ps), NEW mid, IsParts(mid), Len(mid) = Len(ps),
         \A k \in 1..Len(ps) : SameHead(mid[k], ps[k]), NEW indices
  PROVE  Rewrites(drop_parts(mid, indices), ps, Range(indices))
<1> DEFINE q == drop_parts(mid, indices)
           D == Range(indices)
<1>1. Retains(q, mid, D)
  BY DropPartsIs DEF IsParts
<1> HIDE DEF q, D
<1>2. PICK e \in [1..Len(q) -> 1..Len(mid)] :
        /\ \A j \in 1..Len(q) : q[j] = mid[e[j]] /\ e[j] \notin D
        /\ \A j, k \in 1..Len(q) : j < k => e[j] < e[k]
        /\ \A i \in 1..Len(mid) : i \notin D => \E j \in 1..Len(q) : e[j] = i
  BY <1>1 DEF Retains
<1>3. \A j \in 1..Len(q) : e[j] \in 1..Len(mid) /\ e[j] \in 1..Len(ps)
  BY <1>2
<1>4. IsParts(q)
  BY <1>1, <1>2, <1>3 DEF Retains, IsParts
<1>5. \A j \in 1..Len(q) : SameHead(q[j], ps[e[j]]) /\ e[j] \notin D
  BY <1>2, <1>3
<1>6. Rewrites(q, ps, D)
  BY <1>2, <1>4, <1>5 DEF Rewrites
<1> QED  BY <1>6 DEF q, D

\* A diagnostic of each part, or several.
LEMMA FlattenedDiagnostics ==
  ASSUME NEW ps, IsParts(ps), NEW n \in Nat, NEW seqs, seqs = [k \in 1..n |-> seqs[k]],
         \A k \in 1..n : IsSeq(seqs[k]) /\ \A d \in Range(seqs[k]) : \E i \in 1..Len(ps) : d.line = ps[i].line
  PROVE  /\ DiagnosticsOf(FlattenSeq(seqs), ps)
         /\ \A k \in 1..n : Range(seqs[k]) \subseteq Range(FlattenSeq(seqs))
<1> DEFINE flat == FlattenSeq(seqs)
<1>1. IsSeq(seqs) /\ Len(seqs) = n
  BY FunctionIsSeq
<1>2. Flattened(flat, n, seqs)
  BY <1>1, FlattenSeqIs
<1> HIDE DEF flat
<1>3. PICK b \in [1..Len(flat) -> 1..n] : \A j \in 1..Len(flat) : flat[j] \in Range(seqs[b[j]])
  BY <1>2 DEF Flattened
<1>4. \A j \in 1..Len(flat) : b[j] \in 1..n
  BY <1>3
<1>5. \A j \in 1..Len(flat) : \E i \in 1..Len(ps) : flat[j].line = ps[i].line
  BY <1>3, <1>4
<1>6. IsSeq(flat) /\ \A k \in 1..n : Range(seqs[k]) \subseteq Range(flat)
  BY <1>2 DEF Flattened
<1> QED  BY <1>5, <1>6 DEF DiagnosticsOf, flat

------------------------------------------------------------------------------
(* The rules, part by part.                                                *)

LEMMA CheckStatementIs ==
  ASSUME NEW p, IsPart(p)
  PROVE  /\ IsPart(check_statement(p)) /\ SameHead(check_statement(p), p)
         /\ IsSeq(StatementFound(p)) /\ \A d \in Range(StatementFound(p)) : d.line = p.line
         /\ p.stmt.kind = "unparsable" => \E d \in Range(StatementFound(p)) : d.fix_result = Unfixable
<1> DEFINE found == IF Parses(p.stmt) THEN CheckFound(p.stmt) ELSE <<Found("ParseError", Unfixable)>>
           ds == [k \in DOMAIN found |-> Diagnostic(found[k].rule, p.line, found[k].fix_result)]
<1>1. IsStatement(check(p.stmt)) /\ Alike(check(p.stmt), p.stmt) /\ Alike(p.stmt, p.stmt)
  BY CheckIs, AlikeItself DEF IsPart
<1>2. IsPart(check_statement(p)) /\ SameHead(check_statement(p), p)
  <2> DEFINE new == [p EXCEPT !.stmt = check(p.stmt)]
  <2>1. DOMAIN new = {"line", "stmt"} /\ new.line = p.line /\ new.stmt = check(p.stmt)
    BY DEF IsPart
  <2>2. check_statement(p) \in {new, p}
    BY DEF check_statement
  <2> HIDE DEF new
  <2> QED  BY <1>1, <2>1, <2>2 DEF IsPart, SameHead
<1>3. IsSeq(found)
  BY CheckFoundIsSeq, SingletonIsSeq DEF IsPart
<1>4. StatementFound(p) = ds
  BY DEF StatementFound
<1>5. DOMAIN found = 1..Len(found) /\ Len(found) \in Nat
  BY <1>3, SeqFacts
<1>6. p.stmt.kind = "unparsable" => found = <<Found("ParseError", Unfixable)>>
  BY DEF Parses
<1> HIDE DEF found
<1>7. IsSeq(ds) /\ DOMAIN ds = 1..Len(found)
  <2>1. ds = [k \in 1..Len(found) |-> ds[k]]
    BY <1>5
  <2> HIDE DEF ds
  <2> QED  BY <1>5, <2>1, FunctionIsSeq
<1>8. \A d \in Range(ds) : d.line = p.line
  BY DEF Range, Diagnostic
<1>9. p.stmt.kind = "unparsable" => \E d \in Range(ds) : d.fix_result = Unfixable
  <2> SUFFICES ASSUME p.stmt.kind = "unparsable"
               PROVE  \E d \in Range(ds) : d.fix_result = Unfixable
    OBVIOUS
  <2>1. 1 \in DOMAIN found /\ found[1] = Found("ParseError", Unfixable)
    BY <1>6
  <2>2. ds[1].fix_result = Unfixable /\ ds[1] \in Range(ds)
    BY <2>1 DEF Range, Diagnostic, Found
  <2> QED  BY <2>2
<1> HIDE DEF ds
<1> QED  BY <1>2, <1>4, <1>7, <1>8, <1>9

\* check_statements keeps every part, and reports what does not parse.
LEMMA CheckStatementsIs ==
  ASSUME NEW ps, IsParts(ps)
  PROVE  LET result == check_statements(ps)
         IN /\ Rewrites(result.parts, ps, {})
            /\ DiagnosticsOf(result.diagnostics, ps)
            /\ \A i \in 1..Len(ps) : ps[i].stmt.kind = "unparsable" =>
                 \E d \in Range(result.diagnostics) : d.fix_result = Unfixable /\ d.line = ps[i].line
<1> DEFINE n == Len(ps)
           q == [k \in DOMAIN ps |-> check_statement(ps[k])]
           seqs == [k \in DOMAIN ps |-> StatementFound(ps[k])]
<1>1. n \in Nat /\ DOMAIN ps = 1..n
  BY PartsFacts
<1>2. check_statements(ps).parts = q /\ check_statements(ps).diagnostics = FlattenSeq(seqs)
  BY DEF check_statements, Result
<1> HIDE DEF n
<1>3. ASSUME NEW k \in 1..n
      PROVE  /\ IsPart(q[k]) /\ SameHead(q[k], ps[k])
             /\ IsSeq(seqs[k]) /\ \A d \in Range(seqs[k]) : d.line = ps[k].line
             /\ ps[k].stmt.kind = "unparsable" => \E d \in Range(seqs[k]) : d.fix_result = Unfixable
  <2>1. IsPart(ps[k])
    BY DEF IsParts, n
  <2>2. q[k] = check_statement(ps[k]) /\ seqs[k] = StatementFound(ps[k])
    BY <1>1
  <2> HIDE DEF q, seqs
  <2> QED  BY <2>1, <2>2, CheckStatementIs
<1>4. q = [k \in 1..n |-> q[k]] /\ seqs = [k \in 1..n |-> seqs[k]]
  BY <1>1
<1> HIDE DEF q, seqs
<1>5. IsSeq(q) /\ Len(q) = n
  BY <1>1, <1>4, FunctionIsSeq
<1>6. IsParts(q)
  BY <1>3, <1>5 DEF IsParts
<1>7. Rewrites(q, ps, {})
  BY <1>3, <1>5, <1>6, Identically DEF n
<1>8. \A k \in 1..n : IsSeq(seqs[k]) /\ \A d \in Range(seqs[k]) : \E i \in 1..Len(ps) : d.line = ps[i].line
  BY <1>3 DEF n
<1>9. /\ DiagnosticsOf(FlattenSeq(seqs), ps)
      /\ \A k \in 1..n : Range(seqs[k]) \subseteq Range(FlattenSeq(seqs))
  BY <1>1, <1>4, <1>8, FlattenedDiagnostics
<1>10. ASSUME NEW i \in 1..n, ps[i].stmt.kind = "unparsable"
       PROVE  \E d \in Range(FlattenSeq(seqs)) : d.fix_result = Unfixable /\ d.line = ps[i].line
  <2>1. PICK d \in Range(seqs[i]) : d.fix_result = Unfixable
    BY <1>3, <1>10
  <2> QED  BY <1>3, <1>9, <2>1
<1> QED  BY <1>2, <1>7, <1>9, <1>10 DEF n

------------------------------------------------------------------------------
(* The idioms that are found, and the tables they are folded into.         *)

LEMMA OfKindIs ==
  ASSUME NEW ps, IsParts(ps), NEW kind
  PROVE  OfKind(ps, kind) \subseteq 1..Len(ps) /\ \A i \in OfKind(ps, kind) : ps[i].stmt.kind = kind
BY PartsFacts DEF OfKind

LEMMA PickIs ==
  ASSUME NEW n \in Nat, NEW refs, DOMAIN refs \subseteq 1..n, NEW target
  PROVE  \/ /\ pick_best_match(refs, target) = {}
            /\ \A x \in DOMAIN refs : ~refs_match(refs[x], target)
         \/ \E x \in DOMAIN refs : pick_best_match(refs, target) = {x} /\ refs_match(refs[x], target)
<1> DEFINE matches == {i \in DOMAIN refs : refs_match(refs[i], target)}
           exact == {i \in matches : refs[i].schema # NoSchema /\ target.schema # NoSchema}
<1>1. ASSUME NEW S \in SUBSET DOMAIN refs, S # {}
      PROVE  Min(S) \in S
  <2>1. S \in SUBSET Nat
    OBVIOUS
  <2>2. \E x \in S : \A y \in S : x <= y
    BY <1>1, <2>1, LeastNatural
  <2> QED  BY <2>2 DEF Min
<1>2. exact \in SUBSET matches /\ matches \in SUBSET DOMAIN refs
  OBVIOUS
<1>3. pick_best_match(refs, target) = IF exact # {} THEN {Min(exact)} ELSE IF matches # {} THEN {Min(matches)} ELSE {}
  BY DEF pick_best_match
<1>4. \A x \in DOMAIN refs : x \in matches <=> refs_match(refs[x], target)
  OBVIOUS
<1> HIDE DEF matches, exact
<1>5. CASE matches = {}
  BY <1>2, <1>3, <1>4, <1>5
<1>6. CASE matches # {}
  <2>1. \E x \in matches : pick_best_match(refs, target) = {x}
    BY <1>1, <1>2, <1>3, <1>6
  <2> QED  BY <1>2, <1>4, <2>1
<1> QED  BY <1>5, <1>6

\* The elements of the sets of these places, and no other.
Findings(flat, n, places, sets) ==
  /\ IsSeq(flat)
  /\ \A d \in Range(flat) : \E i \in 1..n : i \in places /\ d \in sets[i]
  /\ \A i \in 1..n : i \in places => sets[i] \subseteq Range(flat)

LEMMA FoundIs ==
  ASSUME NEW n \in Nat, NEW alters, NEW sets, NEW seqs,
         seqs = [i \in 1..n |-> IF i \in alters THEN SetToSeq(sets[i]) ELSE <<>>],
         \A i \in 1..n : i \in alters => IsFiniteSet(sets[i])
  PROVE  Findings(FlattenSeq(seqs), n, alters, sets)
<1> DEFINE flat == FlattenSeq(seqs)
<1>1. ASSUME NEW i \in 1..n
      PROVE  /\ IsSeq(seqs[i]) /\ \A d \in Range(seqs[i]) : i \in alters /\ d \in sets[i]
             /\ i \in alters => Range(seqs[i]) = sets[i]
  <2>1. i \in alters => IsSeq(SetToSeq(sets[i])) /\ Range(SetToSeq(sets[i])) = sets[i]
    BY SetToSeqIs
  <2> QED  BY <2>1, EmptyIsSeq
<1>2. seqs = [i \in 1..n |-> seqs[i]]
  BY Zenon
<1>3. IsSeq(seqs) /\ Len(seqs) = n
  BY <1>2, FunctionIsSeq
<1>4. Flattened(flat, n, seqs)
  BY <1>1, <1>3, FlattenSeqIs
<1> HIDE DEF flat
<1>5. PICK b \in [1..Len(flat) -> 1..n] : \A j \in 1..Len(flat) : flat[j] \in Range(seqs[b[j]])
  BY <1>4 DEF Flattened
<1>6. IsSeq(flat)
  BY <1>4 DEF Flattened
<1>7. ASSUME NEW d \in Range(flat)
      PROVE  \E i \in 1..n : i \in alters /\ d \in sets[i]
  <2>1. PICK j \in 1..Len(flat) : flat[j] = d
    BY <1>6, SeqFacts
  <2>2. b[j] \in 1..n /\ d \in Range(seqs[b[j]])
    BY <1>5, <2>1
  <2> QED  BY <1>1, <2>2
<1>8. \A i \in 1..n : i \in alters => sets[i] \subseteq Range(flat)
  BY <1>1, <1>4 DEF Flattened
<1> QED  BY <1>6, <1>7, <1>8 DEF flat, Findings

\* A sole operation of an ALTER TABLE.
LEMMA SoleOpIs ==
  ASSUME NEW ps, IsParts(ps), NEW op
  PROVE  /\ SoleOp(ps, op) \subseteq 1..Len(ps)
         /\ \A i \in SoleOp(ps, op) : ps[i].stmt.kind = "alter_table" /\ IsOperation(ps[i].stmt.ops[1]) /\ ps[i].stmt.ops[1].op = op
<1> SUFFICES ASSUME NEW i \in SoleOp(ps, op)
             PROVE  /\ i \in 1..Len(ps)
                    /\ ps[i].stmt.kind = "alter_table" /\ IsOperation(ps[i].stmt.ops[1]) /\ ps[i].stmt.ops[1].op = op
  OBVIOUS
<1>1. i \in 1..Len(ps) /\ ps[i].stmt.kind = "alter_table" /\ Len(ps[i].stmt.ops) = 1 /\ ps[i].stmt.ops[1].op = op
  BY OfKindIs DEF SoleOp
<1>2. IsAlter(ps[i].stmt)
  BY <1>1 DEF IsParts, IsPart, IsStatement
<1>3. ps[i].stmt.ops[1] \in Range(ps[i].stmt.ops)
  <2>1. IsSeq(ps[i].stmt.ops)
    BY <1>2 DEF IsAlter, IsSeq
  <2> QED  BY <1>1, <2>1, SeqFacts
<1> QED  BY <1>1, <1>2, <1>3 DEF IsAlter

\* An idiom's ALTER TABLE or identity, with the statements that it goes with.
SerialTable(ps, i, t) ==
  /\ ps[i].stmt.ops[1].column \in DOMAIN ps[t].stmt.columns
  /\ refs_match(ps[t].stmt.table, ps[i].stmt.table)
SerialAt(ps, i) ==
  /\ i \in SoleOp(ps, "set_default")
  /\ \E t \in OfKind(ps, "create_table") : SerialTable(ps, i, t)
  /\ \E s \in OfKind(ps, "create_sequence") : refs_match(ps[s].stmt.sequence, ps[i].stmt.ops[1].sequence)
ConstraintAt(ps, type, i) ==
  /\ i \in SoleOp(ps, "add_constraint") /\ ps[i].stmt.ops[1].constraint.type = type
  /\ \E t \in OfKind(ps, "create_table") : t < i /\ refs_match(ps[t].stmt.table, ps[i].stmt.table)
IdentityAt(ps, i) ==
  /\ i \in OfKind(ps, "dump_identity")
  /\ \E t \in OfKind(ps, "create_table") :
       /\ t < i /\ refs_match(ps[t].stmt.table, ps[i].stmt.table)
       /\ ps[i].stmt.column \in DOMAIN ps[t].stmt.columns

IsSerialIdiom(ps, d) ==
  /\ d.table \in 1..Len(ps) /\ ps[d.table].stmt.kind = "create_table"
  /\ d.sequence \in 1..Len(ps) /\ ps[d.sequence].stmt.kind = "create_sequence"
  /\ d.alter \in 1..Len(ps) /\ ps[d.alter].stmt.kind = "alter_table"

LEMMA DetectSerialIs ==
  ASSUME NEW ps, IsParts(ps)
  PROVE  /\ IsSeq(detect_serial_idioms(ps))
         /\ \A d \in Range(detect_serial_idioms(ps)) : IsSerialIdiom(ps, d) /\ SerialAt(ps, d.alter)
         /\ \A i : SerialAt(ps, i) => \E d \in Range(detect_serial_idioms(ps)) : d.alter = i
<1> DEFINE n == Len(ps)
           named(i) ==
             [k \in {k \in OfKind(ps, "create_table") : ps[i].stmt.ops[1].column \in DOMAIN ps[k].stmt.columns}
                |-> ps[k].stmt.table]
           counted == [k \in OfKind(ps, "create_sequence") |-> ps[k].stmt.sequence]
           Counts(i, s) == refs_match(ps[s].stmt.sequence, ps[i].stmt.ops[1].sequence)
           TablesAt(i) == pick_best_match(named(i), ps[i].stmt.table)
           SequencesAt(i) == pick_best_match(counted, ps[i].stmt.ops[1].sequence)
           Idiom(i, t, s) == [table |-> t, sequence |-> s, column |-> ps[i].stmt.ops[1].column, alter |-> i]
           IdiomsAt(i) == {Idiom(i, t, s) : t \in TablesAt(i), s \in SequencesAt(i)}
           sets == [i \in 1..n |-> IdiomsAt(i)]
           alters == SoleOp(ps, "set_default")
           seqs == [i \in 1..n |-> IF i \in alters THEN SetToSeq(sets[i]) ELSE <<>>]
<1>1. n \in Nat /\ DOMAIN ps = 1..n
  BY PartsFacts
<1>2. ASSUME NEW i \in 1..n
      PROVE  /\ \/ TablesAt(i) = {} /\ \A t \in OfKind(ps, "create_table") : ~SerialTable(ps, i, t)
                \/ \E t \in OfKind(ps, "create_table") : TablesAt(i) = {t} /\ SerialTable(ps, i, t)
             /\ \/ SequencesAt(i) = {} /\ \A s \in OfKind(ps, "create_sequence") : ~Counts(i, s)
                \/ \E s \in OfKind(ps, "create_sequence") : SequencesAt(i) = {s} /\ Counts(i, s)
  <2>1. OfKind(ps, "create_table") \subseteq 1..n /\ OfKind(ps, "create_sequence") \subseteq 1..n
    BY OfKindIs
  <2> DEFINE table == ps[i].stmt.table
             sequence == ps[i].stmt.ops[1].sequence
  <2>2. /\ DOMAIN named(i) \subseteq OfKind(ps, "create_table") /\ DOMAIN counted = OfKind(ps, "create_sequence")
        /\ \A t \in OfKind(ps, "create_table") :
             SerialTable(ps, i, t) <=> t \in DOMAIN named(i) /\ refs_match(named(i)[t], table)
        /\ \A s \in OfKind(ps, "create_sequence") : Counts(i, s) <=> refs_match(counted[s], sequence)
    BY DEF SerialTable
  <2> HIDE DEF n, named, counted, table, sequence, Counts
  <2>3. \/ pick_best_match(named(i), table) = {} /\ \A x \in DOMAIN named(i) : ~refs_match(named(i)[x], table)
        \/ \E x \in DOMAIN named(i) : pick_best_match(named(i), table) = {x} /\ refs_match(named(i)[x], table)
    BY <1>1, <2>1, <2>2, PickIs
  <2>4. \/ pick_best_match(counted, sequence) = {} /\ \A x \in DOMAIN counted : ~refs_match(counted[x], sequence)
        \/ \E x \in DOMAIN counted : pick_best_match(counted, sequence) = {x} /\ refs_match(counted[x], sequence)
    BY <1>1, <2>1, <2>2, PickIs
  <2>5. TablesAt(i) = pick_best_match(named(i), table) /\ SequencesAt(i) = pick_best_match(counted, sequence)
    BY DEF table, sequence
  <2> HIDE DEF TablesAt, SequencesAt
  <2> QED  BY <2>2, <2>3, <2>4, <2>5
<1>6. detect_serial_idioms(ps) =
        FlattenSeq([i \in DOMAIN ps |-> IF i \in alters THEN SetToSeq(IdiomsAt(i)) ELSE <<>>])
  BY DEF detect_serial_idioms, FoundAt
<1> HIDE DEF TablesAt, SequencesAt
<1>3. ASSUME NEW i \in 1..n
      PROVE  /\ IsFiniteSet(sets[i])
             /\ \A d \in sets[i] : d.alter = i /\ (i \in alters => IsSerialIdiom(ps, d) /\ SerialAt(ps, i))
             /\ SerialAt(ps, i) => i \in alters /\ sets[i] # {}
  <2>1. sets[i] = {Idiom(i, t, s) : t \in TablesAt(i), s \in SequencesAt(i)}
    OBVIOUS
  <2>2. sets[i] = {} \/ \E x : sets[i] = {x}
    <3>1. CASE TablesAt(i) = {} \/ SequencesAt(i) = {}
      BY <2>1, <3>1
    <3>2. CASE TablesAt(i) # {} /\ SequencesAt(i) # {}
      <4>1. PICK t, s : TablesAt(i) = {t} /\ SequencesAt(i) = {s}
        BY <1>2, <3>2
      <4>2. sets[i] = {Idiom(i, t, s)}
        BY <2>1, <4>1
      <4> HIDE DEF sets, Idiom
      <4> QED  BY <4>2
    <3> QED  BY <3>1, <3>2
  <2>3. IsFiniteSet(sets[i])
    <3> HIDE DEF sets
    <3> QED  BY <2>2, FS_EmptySet, FS_Singleton
  <2>4. ASSUME NEW d \in sets[i], i \in alters
        PROVE  IsSerialIdiom(ps, d) /\ SerialAt(ps, i)
    <3>1. PICK t \in TablesAt(i), s \in SequencesAt(i) : d = Idiom(i, t, s)
      BY <2>1
    <3>2. /\ t \in OfKind(ps, "create_table") /\ s \in OfKind(ps, "create_sequence")
          /\ SerialTable(ps, i, t) /\ Counts(i, s)
      BY <1>2
    <3>3. ps[i].stmt.kind = "alter_table" /\ d.alter = i /\ d.table = t /\ d.sequence = s
      BY <2>4, <3>1, SoleOpIs
    <3> HIDE DEF Idiom
    <3>4. SerialAt(ps, i)
      BY <2>4, <3>2 DEF SerialAt
    <3> QED  BY <3>2, <3>3, <3>4, OfKindIs DEF IsSerialIdiom
  <2>5. \A d \in sets[i] : d.alter = i
    BY <2>1
  <2>6. ASSUME SerialAt(ps, i)
        PROVE  i \in alters /\ sets[i] # {}
    <3>1. TablesAt(i) # {} /\ SequencesAt(i) # {}
      BY <1>2, <2>6 DEF SerialAt
    <3>2. PICK t \in TablesAt(i), s \in SequencesAt(i) : TRUE
      BY <3>1
    <3>3. Idiom(i, t, s) \in sets[i]
      BY <2>1
    <3> QED  BY <2>6, <3>3 DEF SerialAt
  <2> HIDE DEF sets, alters
  <2> QED  BY <2>3, <2>4, <2>5, <2>6
<1>4. detect_serial_idioms(ps) = FlattenSeq(seqs)
  <2> HIDE DEF n, alters, IdiomsAt
  <2>1. seqs = [i \in 1..n |-> IF i \in alters THEN SetToSeq(IdiomsAt(i)) ELSE <<>>]
    BY Zenon
  <2> HIDE DEF seqs
  <2> QED  BY <1>1, <1>6, <2>1
<1> HIDE DEF sets, n, alters
<1>5. Findings(FlattenSeq(seqs), n, alters, sets)
  <2>1. \A i \in 1..n : i \in alters => IsFiniteSet(sets[i])
    BY <1>3
  <2> HIDE DEF seqs
  <2>2. seqs = [i \in 1..n |-> IF i \in alters THEN SetToSeq(sets[i]) ELSE <<>>]
    BY DEF seqs
  <2> QED  BY <1>1, <2>1, <2>2, FoundIs
<1> DEFINE flat == FlattenSeq(seqs)
<1>7. \A d \in Range(flat) : IsSerialIdiom(ps, d) /\ SerialAt(ps, d.alter)
  BY <1>3, <1>5 DEF Findings
<1>8. ASSUME NEW i, SerialAt(ps, i)
      PROVE  \E d \in Range(flat) : d.alter = i
  <2>1. i \in 1..n
    BY <1>8, SoleOpIs DEF SerialAt, n
  <2> QED  BY <1>3, <1>5, <1>8, <2>1 DEF Findings
<1> HIDE DEF seqs
<1> QED  BY <1>4, <1>5, <1>7, <1>8 DEF Findings

\* An ALTER TABLE or a dump's identity, and the table it is folded into.
IsFold(ps, d, kind) ==
  /\ d.table \in 1..Len(ps) /\ ps[d.table].stmt.kind = "create_table"
  /\ d.alter \in 1..Len(ps) /\ ps[d.alter].stmt.kind = kind

LEMMA DetectConstraintsIs ==
  ASSUME NEW ps, IsParts(ps), NEW type, type # "primary_key_using_index"
  PROVE  /\ IsSeq(detect_constraints(ps, type))
         /\ \A d \in Range(detect_constraints(ps, type)) :
              IsFold(ps, d, "alter_table") /\ IsConstraint(d.constraint) /\ ConstraintAt(ps, type, d.alter)
         /\ \A i : ConstraintAt(ps, type, i) => \E d \in Range(detect_constraints(ps, type)) : d.alter = i
<1> DEFINE n == Len(ps)
           named(i) == [k \in {k \in OfKind(ps, "create_table") : k < i} |-> ps[k].stmt.table]
           Before(i, t) == t < i /\ refs_match(ps[t].stmt.table, ps[i].stmt.table)
           TablesAt(i) == pick_best_match(named(i), ps[i].stmt.table)
           Idiom(i, t) == [table |-> t, constraint |-> ps[i].stmt.ops[1].constraint, alter |-> i]
           IdiomsAt(i) == {Idiom(i, t) : t \in TablesAt(i)}
           sets == [i \in 1..n |-> IdiomsAt(i)]
           alters == {k \in SoleOp(ps, "add_constraint") : ps[k].stmt.ops[1].constraint.type = type}
           seqs == [i \in 1..n |-> IF i \in alters THEN SetToSeq(sets[i]) ELSE <<>>]
<1>1. n \in Nat /\ DOMAIN ps = 1..n
  BY PartsFacts
<1>2. ASSUME NEW i \in 1..n
      PROVE  \/ TablesAt(i) = {} /\ \A t \in OfKind(ps, "create_table") : ~Before(i, t)
             \/ \E t \in OfKind(ps, "create_table") : TablesAt(i) = {t} /\ Before(i, t)
  <2>1. OfKind(ps, "create_table") \subseteq 1..n
    BY OfKindIs
  <2> DEFINE table == ps[i].stmt.table
  <2>2. /\ DOMAIN named(i) \subseteq OfKind(ps, "create_table")
        /\ \A t \in OfKind(ps, "create_table") :
             Before(i, t) <=> t \in DOMAIN named(i) /\ refs_match(named(i)[t], table)
    OBVIOUS
  <2> HIDE DEF n, named, table, Before
  <2>3. \/ pick_best_match(named(i), table) = {} /\ \A x \in DOMAIN named(i) : ~refs_match(named(i)[x], table)
        \/ \E x \in DOMAIN named(i) : pick_best_match(named(i), table) = {x} /\ refs_match(named(i)[x], table)
    BY <1>1, <2>1, <2>2, PickIs
  <2>4. TablesAt(i) = pick_best_match(named(i), table)
    BY DEF table
  <2> HIDE DEF TablesAt
  <2> QED  BY <2>2, <2>3, <2>4
<1>3. detect_constraints(ps, type) =
        FlattenSeq([i \in DOMAIN ps |-> IF i \in alters THEN SetToSeq(IdiomsAt(i)) ELSE <<>>])
  BY DEF detect_constraints, FoundAt
<1> HIDE DEF TablesAt
<1>4. ASSUME NEW i \in 1..n
      PROVE  /\ IsFiniteSet(IdiomsAt(i))
             /\ \A d \in IdiomsAt(i) : d.alter = i /\ (i \in alters => IsFold(ps, d, "alter_table") /\ IsConstraint(d.constraint) /\ ConstraintAt(ps, type, i))
             /\ ConstraintAt(ps, type, i) => i \in alters /\ IdiomsAt(i) # {}
  <2>1. IdiomsAt(i) = {} \/ \E x : IdiomsAt(i) = {x}
    <3>1. CASE TablesAt(i) = {}
      BY <3>1
    <3>2. CASE TablesAt(i) # {}
      <4>1. PICK t : TablesAt(i) = {t}
        BY <1>2, <3>2
      <4>2. IdiomsAt(i) = {Idiom(i, t)}
        BY <4>1
      <4> HIDE DEF IdiomsAt, Idiom
      <4> QED  BY <4>2
    <3> QED  BY <3>1, <3>2
  <2>2. IsFiniteSet(IdiomsAt(i))
    <3> HIDE DEF IdiomsAt
    <3> QED  BY <2>1, FS_EmptySet, FS_Singleton
  <2>3. ASSUME NEW d \in IdiomsAt(i), i \in alters
        PROVE  IsFold(ps, d, "alter_table") /\ IsConstraint(d.constraint) /\ ConstraintAt(ps, type, i)
    <3>1. PICK t \in TablesAt(i) : d = Idiom(i, t)
      OBVIOUS
    <3>2. t \in OfKind(ps, "create_table") /\ Before(i, t)
      BY <1>2
    <3>3. ps[i].stmt.kind = "alter_table" /\ IsOperation(ps[i].stmt.ops[1]) /\ ps[i].stmt.ops[1].op = "add_constraint"
      BY <2>3, SoleOpIs
    <3>4. d.alter = i /\ d.table = t /\ d.constraint = ps[i].stmt.ops[1].constraint
      BY <3>1
    <3>5. ConstraintAt(ps, type, i)
      BY <2>3, <3>2 DEF ConstraintAt
    <3> HIDE DEF Idiom
    <3>6. ps[i].stmt.ops[1].constraint.type = type
      BY <3>5, SoleOpIs DEF ConstraintAt
    <3> QED  BY <3>2, <3>3, <3>4, <3>5, <3>6, OfKindIs DEF IsFold, IsOperation
  <2>4. \A d \in IdiomsAt(i) : d.alter = i
    OBVIOUS
  <2>5. ASSUME ConstraintAt(ps, type, i)
        PROVE  i \in alters /\ IdiomsAt(i) # {}
    <3>1. PICK t \in TablesAt(i) : TRUE
      BY <1>2, <2>5 DEF ConstraintAt
    <3>2. Idiom(i, t) \in IdiomsAt(i)
      OBVIOUS
    <3> QED  BY <2>5, <3>2 DEF ConstraintAt
  <2> HIDE DEF IdiomsAt, alters
  <2> QED  BY <2>2, <2>3, <2>4, <2>5
<1>5. detect_constraints(ps, type) = FlattenSeq(seqs)
  <2> HIDE DEF n, alters, IdiomsAt
  <2>1. seqs = [i \in 1..n |-> IF i \in alters THEN SetToSeq(IdiomsAt(i)) ELSE <<>>]
    BY Zenon
  <2> HIDE DEF seqs
  <2> QED  BY <1>1, <1>3, <2>1
<1>6. \A i \in 1..n : /\ IsFiniteSet(sets[i])
                      /\ \A d \in sets[i] : d.alter = i /\ (i \in alters => IsFold(ps, d, "alter_table") /\ IsConstraint(d.constraint) /\ ConstraintAt(ps, type, i))
                      /\ ConstraintAt(ps, type, i) => i \in alters /\ sets[i] # {}
  <2> HIDE DEF n, alters, IdiomsAt
  <2> QED  BY <1>4
<1> HIDE DEF sets, n, alters
<1>7. Findings(FlattenSeq(seqs), n, alters, sets)
  <2>1. \A i \in 1..n : i \in alters => IsFiniteSet(sets[i])
    BY <1>6
  <2> HIDE DEF seqs
  <2>2. seqs = [i \in 1..n |-> IF i \in alters THEN SetToSeq(sets[i]) ELSE <<>>]
    BY DEF seqs
  <2> QED  BY <1>1, <2>1, <2>2, FoundIs
<1> DEFINE flat == FlattenSeq(seqs)
<1>8. \A d \in Range(flat) : IsFold(ps, d, "alter_table") /\ IsConstraint(d.constraint) /\ ConstraintAt(ps, type, d.alter)
  BY <1>6, <1>7 DEF Findings
<1>9. ASSUME NEW i, ConstraintAt(ps, type, i)
      PROVE  \E d \in Range(flat) : d.alter = i
  <2>1. i \in 1..n
    BY <1>9, SoleOpIs DEF ConstraintAt, n
  <2> QED  BY <1>6, <1>7, <1>9, <2>1 DEF Findings
<1> HIDE DEF seqs
<1> QED  BY <1>5, <1>7, <1>8, <1>9 DEF Findings

\* A CREATE TABLE before part i that matches and has the column.
TableBefore(ps, i, table, column, t) ==
  t < i /\ refs_match(ps[t].stmt.table, table) /\ column \in DOMAIN ps[t].stmt.columns

LEMMA ClosestIs ==
  ASSUME NEW ps, IsParts(ps), NEW i, NEW table, NEW column
  PROVE  \/ /\ Closest(ps, i, table, column) = {}
            /\ \A t \in OfKind(ps, "create_table") : ~TableBefore(ps, i, table, column, t)
         \/ \E t \in OfKind(ps, "create_table") :
              Closest(ps, i, table, column) = {t} /\ TableBefore(ps, i, table, column, t)
<1> DEFINE n == Len(ps)
           S == {k \in OfKind(ps, "create_table") :
                   k < i /\ refs_match(ps[k].stmt.table, table) /\ column \in DOMAIN ps[k].stmt.columns}
<1>1. n \in Nat /\ S \in SUBSET (1..n)
  BY PartsFacts, OfKindIs
<1>2. Closest(ps, i, table, column) = IF S = {} THEN {} ELSE {Max(S)}
  BY DEF Closest
<1>3. \A t \in OfKind(ps, "create_table") : t \in S <=> TableBefore(ps, i, table, column, t)
  BY DEF TableBefore
<1>4. S \subseteq OfKind(ps, "create_table")
  OBVIOUS
<1> HIDE DEF S, n
<1>5. S # {} => Max(S) \in S
  BY <1>1, MaxOf
<1> QED  BY <1>2, <1>3, <1>4, <1>5

LEMMA DetectIdentityAddsIs ==
  ASSUME NEW ps, IsParts(ps)
  PROVE  /\ IsSeq(detect_identity_adds(ps))
         /\ \A d \in Range(detect_identity_adds(ps)) :
              IsFold(ps, d, "dump_identity") /\ d.cache \in CacheOption /\ IdentityAt(ps, d.alter)
         /\ \A i : IdentityAt(ps, i) => \E d \in Range(detect_identity_adds(ps)) : d.alter = i
<1> DEFINE n == Len(ps)
           Before(i, t) == TableBefore(ps, i, ps[i].stmt.table, ps[i].stmt.column, t)
           TablesAt(i) == Closest(ps, i, ps[i].stmt.table, ps[i].stmt.column)
           Idiom(i, t) ==
             [table |-> t, alter |-> i, column |-> ps[i].stmt.column, cache |-> parse_cache(ps[i].stmt.cache)]
           IdiomsAt(i) == {Idiom(i, t) : t \in TablesAt(i)}
           sets == [i \in 1..n |-> IdiomsAt(i)]
           alters == OfKind(ps, "dump_identity")
           seqs == [i \in 1..n |-> IF i \in alters THEN SetToSeq(sets[i]) ELSE <<>>]
<1>1. n \in Nat /\ DOMAIN ps = 1..n
  BY PartsFacts
<1>2. ASSUME NEW i \in 1..n
      PROVE  \/ TablesAt(i) = {} /\ \A t \in OfKind(ps, "create_table") : ~Before(i, t)
             \/ \E t \in OfKind(ps, "create_table") : TablesAt(i) = {t} /\ Before(i, t)
  BY ClosestIs
<1>3. detect_identity_adds(ps) =
        FlattenSeq([i \in DOMAIN ps |-> IF i \in alters THEN SetToSeq(IdiomsAt(i)) ELSE <<>>])
  BY DEF detect_identity_adds, FoundAt
<1> HIDE DEF TablesAt
<1>4. ASSUME NEW i \in 1..n
      PROVE  /\ IsFiniteSet(IdiomsAt(i))
             /\ \A d \in IdiomsAt(i) : d.alter = i /\ (i \in alters => IsFold(ps, d, "dump_identity") /\ d.cache \in CacheOption /\ IdentityAt(ps, i))
             /\ IdentityAt(ps, i) => i \in alters /\ IdiomsAt(i) # {}
  <2>1. IdiomsAt(i) = {} \/ \E x : IdiomsAt(i) = {x}
    <3>1. CASE TablesAt(i) = {}
      BY <3>1
    <3>2. CASE TablesAt(i) # {}
      <4>1. PICK t : TablesAt(i) = {t}
        BY <1>2, <3>2
      <4>2. IdiomsAt(i) = {Idiom(i, t)}
        BY <4>1
      <4> HIDE DEF IdiomsAt, Idiom
      <4> QED  BY <4>2
    <3> QED  BY <3>1, <3>2
  <2>2. IsFiniteSet(IdiomsAt(i))
    <3> HIDE DEF IdiomsAt
    <3> QED  BY <2>1, FS_EmptySet, FS_Singleton
  <2>3. ASSUME NEW d \in IdiomsAt(i), i \in alters
        PROVE  IsFold(ps, d, "dump_identity") /\ d.cache \in CacheOption /\ IdentityAt(ps, i)
    <3>1. PICK t \in TablesAt(i) : d = Idiom(i, t)
      OBVIOUS
    <3>2. t \in OfKind(ps, "create_table") /\ Before(i, t)
      BY <1>2
    <3>3. ps[i].stmt.kind = "dump_identity" /\ d.alter = i /\ d.table = t /\ d.cache = parse_cache(ps[i].stmt.cache)
      BY <2>3, <3>1, OfKindIs
    <3>4. parse_cache(ps[i].stmt.cache) \in CacheOption
      <4>1. ps[i].stmt.cache \in CacheOption
        BY <3>3 DEF IsParts, IsPart, IsStatement, IsIdentity
      <4> QED  BY <4>1 DEF parse_cache, CacheOption, CacheExpression
    <3>5. IdentityAt(ps, i)
      BY <2>3, <3>2 DEF IdentityAt, TableBefore
    <3> HIDE DEF Idiom
    <3> QED  BY <3>2, <3>3, <3>4, <3>5, OfKindIs DEF IsFold
  <2>4. \A d \in IdiomsAt(i) : d.alter = i
    OBVIOUS
  <2>5. ASSUME IdentityAt(ps, i)
        PROVE  i \in alters /\ IdiomsAt(i) # {}
    <3>1. PICK t \in TablesAt(i) : TRUE
      BY <1>2, <2>5 DEF IdentityAt, TableBefore
    <3>2. Idiom(i, t) \in IdiomsAt(i)
      OBVIOUS
    <3> QED  BY <2>5, <3>2 DEF IdentityAt
  <2> HIDE DEF IdiomsAt, alters
  <2> QED  BY <2>2, <2>3, <2>4, <2>5
<1>5. detect_identity_adds(ps) = FlattenSeq(seqs)
  <2> HIDE DEF n, alters, IdiomsAt
  <2>1. seqs = [i \in 1..n |-> IF i \in alters THEN SetToSeq(IdiomsAt(i)) ELSE <<>>]
    BY Zenon
  <2> HIDE DEF seqs
  <2> QED  BY <1>1, <1>3, <2>1
<1>6. \A i \in 1..n : /\ IsFiniteSet(sets[i])
                      /\ \A d \in sets[i] : d.alter = i /\ (i \in alters => IsFold(ps, d, "dump_identity") /\ d.cache \in CacheOption /\ IdentityAt(ps, i))
                      /\ IdentityAt(ps, i) => i \in alters /\ sets[i] # {}
  <2> HIDE DEF n, alters, IdiomsAt
  <2> QED  BY <1>4
<1> HIDE DEF sets, n, alters
<1>7. Findings(FlattenSeq(seqs), n, alters, sets)
  <2>1. \A i \in 1..n : i \in alters => IsFiniteSet(sets[i])
    BY <1>6
  <2> HIDE DEF seqs
  <2>2. seqs = [i \in 1..n |-> IF i \in alters THEN SetToSeq(sets[i]) ELSE <<>>]
    BY DEF seqs
  <2> QED  BY <1>1, <2>1, <2>2, FoundIs
<1> DEFINE flat == FlattenSeq(seqs)
<1>8. \A d \in Range(flat) : IsFold(ps, d, "dump_identity") /\ d.cache \in CacheOption /\ IdentityAt(ps, d.alter)
  BY <1>6, <1>7 DEF Findings
<1>9. ASSUME NEW i, IdentityAt(ps, i)
      PROVE  \E d \in Range(flat) : d.alter = i
  <2>1. i \in 1..n
    BY <1>9, OfKindIs DEF IdentityAt, n
  <2> QED  BY <1>6, <1>7, <1>9, <2>1 DEF Findings
<1> HIDE DEF seqs
<1> QED  BY <1>5, <1>7, <1>8, <1>9 DEF Findings

\* The statements of some parts are other ones of their kind.
LEMMA RewrittenIs ==
  ASSUME NEW ps, IsParts(ps), NEW T, NEW fold, NEW mid,
         mid = [t \in 1..Len(ps) |-> mid[t]],
         \A t \in 1..Len(ps) : mid[t] = IF t \in T THEN [ps[t] EXCEPT !.stmt = fold[t]] ELSE ps[t],
         \A t \in 1..Len(ps) : t \in T => IsStatement(fold[t]) /\ Alike(fold[t], ps[t].stmt)
  PROVE  IsParts(mid) /\ Len(mid) = Len(ps) /\ \A k \in 1..Len(ps) : SameHead(mid[k], ps[k])
<1>1. Len(ps) \in Nat
  BY PartsFacts
<1>2. ASSUME NEW k \in 1..Len(ps)
      PROVE  IsPart(mid[k]) /\ SameHead(mid[k], ps[k])
  <2> DEFINE new == [ps[k] EXCEPT !.stmt = fold[k]]
  <2>1. IsPart(ps[k])
    BY DEF IsParts
  <2>2. DOMAIN new = {"line", "stmt"} /\ new.line = ps[k].line /\ new.stmt = fold[k]
    BY <2>1 DEF IsPart
  <2>3. mid[k] = IF k \in T THEN new ELSE ps[k]
    OBVIOUS
  <2> HIDE DEF new
  <2> QED  BY <2>1, <2>2, <2>3, AlikeItself DEF IsPart, SameHead
<1>3. IsSeq(mid) /\ Len(mid) = Len(ps)
  BY <1>1, FunctionIsSeq
<1> QED  BY <1>2, <1>3 DEF IsParts

LEMMA FoldSequencesIs ==
  ASSUME NEW s, IsStatement(s), s.kind = "create_table", NEW folded
  PROVE  IsStatement(FoldSequences(s, folded)) /\ Alike(FoldSequences(s, folded), s)
<1> DEFINE columns == [n \in DOMAIN s.columns |->
                         IF \E d \in folded : d.column = n THEN make_identity_column(s.columns[n]) ELSE s.columns[n]]
           new == [s EXCEPT !.columns = columns]
<1>1. /\ {"kind", "table", "columns", "constraints", "clauses"} \subseteq DOMAIN s
      /\ IsFiniteSet(DOMAIN s.columns) /\ IsFiniteSet(s.constraints)
      /\ \A n \in DOMAIN s.columns : IsColumn(s.columns[n])
      /\ \A c \in s.constraints : IsConstraint(c)
  BY TableFacts
<1>2. FoldSequences(s, folded) = new
  BY DEF FoldSequences
<1>3. ASSUME NEW c, IsColumn(c)
      PROVE  IsColumn(make_identity_column(c))
  <2>1. IsFiniteSet(identity_cache_1) /\ \A i \in identity_cache_1 : IsIdentity(i)
    BY IdentityCache1Is DEF identity_cache_1, CacheOption, CacheExpression
  <2>2. /\ DOMAIN make_identity_column(c) = DOMAIN c
        /\ make_identity_column(c).identity = identity_cache_1
        /\ make_identity_column(c).references = c.references
        /\ make_identity_column(c).inline = c.inline
        /\ make_identity_column(c).type \in {c.type, "bigint"}
    BY <1>3 DEF make_identity_column, IsColumn
  <2>3. "bigint" \in ColumnTypes
    BY DEF ColumnTypes, Numeric
  <2> QED  BY <1>3, <2>1, <2>2, <2>3 DEF IsColumn
<1>4. DOMAIN columns = DOMAIN s.columns /\ \A n \in DOMAIN columns : IsColumn(columns[n])
  BY <1>1, <1>3
<1> HIDE DEF columns
<1>5. /\ DOMAIN new = DOMAIN s /\ new.kind = s.kind /\ new.table = s.table
      /\ new.columns = columns /\ new.constraints = s.constraints /\ new.clauses = s.clauses
  BY <1>1
<1> HIDE DEF new
<1> QED  BY <1>1, <1>2, <1>4, <1>5, TableLike

LEMMA FoldConstraintsIs ==
  ASSUME NEW s, IsStatement(s), s.kind = "create_table", NEW folded, IsFiniteSet(folded), \A d \in folded : IsConstraint(d.constraint)
  PROVE  IsStatement(FoldConstraints(s, folded)) /\ Alike(FoldConstraints(s, folded), s)
<1> DEFINE f == [d \in folded |-> d.constraint]
           added == {d.constraint : d \in folded}
           new == [s EXCEPT !.constraints = s.constraints \cup added]
<1>1. /\ {"kind", "table", "columns", "constraints", "clauses"} \subseteq DOMAIN s
      /\ IsFiniteSet(DOMAIN s.columns) /\ IsFiniteSet(s.constraints)
      /\ \A n \in DOMAIN s.columns : IsColumn(s.columns[n])
      /\ \A c \in s.constraints : IsConstraint(c)
  BY TableFacts
<1>2. FoldConstraints(s, folded) = new
  BY DEF FoldConstraints
<1>3. IsFiniteSet({f[d] : d \in folded})
  <2> HIDE DEF f
  <2> QED  BY ImageIsFinite
<1>4. added = {f[d] : d \in folded} /\ \A c \in added : IsConstraint(c)
  OBVIOUS
<1> HIDE DEF f, added
<1>5. IsFiniteSet(s.constraints \cup added)
  <2>1. IsFiniteSet(s.constraints) /\ IsFiniteSet(added)
    BY <1>1, <1>3, <1>4
  <2> QED  BY ONLY <2>1, FS_Union
<1>6. /\ DOMAIN new = DOMAIN s /\ new.kind = s.kind /\ new.table = s.table /\ new.columns = s.columns
      /\ new.constraints = s.constraints \cup added /\ new.clauses = s.clauses
  BY <1>1
<1> HIDE DEF new
<1> QED  BY <1>1, <1>2, <1>4, <1>5, <1>6, TableLike

LEMMA FoldIdentitiesIs ==
  ASSUME NEW s, IsStatement(s), s.kind = "create_table",
         NEW m \in Nat, NEW folded, \A a \in folded : a.cache \in CacheOption /\ a.alter \in 1..m
  PROVE  IsStatement(FoldIdentities(s, folded)) /\ Alike(FoldIdentities(s, folded), s)
<1> DEFINE Adds(n) == {a \in folded : a.column = n}
           Last_(n) == CHOOSE a \in Adds(n) : \A b \in Adds(n) : b.alter <= a.alter
           columns == [n \in DOMAIN s.columns |->
                         IF Adds(n) = {} THEN s.columns[n]
                         ELSE [s.columns[n] EXCEPT !.identity = identity_with_cache(Last_(n).cache)]]
           new == [s EXCEPT !.columns = columns]
<1>1. /\ {"kind", "table", "columns", "constraints", "clauses"} \subseteq DOMAIN s
      /\ IsFiniteSet(DOMAIN s.columns) /\ IsFiniteSet(s.constraints)
      /\ \A n \in DOMAIN s.columns : IsColumn(s.columns[n])
      /\ \A c \in s.constraints : IsConstraint(c)
  BY TableFacts
<1>2. FoldIdentities(s, folded) = new
  BY DEF FoldIdentities
<1>3. ASSUME NEW n, Adds(n) # {}
      PROVE  Last_(n).cache \in CacheOption
  <2> DEFINE A == {a.alter : a \in Adds(n)}
  <2>1. Adds(n) \subseteq folded
    OBVIOUS
  <2> HIDE DEF Adds
  <2>2. A \in SUBSET (1..m) /\ A # {}
    BY <1>3, <2>1
  <2>3. Max(A) \in A /\ \A y \in A : Max(A) >= y
    <3> HIDE DEF A
    <3> QED  BY <2>2, MaxOf
  <2>4. \A a \in Adds(n) : a.alter \in 1..m
    BY <2>1
  <2>5. \E a \in Adds(n) : \A b \in Adds(n) : b.alter <= a.alter
    BY <2>3, <2>4
  <2>6. Last_(n) \in Adds(n)
    BY <2>5
  <2> HIDE DEF Last_
  <2> QED  BY <2>1, <2>6
<1> HIDE DEF Adds, Last_
<1>4. ASSUME NEW c, IsColumn(c), NEW cache \in CacheOption
      PROVE  IsColumn([c EXCEPT !.identity = identity_with_cache(cache)])
  <2> DEFINE d == [c EXCEPT !.identity = identity_with_cache(cache)]
  <2>1. IsFiniteSet(identity_with_cache(cache)) /\ \A i \in identity_with_cache(cache) : IsIdentity(i)
    BY IdentityCache1Is
  <2>2. DOMAIN d = DOMAIN c /\ d.identity = identity_with_cache(cache)
        /\ d.references = c.references /\ d.type = c.type /\ d.inline = c.inline
    BY <1>4 DEF IsColumn
  <2> HIDE DEF d
  <2>3. IsColumn(d)
    BY <1>4, <2>1, <2>2 DEF IsColumn
  <2> QED  BY <2>3 DEF d
<1>5. DOMAIN columns = DOMAIN s.columns /\ \A n \in DOMAIN columns : IsColumn(columns[n])
  BY <1>1, <1>3, <1>4
<1> HIDE DEF columns
<1>6. /\ DOMAIN new = DOMAIN s /\ new.kind = s.kind /\ new.table = s.table
      /\ new.columns = columns /\ new.constraints = s.constraints /\ new.clauses = s.clauses
  BY <1>1
<1> HIDE DEF new
<1> QED  BY <1>1, <1>2, <1>5, <1>6, TableLike

------------------------------------------------------------------------------
(* The passes.                                                             *)

\* A part of a sequence that some column's identity takes the place of.
OfSerial(ps, i) ==
  \E d \in Range(detect_serial_idioms(ps)) :
    i \in {d.sequence, d.alter} \/ is_sequence_ownership_change(ps[i].stmt, ps[d.sequence].stmt.sequence)

LEMMA OfSerialParses ==
  ASSUME NEW ps, IsParts(ps), NEW i \in 1..Len(ps), OfSerial(ps, i)
  PROVE  ps[i].stmt.kind # "unparsable"
<1>1. PICK d \in Range(detect_serial_idioms(ps)) :
        i \in {d.sequence, d.alter} \/ is_sequence_ownership_change(ps[i].stmt, ps[d.sequence].stmt.sequence)
  BY DEF OfSerial
<1>2. IsSerialIdiom(ps, d)
  BY DetectSerialIs
<1> QED  BY <1>1, <1>2 DEF IsSerialIdiom, is_sequence_ownership_change

LEMMA SerialRedundantIs ==
  ASSUME NEW ps, IsParts(ps), NEW d
  PROVE  /\ IsSeq(SerialRedundant(ps, d)) /\ d.alter \in Range(SerialRedundant(ps, d))
         /\ \A i \in Range(SerialRedundant(ps, d)) :
              i \in {d.sequence, d.alter} \/ is_sequence_ownership_change(ps[i].stmt, ps[d.sequence].stmt.sequence)
<1> DEFINE S == {i \in DOMAIN ps : is_sequence_ownership_change(ps[i].stmt, ps[d.sequence].stmt.sequence)}
           q == SetToSeq(S)
           two == <<d.sequence, d.alter>>
<1>1. IsFiniteSet(S)
  <2>1. IsFiniteSet(1..Len(ps))
    BY PartsFacts, FS_Interval
  <2>2. S \in SUBSET (1..Len(ps))
    BY PartsFacts
  <2> HIDE DEF S
  <2> QED  BY <2>1, <2>2, FS_Subset
<1>2. IsSeq(q) /\ Range(q) = S
  <2> HIDE DEF S
  <2> QED  BY <1>1, SetToSeqIs
<1>3. IsSeq(two) /\ Range(two) = {d.sequence, d.alter}
  <2>1. two \in Seq({d.sequence, d.alter})
    OBVIOUS
  <2>2. Range(two) = {d.sequence, d.alter}
    BY DEF Range
  <2> HIDE DEF two
  <2> QED  BY <2>1, <2>2, SeqIsSeq
<1>4. SerialRedundant(ps, d) = two \o q
  BY DEF SerialRedundant
<1> HIDE DEF q, two
<1>5. IsSeq(two \o q) /\ Range(two \o q) = {d.sequence, d.alter} \cup S
  BY <1>2, <1>3, ConcatIsSeq
<1> QED  BY <1>4, <1>5

LEMMA FixSerialIs ==
  ASSUME NEW ps, IsParts(ps)
  PROVE  LET result == fix_serial_idioms(ps)
         IN /\ \E D : /\ Rewrites(result.parts, ps, D)
                      /\ \A i \in 1..Len(ps) : (i \in D => OfSerial(ps, i)) /\ (SerialAt(ps, i) => i \in D)
            /\ DiagnosticsOf(result.diagnostics, ps)
<1> DEFINE idioms == detect_serial_idioms(ps)
           n == Len(ps)
           m == Len(idioms)
           Folded(t) == {d \in Range(idioms) : d.table = t}
           T == {t \in 1..n : Folded(t) # {}}
           fold == [t \in 1..n |-> FoldSequences(ps[t].stmt, Folded(t))]
           mid == [t \in 1..n |-> IF t \in T THEN [ps[t] EXCEPT !.stmt = fold[t]] ELSE ps[t]]
           red == [k \in DOMAIN idioms |-> SerialRedundant(ps, idioms[k])]
           ds == [k \in DOMAIN idioms |-> SerialDiagnostics(ps, idioms[k])]
           D == Range(FlattenSeq(red))
<1>1. n \in Nat /\ DOMAIN ps = 1..n
  BY PartsFacts
<1>2. /\ IsSeq(idioms) /\ \A d \in Range(idioms) : IsSerialIdiom(ps, d)
      /\ \A i : SerialAt(ps, i) => \E d \in Range(idioms) : d.alter = i
  BY DetectSerialIs
<1>3. m \in Nat /\ DOMAIN idioms = 1..m /\ \A k \in 1..m : idioms[k] \in Range(idioms)
  BY <1>2, SeqFacts
<1>4. Rewritten(ps, idioms, FoldSequences) = mid
  <2>1. Rewritten(ps, idioms, FoldSequences) =
          [t \in DOMAIN ps |-> IF Folded(t) = {} THEN ps[t] ELSE [ps[t] EXCEPT !.stmt = FoldSequences(ps[t].stmt, Folded(t))]]
    BY DEF Rewritten
  <2> HIDE DEF Folded, n, idioms
  <2> QED  BY <1>1, <2>1
<1>5. /\ fix_serial_idioms(ps).parts = drop_parts(mid, FlattenSeq(red))
      /\ fix_serial_idioms(ps).diagnostics = FlattenSeq(ds)
  <2>1. /\ fix_serial_idioms(ps).parts = drop_parts(Rewritten(ps, idioms, FoldSequences), FlattenSeq(red))
        /\ fix_serial_idioms(ps).diagnostics = FlattenSeq(ds)
    BY DEF fix_serial_idioms, Result
  <2> HIDE DEF mid, red, ds, idioms
  <2> QED  BY <1>4, <2>1
<1>6. ASSUME NEW t \in 1..n, t \in T
      PROVE  IsStatement(fold[t]) /\ Alike(fold[t], ps[t].stmt)
  <2>1. ps[t].stmt.kind = "create_table"
    <3>1. PICK d \in Range(idioms) : d.table = t
      BY <1>6
    <3> HIDE DEF idioms
    <3> QED  BY <1>2, <3>1 DEF IsSerialIdiom
  <2>2. IsStatement(ps[t].stmt)
    BY DEF IsParts, IsPart
  <2>3. fold[t] = FoldSequences(ps[t].stmt, Folded(t))
    OBVIOUS
  <2> HIDE DEF fold, Folded
  <2> QED  BY <2>1, <2>2, <2>3, FoldSequencesIs
<1>7. IsParts(mid) /\ Len(mid) = Len(ps) /\ \A k \in 1..Len(ps) : SameHead(mid[k], ps[k])
  <2>1. /\ mid = [t \in 1..Len(ps) |-> mid[t]]
        /\ \A t \in 1..Len(ps) : mid[t] = IF t \in T THEN [ps[t] EXCEPT !.stmt = fold[t]] ELSE ps[t]
    <3> HIDE DEF T, fold
    <3> QED  OBVIOUS
  <2>2. \A t \in 1..Len(ps) : t \in T => IsStatement(fold[t]) /\ Alike(fold[t], ps[t].stmt)
    BY <1>6
  <2> HIDE DEF mid, T, fold
  <2> QED  BY <2>1, <2>2, RewrittenIs
<1> HIDE DEF mid
<1>8. Rewrites(drop_parts(mid, FlattenSeq(red)), ps, D)
  <2> HIDE DEF red
  <2> QED  BY <1>7, DroppedAfter
<1> HIDE DEF idioms
<1>9. (\A i \in D : OfSerial(ps, i)) /\ \A i : SerialAt(ps, i) => i \in D
  <2>1. red = [k \in 1..m |-> red[k]] /\ \A k \in 1..m : red[k] = SerialRedundant(ps, idioms[k])
    BY <1>3
  <2>2. \A k \in 1..m : IsSeq(red[k])
    BY <2>1, SerialRedundantIs
  <2> HIDE DEF red
  <2>3. IsSeq(red) /\ Len(red) = m
    BY <1>3, <2>1, FunctionIsSeq
  <2> DEFINE flat == FlattenSeq(red)
  <2>4. Flattened(flat, m, red)
    BY <2>2, <2>3, FlattenSeqIs
  <2> HIDE DEF flat, m
  <2>5. PICK b \in [1..Len(flat) -> 1..m] : \A j \in 1..Len(flat) : flat[j] \in Range(red[b[j]])
    BY <2>4 DEF Flattened
  <2>6. ASSUME NEW i \in Range(flat)
        PROVE  OfSerial(ps, i)
    <3>1. PICK j \in 1..Len(flat) : flat[j] = i
      BY <2>4, SeqFacts DEF Flattened
    <3>2. b[j] \in 1..m /\ i \in Range(SerialRedundant(ps, idioms[b[j]]))
      BY <2>1, <2>5, <3>1
    <3>3. idioms[b[j]] \in Range(detect_serial_idioms(ps))
      BY <1>3, <3>2 DEF idioms
    <3> QED  BY <3>2, <3>3, SerialRedundantIs DEF OfSerial
  <2>7. ASSUME NEW i, SerialAt(ps, i)
        PROVE  i \in Range(flat)
    <3>1. PICK d \in Range(idioms) : d.alter = i
      BY <1>2, <2>7
    <3>2. PICK k \in 1..m : idioms[k] = d
      BY <1>2, <3>1, SeqFacts DEF m
    <3>3. i \in Range(red[k])
      BY <2>1, <3>1, <3>2, SerialRedundantIs
    <3> QED  BY <2>4, <3>3 DEF Flattened
  <2> QED  BY <2>6, <2>7 DEF flat
<1>10. DiagnosticsOf(FlattenSeq(ds), ps)
  <2>1. ds = [k \in 1..m |-> ds[k]] /\ \A k \in 1..m : ds[k] = SerialDiagnostics(ps, idioms[k])
    BY <1>3
  <2>2. ASSUME NEW k \in 1..m
        PROVE  IsSeq(ds[k]) /\ \A d \in Range(ds[k]) : \E i \in 1..Len(ps) : d.line = ps[i].line
    <3> DEFINE i == idioms[k].table
               line == ps[i].line
               one == Diagnostic("SerialSequenceIdiom", line, Unfixable)
               two == Diagnostic("SerialSequenceIdiom", line, Warned)
               renamed == IdentitySequence(ps[i].stmt.table, idioms[k].column) # ps[idioms[k].sequence].stmt.sequence
               first == IF renamed THEN <<one>> ELSE <<>>
    <3>1. i \in 1..Len(ps)
      BY <1>2, <1>3 DEF IsSerialIdiom
    <3>2. ds[k] = first \o <<two>>
      BY <2>1 DEF SerialDiagnostics
    <3>3. one.line = line /\ two.line = line
      BY DEF Diagnostic
    <3> HIDE DEF one, two, line, renamed
    <3>4. IsSeq(first) /\ Range(first) \subseteq {one}
      BY SingletonIsSeq, EmptyIsSeq
    <3> HIDE DEF first
    <3>5. IsSeq(<<two>>) /\ Range(<<two>>) = {two}
      BY SingletonIsSeq
    <3>6. IsSeq(first \o <<two>>) /\ Range(first \o <<two>>) = Range(first) \cup {two}
      BY <3>4, <3>5, ConcatIsSeq
    <3>7. \A d \in Range(ds[k]) : d.line = line
      BY <3>2, <3>3, <3>4, <3>6
    <3> QED  BY <3>1, <3>2, <3>6, <3>7 DEF line
  <2> HIDE DEF ds, m
  <2> QED  BY <1>3, <2>1, <2>2, FlattenedDiagnostics
<1> HIDE DEF D, red, ds, n, m
<1> QED  BY <1>5, <1>8, <1>9, <1>10

\* A pass after the first: what it drops, the parts at M among it, it reports.
Foldable == {"alter_table", "dump_identity", "set_compression"}
Folds(result, ps, M) ==
  /\ \E D : /\ Rewrites(result.parts, ps, D) /\ M \subseteq D
            /\ \A i \in 1..Len(ps) : i \in D =>
                 /\ ps[i].stmt.kind \in Foldable
                 /\ \E d \in Range(result.diagnostics) : d.line = ps[i].line
  /\ DiagnosticsOf(result.diagnostics, ps)

\* The idioms of one kind, the script with them folded, and their reports.
AreFolds(idioms, ps, kind, M) ==
  /\ IsSeq(idioms) /\ \A d \in Range(idioms) : IsFold(ps, d, kind)
  /\ \A i \in M : \E d \in Range(idioms) : d.alter = i
SameHeads(mid, ps) == IsParts(mid) /\ Len(mid) = Len(ps) /\ \A k \in 1..Len(ps) : SameHead(mid[k], ps[k])
EachReported(ds, idioms, ps) ==
  /\ ds = [k \in 1..Len(idioms) |-> ds[k]]
  /\ \A k \in 1..Len(idioms) : ds[k].line = ps[idioms[k].alter].line

LEMMA FoldedIs ==
  ASSUME NEW ps, IsParts(ps), NEW kind \in Foldable, NEW idioms, NEW M, AreFolds(idioms, ps, kind, M),
         NEW mid, SameHeads(mid, ps), NEW ds, EachReported(ds, idioms, ps)
  PROVE  Folds(Result(drop_parts(mid, [k \in DOMAIN idioms |-> idioms[k].alter]), ds), ps, M)
<1> DEFINE n == Len(idioms)
           alters == [k \in DOMAIN idioms |-> idioms[k].alter]
           result == Result(drop_parts(mid, alters), ds)
           D == Range(alters)
<1>1. /\ IsSeq(idioms) /\ \A d \in Range(idioms) : IsFold(ps, d, kind)
      /\ \A i \in M : \E d \in Range(idioms) : d.alter = i
      /\ IsParts(mid) /\ Len(mid) = Len(ps) /\ \A k \in 1..Len(ps) : SameHead(mid[k], ps[k])
  BY DEF AreFolds, SameHeads
<1>2. ds = [k \in 1..n |-> ds[k]] /\ \A k \in 1..n : ds[k].line = ps[idioms[k].alter].line
  BY DEF EachReported
<1>3. n \in Nat /\ DOMAIN idioms = 1..n /\ \A k \in 1..n : idioms[k] \in Range(idioms)
  BY <1>1, SeqFacts
<1>4. \A k \in 1..n : /\ idioms[k].alter \in 1..Len(ps)
                      /\ ps[idioms[k].alter].stmt.kind = kind
  BY <1>1, <1>3 DEF IsFold
<1>5. IsSeq(ds) /\ Len(ds) = n /\ DOMAIN ds = 1..n
  BY <1>2, <1>3, FunctionIsSeq, SeqFacts
<1>6. Rewrites(drop_parts(mid, alters), ps, D)
  <2> HIDE DEF alters
  <2> QED  BY <1>1, DroppedAfter
<1>7. \A i \in D : \E k \in 1..n : i = idioms[k].alter
  BY <1>3 DEF Range
<1>8. M \subseteq D
  <2> SUFFICES ASSUME NEW i \in M
               PROVE  i \in D
    OBVIOUS
  <2>1. PICK k \in 1..n : idioms[k].alter = i
    BY <1>1, SeqFacts
  <2> QED  BY <1>3, <2>1 DEF Range
<1>9. result.parts = drop_parts(mid, alters) /\ result.diagnostics = ds
  BY DEF Result
<1>10. \A k \in 1..n : ds[k] \in Range(ds)
  BY <1>5 DEF Range
<1> HIDE DEF result, alters, D
<1>11. \A i \in 1..Len(ps) : i \in D => ps[i].stmt.kind \in Foldable /\ \E d \in Range(ds) : d.line = ps[i].line
  <2> SUFFICES ASSUME NEW i \in D
               PROVE  ps[i].stmt.kind \in Foldable /\ \E d \in Range(ds) : d.line = ps[i].line
    OBVIOUS
  <2>1. PICK k \in 1..n : i = idioms[k].alter
    BY <1>7
  <2>2. ds[k].line = ps[i].line /\ ds[k] \in Range(ds)
    BY <1>2, <1>10, <2>1
  <2> QED  BY <1>4, <2>1, <2>2
<1>12. DiagnosticsOf(ds, ps)
  BY <1>2, <1>4, <1>5 DEF DiagnosticsOf
<1>13. Folds(result, ps, M)
  BY <1>6, <1>9, <1>11, <1>12, <1>8 DEF Folds
<1> QED  BY <1>13 DEF result, alters

LEMMA FixConstraintsIs ==
  ASSUME NEW ps, IsParts(ps), NEW type, type # "primary_key_using_index"
  PROVE  Folds(fix_constraints(ps, type), ps, {i \in 1..Len(ps) : ConstraintAt(ps, type, i)})
<1> DEFINE idioms == detect_constraints(ps, type)
           n == Len(ps)
           Folded(t) == {d \in Range(idioms) : d.table = t}
           T == {t \in 1..n : Folded(t) # {}}
           fold == [t \in 1..n |-> FoldConstraints(ps[t].stmt, Folded(t))]
           mid == [t \in 1..n |-> IF t \in T THEN [ps[t] EXCEPT !.stmt = fold[t]] ELSE ps[t]]
           M == {i \in 1..Len(ps) : ConstraintAt(ps, type, i)}
           ds == check_constraints(ps, type)
<1>1. n \in Nat /\ DOMAIN ps = 1..n
  BY PartsFacts
<1>2. /\ IsSeq(idioms) /\ \A d \in Range(idioms) : IsFold(ps, d, "alter_table") /\ IsConstraint(d.constraint)
      /\ \A i \in M : \E d \in Range(idioms) : d.alter = i
  BY DetectConstraintsIs
<1>3. Rewritten(ps, idioms, FoldConstraints) = mid
  <2>1. Rewritten(ps, idioms, FoldConstraints) =
          [t \in DOMAIN ps |-> IF Folded(t) = {} THEN ps[t] ELSE [ps[t] EXCEPT !.stmt = FoldConstraints(ps[t].stmt, Folded(t))]]
    BY DEF Rewritten
  <2> HIDE DEF Folded, n, idioms
  <2> QED  BY <1>1, <2>1
<1>4. fix_constraints(ps, type) = Result(drop_parts(mid, [k \in DOMAIN idioms |-> idioms[k].alter]), ds)
  <2>1. fix_constraints(ps, type) =
          Result(drop_parts(Rewritten(ps, idioms, FoldConstraints), [k \in DOMAIN idioms |-> idioms[k].alter]), ds)
    BY DEF fix_constraints
  <2> HIDE DEF mid, ds, idioms
  <2> QED  BY <1>3, <2>1
<1>5. ASSUME NEW t \in 1..n, t \in T
      PROVE  IsStatement(fold[t]) /\ Alike(fold[t], ps[t].stmt)
  <2>1. ps[t].stmt.kind = "create_table"
    <3>1. PICK d \in Range(idioms) : d.table = t
      BY <1>5
    <3> HIDE DEF idioms
    <3> QED  BY <1>2, <3>1 DEF IsFold
  <2>2. IsStatement(ps[t].stmt)
    BY DEF IsParts, IsPart
  <2>3. fold[t] = FoldConstraints(ps[t].stmt, Folded(t))
    OBVIOUS
  <2>4. IsFiniteSet(Folded(t))
    <3>1. IsFiniteSet(Range(idioms)) /\ Folded(t) \in SUBSET Range(idioms)
      <4> HIDE DEF idioms
      <4> QED  BY <1>2, RangeIsFinite
    <3> HIDE DEF idioms, Folded
    <3> QED  BY <3>1, FS_Subset
  <2>5. \A d \in Folded(t) : IsConstraint(d.constraint)
    <3> HIDE DEF idioms
    <3> QED  BY <1>2
  <2> HIDE DEF fold, Folded
  <2> QED  BY <2>1, <2>2, <2>3, <2>4, <2>5, FoldConstraintsIs
<1>6. IsParts(mid) /\ Len(mid) = Len(ps) /\ \A k \in 1..Len(ps) : SameHead(mid[k], ps[k])
  <2>1. /\ mid = [t \in 1..Len(ps) |-> mid[t]]
        /\ \A t \in 1..Len(ps) : mid[t] = IF t \in T THEN [ps[t] EXCEPT !.stmt = fold[t]] ELSE ps[t]
    <3> HIDE DEF T, fold
    <3> QED  OBVIOUS
  <2>2. \A t \in 1..Len(ps) : t \in T => IsStatement(fold[t]) /\ Alike(fold[t], ps[t].stmt)
    BY <1>5
  <2> HIDE DEF mid, T, fold
  <2> QED  BY <2>1, <2>2, RewrittenIs
<1> HIDE DEF mid, n
<1>7. ds = [k \in 1..Len(idioms) |-> ds[k]] /\ \A k \in 1..Len(idioms) : ds[k].line = ps[idioms[k].alter].line
  <2>1. ds = [k \in DOMAIN idioms |-> Diagnostic(Rule(type), ps[idioms[k].alter].line, Fixed)]
    BY DEF check_constraints
  <2>2. DOMAIN idioms = 1..Len(idioms)
    BY <1>2, SeqFacts
  <2> HIDE DEF ds, idioms
  <2> QED  BY <2>1, <2>2 DEF Diagnostic
<1> HIDE DEF ds, idioms, M
<1>8. "alter_table" \in Foldable
  BY DEF Foldable
<1>9. AreFolds(idioms, ps, "alter_table", M) /\ SameHeads(mid, ps) /\ EachReported(ds, idioms, ps)
  BY <1>2, <1>6, <1>7 DEF AreFolds, SameHeads, EachReported
<1>10. Folds(Result(drop_parts(mid, [k \in DOMAIN idioms |-> idioms[k].alter]), ds), ps, M)
  BY <1>8, <1>9, FoldedIs
<1> QED  BY <1>4, <1>10 DEF M

LEMMA FixIdentityAddsIs ==
  ASSUME NEW ps, IsParts(ps)
  PROVE  Folds(fix_identity_adds(ps), ps, {i \in 1..Len(ps) : IdentityAt(ps, i)})
<1> DEFINE adds == detect_identity_adds(ps)
           n == Len(ps)
           Folded(t) == {d \in Range(adds) : d.table = t}
           T == {t \in 1..n : Folded(t) # {}}
           fold == [t \in 1..n |-> FoldIdentities(ps[t].stmt, Folded(t))]
           mid == [t \in 1..n |-> IF t \in T THEN [ps[t] EXCEPT !.stmt = fold[t]] ELSE ps[t]]
           M == {i \in 1..Len(ps) : IdentityAt(ps, i)}
           ds == check_identity_adds(ps)
<1>1. n \in Nat /\ DOMAIN ps = 1..n
  BY PartsFacts
<1>2. /\ IsSeq(adds) /\ \A d \in Range(adds) : IsFold(ps, d, "dump_identity") /\ d.cache \in CacheOption
      /\ \A i \in M : \E d \in Range(adds) : d.alter = i
  BY DetectIdentityAddsIs
<1>3. Rewritten(ps, adds, FoldIdentities) = mid
  <2>1. Rewritten(ps, adds, FoldIdentities) =
          [t \in DOMAIN ps |-> IF Folded(t) = {} THEN ps[t] ELSE [ps[t] EXCEPT !.stmt = FoldIdentities(ps[t].stmt, Folded(t))]]
    BY DEF Rewritten
  <2> HIDE DEF Folded, n, adds
  <2> QED  BY <1>1, <2>1
<1>4. fix_identity_adds(ps) = Result(drop_parts(mid, [k \in DOMAIN adds |-> adds[k].alter]), ds)
  <2>1. fix_identity_adds(ps) =
          Result(drop_parts(Rewritten(ps, adds, FoldIdentities), [k \in DOMAIN adds |-> adds[k].alter]), ds)
    BY DEF fix_identity_adds
  <2> HIDE DEF mid, ds, adds
  <2> QED  BY <1>3, <2>1
<1>5. ASSUME NEW t \in 1..n, t \in T
      PROVE  IsStatement(fold[t]) /\ Alike(fold[t], ps[t].stmt)
  <2>1. ps[t].stmt.kind = "create_table"
    <3>1. PICK d \in Range(adds) : d.table = t
      BY <1>5
    <3> HIDE DEF adds
    <3> QED  BY <1>2, <3>1 DEF IsFold
  <2>2. IsStatement(ps[t].stmt)
    BY DEF IsParts, IsPart
  <2>3. fold[t] = FoldIdentities(ps[t].stmt, Folded(t))
    OBVIOUS
  <2>4. \A a \in Folded(t) : a.cache \in CacheOption /\ a.alter \in 1..n
    <3> HIDE DEF adds
    <3> QED  BY <1>2 DEF IsFold
  <2> HIDE DEF fold, Folded, n
  <2> QED  BY <1>1, <2>1, <2>2, <2>3, <2>4, FoldIdentitiesIs
<1>6. IsParts(mid) /\ Len(mid) = Len(ps) /\ \A k \in 1..Len(ps) : SameHead(mid[k], ps[k])
  <2>1. /\ mid = [t \in 1..Len(ps) |-> mid[t]]
        /\ \A t \in 1..Len(ps) : mid[t] = IF t \in T THEN [ps[t] EXCEPT !.stmt = fold[t]] ELSE ps[t]
    <3> HIDE DEF T, fold
    <3> QED  OBVIOUS
  <2>2. \A t \in 1..Len(ps) : t \in T => IsStatement(fold[t]) /\ Alike(fold[t], ps[t].stmt)
    BY <1>5
  <2> HIDE DEF mid, T, fold
  <2> QED  BY <2>1, <2>2, RewrittenIs
<1> HIDE DEF mid, n
<1>7. ds = [k \in 1..Len(adds) |-> ds[k]] /\ \A k \in 1..Len(adds) : ds[k].line = ps[adds[k].alter].line
  <2>1. ds = [k \in DOMAIN adds |->
                Diagnostic("IdentityAddGeneratedCollapse", ps[adds[k].alter].line,
                           IF setval_may_miss(ps[adds[k].alter].stmt) THEN Warned ELSE Fixed)]
    BY DEF check_identity_adds
  <2>2. DOMAIN adds = 1..Len(adds)
    BY <1>2, SeqFacts
  <2> HIDE DEF ds, adds
  <2> QED  BY <2>1, <2>2 DEF Diagnostic
<1> HIDE DEF ds, adds, M
<1>8. "dump_identity" \in Foldable
  BY DEF Foldable
<1>9. AreFolds(adds, ps, "dump_identity", M) /\ SameHeads(mid, ps) /\ EachReported(ds, adds, ps)
  BY <1>2, <1>6, <1>7 DEF AreFolds, SameHeads, EachReported
<1>10. Folds(Result(drop_parts(mid, [k \in DOMAIN adds |-> adds[k].alter]), ds), ps, M)
  BY <1>8, <1>9, FoldedIs
<1> QED  BY <1>4, <1>10 DEF M

LEMMA FixSetCompressionIs ==
  ASSUME NEW ps, IsParts(ps)
  PROVE  Folds(fix_set_compression(ps), ps, OfKind(ps, "set_compression"))
<1> DEFINE n == Len(ps)
           S == OfKind(ps, "set_compression")
           indices == SetToSeq(S)
           one(i) == Diagnostic("AlterColumnSetCompressionStrip", ps[i].line, Fixed)
           seqs == [i \in DOMAIN ps |-> IF i \notin S THEN <<>> ELSE <<one(i)>>]
           ds == FlattenSeq(seqs)
           result == fix_set_compression(ps)
<1>1. n \in Nat /\ DOMAIN ps = 1..n
  BY PartsFacts
<1>2. S \subseteq 1..n /\ \A i \in S : ps[i].stmt.kind = "set_compression"
  BY OfKindIs
<1>3. Range(indices) = S
  <2>1. IsFiniteSet(1..n) /\ S \in SUBSET (1..n)
    BY <1>1, <1>2, FS_Interval
  <2> HIDE DEF S
  <2>2. IsFiniteSet(S)
    BY <2>1, FS_Subset
  <2> QED  BY <2>2, SetToSeqIs
<1>4. result.parts = drop_parts(ps, indices) /\ result.diagnostics = ds
  BY DEF fix_set_compression, check_set_compression, Result
<1>5. \A i \in 1..n : one(i).line = ps[i].line
  BY DEF Diagnostic
<1> HIDE DEF one, S, n, indices, result
<1>6. ASSUME NEW i \in 1..n
      PROVE  /\ IsSeq(seqs[i]) /\ \A d \in Range(seqs[i]) : d.line = ps[i].line
             /\ i \in S => one(i) \in Range(seqs[i])
  <2>1. seqs[i] = IF i \notin S THEN <<>> ELSE <<one(i)>>
    BY <1>1
  <2> HIDE DEF seqs
  <2>2. IsSeq(<<one(i)>>) /\ Range(<<one(i)>>) = {one(i)}
    BY SingletonIsSeq
  <2> QED  BY <1>5, <2>1, <2>2, EmptyIsSeq
<1>7. DiagnosticsOf(ds, ps) /\ \A i \in 1..n : Range(seqs[i]) \subseteq Range(ds)
  <2>1. seqs = [i \in 1..n |-> seqs[i]]
    BY <1>1
  <2> HIDE DEF seqs
  <2>2. \A i \in 1..n : IsSeq(seqs[i]) /\ \A d \in Range(seqs[i]) : \E k \in 1..Len(ps) : d.line = ps[k].line
    BY <1>6 DEF n
  <2> QED  BY <1>1, <2>1, <2>2, FlattenedDiagnostics
<1> HIDE DEF ds, seqs
<1>8. Rewrites(drop_parts(ps, indices), ps, S)
  BY <1>3, DroppedAfter, AlikeItself DEF SameHead
<1>9. \A i \in 1..n : i \in S => ps[i].stmt.kind \in Foldable /\ \E d \in Range(ds) : d.line = ps[i].line
  BY <1>2, <1>5, <1>6, <1>7 DEF Foldable
<1>10. Folds(result, ps, S)
  BY <1>4, <1>7, <1>8, <1>9 DEF Folds, n
<1> QED  BY <1>10 DEF result, S

------------------------------------------------------------------------------
(* The passes that only report.                                            *)

LEMMA FlattenedLines ==
  ASSUME NEW n \in Nat, NEW seqs, seqs = [k \in 1..n |-> seqs[k]], NEW line,
         \A k \in 1..n : IsSeq(seqs[k]) /\ \A d \in Range(seqs[k]) : d.line = line
  PROVE  IsSeq(FlattenSeq(seqs)) /\ \A d \in Range(FlattenSeq(seqs)) : d.line = line
<1> DEFINE flat == FlattenSeq(seqs)
<1>1. IsSeq(seqs) /\ Len(seqs) = n
  BY FunctionIsSeq
<1>2. Flattened(flat, n, seqs)
  BY <1>1, FlattenSeqIs
<1> HIDE DEF flat
<1>3. IsSeq(flat)
  BY <1>2 DEF Flattened
<1>4. PICK b \in [1..Len(flat) -> 1..n] : \A j \in 1..Len(flat) : flat[j] \in Range(seqs[b[j]])
  BY <1>2 DEF Flattened
<1>5. ASSUME NEW d \in Range(flat)
      PROVE  d.line = line
  <2>1. PICK j \in 1..Len(flat) : flat[j] = d
    BY <1>3, SeqFacts
  <2> QED  BY <1>4, <2>1
<1> QED  BY <1>3, <1>5 DEF flat

\* A pass that reports on each part by itself.
LEMMA ReportsAreOf ==
  ASSUME NEW ps, IsParts(ps), NEW seqs, seqs = [i \in 1..Len(ps) |-> seqs[i]],
         \A i \in 1..Len(ps) : IsSeq(seqs[i]) /\ \A d \in Range(seqs[i]) : d.line = ps[i].line
  PROVE  Folds(Result(ps, FlattenSeq(seqs)), ps, {})
<1> DEFINE ds == FlattenSeq(seqs)
<1>1. DiagnosticsOf(ds, ps)
  <2>1. Len(ps) \in Nat
    BY PartsFacts
  <2>2. \A i \in 1..Len(ps) : IsSeq(seqs[i]) /\ \A d \in Range(seqs[i]) : \E k \in 1..Len(ps) : d.line = ps[k].line
    OBVIOUS
  <2> QED  BY <2>1, <2>2, FlattenedDiagnostics
<1> HIDE DEF ds
<1>2. Rewrites(ps, ps, {})
  BY Identically, AlikeItself DEF SameHead
<1>3. Result(ps, ds).parts = ps /\ Result(ps, ds).diagnostics = ds
  BY DEF Result
<1>4. Folds(Result(ps, ds), ps, {})
  BY <1>1, <1>2, <1>3 DEF Folds
<1> QED  BY <1>4 DEF ds

LEMMA IdentityTargetLines ==
  ASSUME NEW ps, IsParts(ps), NEW i \in 1..Len(ps), NEW op
  PROVE  /\ IsSeq(IdentityTargetDiagnostics(ps, i, op))
         /\ \A d \in Range(IdentityTargetDiagnostics(ps, i, op)) : d.line = ps[i].line
<1> DEFINE one == Diagnostic("IdentityType", ps[i].line, Unfixable)
           two == Diagnostic("IdentityNotNull", ps[i].line, Unfixable)
           type(k) == IF ps[k].stmt.columns[op.column].type = "bigint" THEN <<>> ELSE <<one>>
           null(k) == IF IsNotNull(ps[k].stmt, op.column) THEN <<>> ELSE <<two>>
           both == [k \in 1..Len(ps) |-> type(k) \o null(k)]
           tables == Closest(ps, i, ps[i].stmt.table, op.column)
           S == {both[k] : k \in tables}
           seqs == SetToSeq(S)
<1>1. tables \subseteq 1..Len(ps) /\ IsFiniteSet(tables)
  <2>1. tables = {} \/ \E k \in 1..Len(ps) : tables = {k}
    <3> HIDE DEF tables
    <3>1. tables = {} \/ \E k \in OfKind(ps, "create_table") : tables = {k}
      BY ClosestIs DEF tables
    <3> QED  BY <3>1, OfKindIs
  <2> HIDE DEF tables
  <2>2. ASSUME NEW k, tables = {k}
        PROVE  IsFiniteSet(tables)
    BY <2>2, FS_Singleton, Zenon
  <2>3. tables = {} => IsFiniteSet(tables)
    BY FS_EmptySet, Zenon
  <2> QED  BY <2>1, <2>2, <2>3
<1>2. IdentityTargetDiagnostics(ps, i, op) = FlattenSeq(SetToSeq({type(k) \o null(k) : k \in tables}))
  BY DEF IdentityTargetDiagnostics
<1>3. one.line = ps[i].line /\ two.line = ps[i].line
  BY DEF Diagnostic
<1> HIDE DEF one, two
<1>4. \A k \in 1..Len(ps) : /\ IsSeq(type(k)) /\ \A d \in Range(type(k)) : d.line = ps[i].line
                            /\ IsSeq(null(k)) /\ \A d \in Range(null(k)) : d.line = ps[i].line
  <2>1. /\ IsSeq(<<one>>) /\ Range(<<one>>) = {one}
        /\ IsSeq(<<two>>) /\ Range(<<two>>) = {two}
    BY SingletonIsSeq
  <2> QED  BY <1>3, <2>1, EmptyIsSeq
<1> HIDE DEF type, null
<1>5. \A k \in 1..Len(ps) : IsSeq(both[k]) /\ \A d \in Range(both[k]) : d.line = ps[i].line
  <2> SUFFICES ASSUME NEW k \in 1..Len(ps)
               PROVE  IsSeq(both[k]) /\ \A d \in Range(both[k]) : d.line = ps[i].line
    OBVIOUS
  <2>1. both[k] = type(k) \o null(k)
    OBVIOUS
  <2>2. IsSeq(type(k) \o null(k)) /\ Range(type(k) \o null(k)) = Range(type(k)) \cup Range(null(k))
    BY <1>4, ConcatIsSeq
  <2> HIDE DEF both
  <2> QED  BY <1>4, <2>1, <2>2
<1>6. {type(k) \o null(k) : k \in tables} = S
  <2>1. \A k \in tables : both[k] = type(k) \o null(k)
    BY <1>1
  <2> HIDE DEF both, tables
  <2> QED  BY <2>1, Zenon
<1> HIDE DEF both, tables
<1>7. IsSeq(seqs) /\ Range(seqs) = S
  <2>1. IsFiniteSet(S)
    BY <1>1, ImageIsFinite
  <2> HIDE DEF S
  <2> QED  BY <2>1, SetToSeqIs
<1>8. \A s \in S : IsSeq(s) /\ \A d \in Range(s) : d.line = ps[i].line
  BY <1>1, <1>5
<1> HIDE DEF S
<1>9. seqs = [k \in 1..Len(seqs) |-> seqs[k]] /\ Len(seqs) \in Nat /\ \A k \in 1..Len(seqs) : seqs[k] \in S
  BY <1>7, SeqFacts
<1> HIDE DEF seqs
<1>10. IsSeq(FlattenSeq(seqs)) /\ \A d \in Range(FlattenSeq(seqs)) : d.line = ps[i].line
  BY <1>8, <1>9, FlattenedLines
<1> QED  BY <1>2, <1>6, <1>10 DEF seqs

LEMMA CheckIdentityTargetsIs ==
  ASSUME NEW ps, IsParts(ps)
  PROVE  Folds(Result(ps, check_identity_alter_targets(ps)), ps, {})
<1> DEFINE n == Len(ps)
           alters == OfKind(ps, "alter_table")
           ops(i) == [k \in DOMAIN ps[i].stmt.ops |->
                        IF ps[i].stmt.ops[k].op # "add_identity" THEN <<>>
                        ELSE IdentityTargetDiagnostics(ps, i, ps[i].stmt.ops[k])]
           seqs == [i \in DOMAIN ps |-> IF i \notin alters THEN <<>> ELSE FlattenSeq(ops(i))]
<1>1. n \in Nat /\ DOMAIN ps = 1..n
  BY PartsFacts
<1>2. check_identity_alter_targets(ps) = FlattenSeq(seqs)
  BY DEF check_identity_alter_targets
<1>3. ASSUME NEW i \in 1..n
      PROVE  IsSeq(seqs[i]) /\ \A d \in Range(seqs[i]) : d.line = ps[i].line
  <2>1. seqs[i] = IF i \notin alters THEN <<>> ELSE FlattenSeq(ops(i))
    BY <1>1
  <2>2. ASSUME i \in alters
        PROVE  IsSeq(FlattenSeq(ops(i))) /\ \A d \in Range(FlattenSeq(ops(i))) : d.line = ps[i].line
    <3> DEFINE m == Len(ps[i].stmt.ops)
               these == ops(i)
    <3>1. ps[i].stmt.kind = "alter_table"
      BY <2>2, OfKindIs
    <3>2. IsSeq(ps[i].stmt.ops)
      BY <3>1 DEF IsParts, IsPart, IsStatement, IsAlter, IsSeq
    <3>3. m \in Nat /\ DOMAIN ps[i].stmt.ops = 1..m
      BY <3>2, SeqFacts
    <3>4. these = [k \in 1..m |-> these[k]]
      BY <3>3
    <3>5. \A k \in 1..m : these[k] = IF ps[i].stmt.ops[k].op # "add_identity" THEN <<>>
                                     ELSE IdentityTargetDiagnostics(ps, i, ps[i].stmt.ops[k])
      BY <3>3
    <3> DEFINE line == ps[i].line
    <3> HIDE DEF these, m
    <3>6. \A k \in 1..m : IsSeq(these[k]) /\ \A d \in Range(these[k]) : d.line = line
      BY <3>5, IdentityTargetLines, EmptyIsSeq
    <3> HIDE DEF line
    <3>7. IsSeq(FlattenSeq(these)) /\ \A d \in Range(FlattenSeq(these)) : d.line = line
      BY <3>3, <3>4, <3>6, FlattenedLines
    <3> QED  BY <3>7 DEF these, line
  <2> HIDE DEF seqs, alters, ops
  <2> QED  BY <2>1, <2>2, EmptyIsSeq
<1>4. seqs = [i \in 1..n |-> seqs[i]]
  BY <1>1
<1> HIDE DEF seqs
<1> QED  BY <1>2, <1>3, <1>4, ReportsAreOf

LEMMA CheckRemovalsIs ==
  ASSUME NEW ps, IsParts(ps)
  PROVE  Folds(Result(ps, check_primary_key_removals(ps)), ps, {})
<1> DEFINE n == Len(ps)
           alters == OfKind(ps, "alter_table")
           removals(i) == {m \in DOMAIN ps[i].stmt.ops : \E k \in Target(ps, i) : Removes(ps[i].stmt.ops[m], ps[k].stmt)}
           these(i) == [m \in 1..Cardinality(removals(i)) |-> Diagnostic("PrimaryKeyRemoval", ps[i].line, Unfixable)]
           seqs == [i \in DOMAIN ps |-> IF i \notin alters THEN <<>> ELSE these(i)]
<1>1. n \in Nat /\ DOMAIN ps = 1..n
  BY PartsFacts
<1>2. check_primary_key_removals(ps) = FlattenSeq(seqs)
  BY DEF check_primary_key_removals
<1>3. ASSUME NEW i \in 1..n
      PROVE  IsSeq(seqs[i]) /\ \A d \in Range(seqs[i]) : d.line = ps[i].line
  <2>1. seqs[i] = IF i \notin alters THEN <<>> ELSE these(i)
    BY <1>1
  <2>2. ASSUME i \in alters
        PROVE  IsSeq(these(i)) /\ \A d \in Range(these(i)) : d.line = ps[i].line
    <3> DEFINE c == Cardinality(removals(i))
               one == Diagnostic("PrimaryKeyRemoval", ps[i].line, Unfixable)
               ds == [m \in 1..c |-> one]
    <3>1. ps[i].stmt.kind = "alter_table"
      BY <2>2, OfKindIs
    <3>2. IsSeq(ps[i].stmt.ops)
      BY <3>1 DEF IsParts, IsPart, IsStatement, IsAlter, IsSeq
    <3>3. IsFiniteSet(DOMAIN ps[i].stmt.ops)
      <4>1. Len(ps[i].stmt.ops) \in Nat /\ DOMAIN ps[i].stmt.ops = 1..Len(ps[i].stmt.ops)
        BY <3>2, SeqFacts
      <4>2. \A m \in Nat : IsFiniteSet(1..m)
        BY FS_Interval
      <4> QED  BY <4>1, <4>2, Zenon
    <3>4. IsFiniteSet(removals(i))
      BY <3>3, FS_Subset
    <3> HIDE DEF removals
    <3>5. c \in Nat
      BY <3>4, FS_CardinalityType
    <3>6. one.line = ps[i].line
      BY DEF Diagnostic
    <3> HIDE DEF c, one
    <3>7. IsSeq(ds) /\ Len(ds) = c /\ \A m \in 1..c : ds[m] = one
      BY <3>5, FunctionIsSeq
    <3>8. \A d \in Range(ds) : d = one
      BY <3>7, SeqFacts
    <3> QED  BY <3>6, <3>7, <3>8 DEF c, one
  <2> HIDE DEF seqs, alters, these
  <2> QED  BY <2>1, <2>2, EmptyIsSeq
<1>4. seqs = [i \in 1..n |-> seqs[i]]
  BY <1>1
<1> HIDE DEF seqs
<1> QED  BY <1>2, <1>3, <1>4, ReportsAreOf


------------------------------------------------------------------------------
(* MySQL.                                                                  *)

\* The instance has operators of its own for what both modules extend.
LEMMA SameFlattenSeq ==
  ASSUME NEW seqs
  PROVE  MySql!FlattenSeq(seqs) = FlattenSeq(seqs)
BY DEF MySql!FlattenSeq, FlattenSeq

LEMMA SameSetToSeq ==
  ASSUME NEW S
  PROVE  MySql!SetToSeq(S) = SetToSeq(S)
BY DEF MySql!SetToSeq, SetToSeq, MySql!IsInjective, IsInjective,
       MySql!Cardinality, Cardinality, MySql!IsFiniteSet, IsFiniteSet

LEMMA SameRecords ==
  /\ MySql!Unfixable = Unfixable
  /\ \A r, l, f : MySql!Diagnostic(r, l, f) = Diagnostic(r, l, f)
  /\ \A ps, ds : MySql!Result(ps, ds) = Result(ps, ds)
BY DEF MySql!Unfixable, Unfixable, MySql!Diagnostic, Diagnostic, MySql!Result, Result

LEMMA MySqlReportIsSeq ==
  ASSUME NEW c, NEW r
  PROVE  IsSeq(MySql!Report(c, r))
<1>1. IsSeq(<<>>) /\ IsSeq(<<MySql!Found(r, MySql!Warned)>>)
  BY EmptyIsSeq, SingletonIsSeq
<1> QED  BY <1>1, Zenon DEF MySql!Report

LEMMA MySqlColumnFoundIsSeq ==
  ASSUME NEW c
  PROVE  IsSeq(MySql!ColumnFound(c))
<1> DEFINE kept == MySql!normalize_column(c, "absent").literal
           one == <<MySql!Found("MysqlAutoIncrementToIdentity", MySql!Warned)>>
           found == IF c.auto_increment THEN one ELSE MySql!TypeFound(c.type)
           invalid == MySql!Report(~c.auto_increment /\ c.literal # {} /\ kept = {}, "MysqlInvalidDefaultDropped")
           update == MySql!Report(c.on_update, "MysqlOnUpdateDropped")
<1>1. MySql!ColumnFound(c) = found \o invalid \o update
  BY DEF MySql!ColumnFound
<1>2. IsSeq(invalid) /\ IsSeq(update)
  BY MySqlReportIsSeq
<1>3. IsSeq(MySql!TypeFound(c.type))
  <2> DEFINE wide == MySql!Report(c.type \in DOMAIN MySql!Unsigned, "MysqlUnsignedWidened")
             enum == MySql!Report(c.type = "enum", "MysqlEnumToVarchar")
             set == MySql!Report(c.type = "set", "MysqlSetToText")
  <2>1. MySql!TypeFound(c.type) = wide \o enum \o set
    BY DEF MySql!TypeFound
  <2>2. IsSeq(wide) /\ IsSeq(enum) /\ IsSeq(set)
    BY MySqlReportIsSeq
  <2> HIDE DEF wide, enum, set
  <2> QED  BY <2>1, <2>2, ConcatIsSeq
<1>4. IsSeq(found)
  <2>1. IsSeq(one)
    BY SingletonIsSeq
  <2> HIDE DEF one
  <2> QED  BY <1>3, <2>1
<1> HIDE DEF found, invalid, update
<1> QED  BY <1>1, <1>2, <1>4, ConcatIsSeq

LEMMA MySqlConstraintFoundIsSeq ==
  ASSUME NEW c
  PROVE  IsSeq(MySql!ConstraintFound(c))
<1> DEFINE renamed == MySql!Report(c.type \in {"unique", "index"} /\ c.name # MySql!NoName, "MysqlIndexRenamed")
           prefix == MySql!Report(c.type \in {"primary_key", "unique"} /\ c.prefix, "MysqlIndexPrefixDropped")
<1>1. MySql!ConstraintFound(c) = renamed \o prefix
  BY DEF MySql!ConstraintFound
<1>2. IsSeq(renamed) /\ IsSeq(prefix)
  BY MySqlReportIsSeq
<1> HIDE DEF renamed, prefix
<1> QED  BY <1>1, <1>2, ConcatIsSeq

LEMMA MySqlTableFoundIsSeq ==
  ASSUME NEW s, IsTable(s)
  PROVE  IsSeq(MySql!TableFound(s))
<1> DEFINE names == MySql!SetToSeq(DOMAIN s.columns)
           constraints == MySql!SetToSeq(s.constraints)
           ofColumns == [k \in DOMAIN names |-> MySql!ColumnFound(s.columns[names[k]])]
           ofConstraints == [k \in DOMAIN constraints |-> MySql!ConstraintFound(constraints[k])]
<1>1. MySql!TableFound(s) = MySql!FlattenSeq(ofColumns) \o MySql!FlattenSeq(ofConstraints)
  BY DEF MySql!TableFound
<1>2. IsSeq(FlattenSeq(ofColumns))
  <2>1. IsSeq(names)
    BY SameSetToSeq, SetToSeqIs DEF IsTable
  <2> HIDE DEF names
  <2>2. Len(names) \in Nat /\ DOMAIN names = 1..Len(names)
    BY <2>1, SeqFacts
  <2>3. ofColumns = [k \in 1..Len(names) |-> ofColumns[k]]
        /\ \A k \in 1..Len(names) : ofColumns[k] = MySql!ColumnFound(s.columns[names[k]])
    BY <2>2
  <2> HIDE DEF ofColumns
  <2> QED  BY <2>2, <2>3, FlattenIsSeq, MySqlColumnFoundIsSeq
<1>3. IsSeq(FlattenSeq(ofConstraints))
  <2>1. IsSeq(constraints)
    BY SameSetToSeq, SetToSeqIs DEF IsTable
  <2> HIDE DEF constraints
  <2>2. Len(constraints) \in Nat /\ DOMAIN constraints = 1..Len(constraints)
    BY <2>1, SeqFacts
  <2>3. ofConstraints = [k \in 1..Len(constraints) |-> ofConstraints[k]]
        /\ \A k \in 1..Len(constraints) : ofConstraints[k] = MySql!ConstraintFound(constraints[k])
    BY <2>2
  <2> HIDE DEF ofConstraints
  <2> QED  BY <2>2, <2>3, FlattenIsSeq, MySqlConstraintFoundIsSeq
<1> HIDE DEF ofColumns, ofConstraints
<1> QED  BY <1>1, <1>2, <1>3, SameFlattenSeq, ConcatIsSeq

LEMMA TranslationFoundIs ==
  ASSUME NEW s, IsMySqlStatement(s)
  PROVE  /\ IsSeq(MySql!TranslationFound(s))
         /\ s.kind \in {"insert", "update", "delete"} =>
              \E d \in Range(MySql!TranslationFound(s)) : d.fix_result = Unfixable
<1> DEFINE one == MySql!Found("MysqlDataStatementDropped", MySql!Unfixable)
           dml == s.kind \in {"insert", "update", "delete"}
<1>1. IsSeq(<<one>>) /\ Range(<<one>>) = {one}
  BY SingletonIsSeq
<1>2. one.fix_result = Unfixable
  BY SameRecords DEF MySql!Found
<1> HIDE DEF one
<1>3. dml => MySql!TranslationFound(s) = <<one>>
  BY DEF MySql!TranslationFound, MySql!is_dml, one
<1>4. ~dml /\ s.kind = "create_table" => MySql!TranslationFound(s) = MySql!TableFound(s) /\ IsTable(s)
  BY DEF MySql!TranslationFound, MySql!is_dml, MySql!is_mysql_only_noise, IsMySqlStatement, IsMySqlTable
<1>5. ~dml /\ s.kind # "create_table" => MySql!TranslationFound(s) = <<>>
  BY DEF MySql!TranslationFound, MySql!is_dml
<1> HIDE DEF dml
<1> QED  BY <1>1, <1>2, <1>3, <1>4, <1>5, EmptyIsSeq, MySqlTableFoundIsSeq DEF dml


LEMMA NormalizedType ==
  ASSUME NEW type \in MySqlColumnTypes
  PROVE  MySql!normalize_data_type(type) \in ColumnTypes
<1>1. CASE type \in DOMAIN MySql!Unsigned
  <2>1. MySql!normalize_data_type(type) = MySql!Unsigned[type]
    BY <1>1 DEF MySql!normalize_data_type, MySql!Unsigned, MySql!Spelled
  <2>2. MySql!Unsigned[type] \in Numeric
    BY <1>1 DEF MySql!Unsigned, Numeric
  <2> QED  BY <2>1, <2>2 DEF ColumnTypes
<1>2. CASE type \in DOMAIN MySql!Spelled
  <2>1. MySql!normalize_data_type(type) = MySql!Spelled[type]
    BY <1>2 DEF MySql!normalize_data_type, MySql!Unsigned, MySql!Spelled
  <2>2. MySql!Spelled[type] \in Numeric \cup DatesAndTimes \cup {"boolean", "bytea", "text"}
    BY <1>2 DEF MySql!Spelled, Numeric, DatesAndTimes
  <2> QED  BY <2>1, <2>2 DEF ColumnTypes
<1>3. CASE type \in {"enum", "set"}
  BY <1>3 DEF MySql!normalize_data_type, MySql!Unsigned, MySql!Spelled, ColumnTypes
<1>4. CASE type \notin DOMAIN MySql!Unsigned \cup DOMAIN MySql!Spelled \cup {"enum", "set"}
  BY <1>4 DEF MySql!normalize_data_type, MySqlColumnTypes
<1> QED  BY <1>1, <1>2, <1>3, <1>4

LEMMA NormalizeColumnIs ==
  ASSUME NEW c, NEW seed, c.type \in MySqlColumnTypes
  PROVE  IsColumn(MySql!normalize_column(c, seed))
<1> DEFINE new == MySql!normalize_column(c, seed)
           i == MySql!normalize_auto_increment(seed)
<1>1. {"type", "not_null", "default", "literal", "identity", "collate", "references", "inline"} \subseteq DOMAIN new
  BY DEF MySql!normalize_column
<1>2. new.references = {} /\ new.inline = {} /\ new.identity = IF c.auto_increment THEN {i} ELSE {}
  BY DEF MySql!normalize_column
<1>3. IsIdentity(i)
  BY DEF MySql!normalize_auto_increment, IsIdentity, CacheOption, CacheExpression
<1>4. new.type \in {"bigint", MySql!normalize_data_type(c.type)}
  BY DEF MySql!normalize_column
<1> HIDE DEF new, i
<1>5. IsFiniteSet({}) /\ IsFiniteSet({i})
  BY FS_EmptySet, FS_Singleton
<1>6. new.type \in ColumnTypes
  BY <1>4, NormalizedType DEF ColumnTypes, Numeric
<1>7. IsColumn(new)
  BY <1>1, <1>2, <1>3, <1>5, <1>6 DEF IsColumn
<1> QED  BY <1>7 DEF new

LEMMA UnparsableIs ==
  IsStatement(MySql!Unparsable) /\ MySql!Unparsable.kind = "unparsable"
BY DEF MySql!Unparsable, IsStatement, StatementKinds

LEMMA NormalizeTableIs ==
  ASSUME NEW s, IsMySqlTable(s)
  PROVE  IsStatement(MySql!normalize_table(s))
<1> DEFINE inline == s.constraints \ MySql!Lifted(s)
           renamed == [c \in s.constraints |-> MySql!unquote_constraint(s.table, c)]
           constraints == {MySql!unquote_constraint(s.table, c) : c \in inline}
           columns == [n \in DOMAIN s.columns |-> MySql!normalize_column(s.columns[n], s.seed)]
           new == [kind |-> "create_table", table |-> [s.table EXCEPT !.name = MySql!Read(@)],
                   columns |-> columns, constraints |-> constraints, clauses |-> {}]
<1>1. MySql!normalize_table(s) \in {new, MySql!Unparsable}
  BY DEF MySql!normalize_table
<1>2. IsFiniteSet(constraints)
  <2>1. IsFiniteSet(inline)
    <3> HIDE DEF inline
    <3>1. inline \in SUBSET s.constraints /\ IsFiniteSet(s.constraints)
      BY DEF inline, IsMySqlTable, IsTable
    <3> QED  BY <3>1, FS_Subset
  <2> DEFINE image == {renamed[c] : c \in inline}
  <2>2. constraints = image
    <3>1. \A c \in inline : renamed[c] = MySql!unquote_constraint(s.table, c)
      OBVIOUS
    <3> HIDE DEF renamed, inline
    <3> QED  BY <3>1, Zenon
  <2> HIDE DEF inline, renamed
  <2>3. IsFiniteSet(image)
    BY <2>1, ImageIsFinite
  <2> QED  BY <2>2, <2>3
<1>3. /\ DOMAIN columns = DOMAIN s.columns
      /\ \A n \in DOMAIN s.columns : IsColumn(columns[n])
  BY NormalizeColumnIs DEF IsMySqlTable
<1>4. IsFiniteSet(DOMAIN s.columns)
  BY DEF IsMySqlTable, IsTable
<1>5. /\ {"kind", "table", "columns", "constraints", "clauses"} \subseteq DOMAIN new
      /\ new.kind = "create_table" /\ new.columns = columns /\ new.constraints = constraints
      /\ new.clauses = {}
  <2> HIDE DEF columns, constraints
  <2> QED  OBVIOUS
<1>6. \A c \in constraints : IsConstraint(c)
  <2>1. \A c \in inline : c.type \in ConstraintTypes
    BY DEF MySql!Lifted, IsMySqlTable
  <2>2. \A c \in inline : IsConstraint(MySql!unquote_constraint(s.table, c))
    BY <2>1 DEF MySql!unquote_constraint, IsConstraint, IsForeignKey
  <2> QED  BY <2>2
<1> HIDE DEF new, columns, constraints
<1>7. IsStatement(new)
  BY <1>2, <1>3, <1>4, <1>5, <1>6 DEF IsStatement, IsCreateTable, IsTable, StatementKinds
<1> QED  BY <1>1, <1>7, UnparsableIs

LEMMA IndexStatementIs ==
  ASSUME NEW s, NEW c
  PROVE  IsStatement(MySql!IndexStatement(s, c))
<1>1. /\ {"kind", "concurrently", "async", "using", "sort", "volatile"} \subseteq DOMAIN MySql!lift_index(s.table, c)
      /\ MySql!lift_index(s.table, c).kind = "create_index"
  BY DEF MySql!lift_index
<1>2. IsStatement(MySql!lift_index(s.table, c))
  BY <1>1 DEF IsStatement, StatementKinds
<1> QED  BY <1>2, UnparsableIs DEF MySql!IndexStatement

\* All that a statement becomes.
IsOutput(out) == IsSeq(out) /\ \A k \in 1..Len(out) : IsStatement(out[k])

LEMMA OneOutput ==
  ASSUME NEW s, IsStatement(s)
  PROVE  IsOutput(<<s>>)
<1>1. IsSeq(<<s>>) /\ Range(<<s>>) = {s}
  BY SingletonIsSeq
<1> DEFINE out == <<s>>
<1> HIDE DEF out
<1>2. IsOutput(out)
  BY <1>1, SeqFacts DEF IsOutput, out
<1> QED  BY <1>2 DEF out

LEMMA NormalizeCreateTableIs ==
  ASSUME NEW s, IsMySqlTable(s), s.kind = "create_table"
  PROVE  IsOutput(MySql!normalize_statement(s))
<1> DEFINE keys == MySql!SetToSeq(MySql!Lifted(s))
           first == MySql!normalize_table(s)
           indexes == [k \in DOMAIN keys |-> MySql!IndexStatement(s, keys[k])]
           out == <<first>> \o indexes
<1>1. MySql!normalize_statement(s) = out
  BY DEF MySql!normalize_statement
<1>2. IsSeq(keys)
  <2>1. MySql!Lifted(s) \in SUBSET s.constraints /\ IsFiniteSet(s.constraints)
    BY DEF MySql!Lifted, IsMySqlTable, IsTable
  <2>2. IsFiniteSet(MySql!Lifted(s))
    BY <2>1, FS_Subset
  <2> QED  BY <2>2, SameSetToSeq, SetToSeqIs
<1> HIDE DEF keys
<1>3. Len(keys) \in Nat /\ DOMAIN keys = 1..Len(keys)
  BY <1>2, SeqFacts
<1>4. /\ indexes = [k \in 1..Len(keys) |-> indexes[k]]
      /\ \A k \in 1..Len(keys) : IsStatement(indexes[k])
  BY <1>3, IndexStatementIs
<1> HIDE DEF indexes
<1>5. IsSeq(indexes) /\ Len(indexes) = Len(keys)
  BY <1>3, <1>4, FunctionIsSeq
<1>6. \A x \in Range(indexes) : IsStatement(x)
  BY <1>4, <1>5, SeqFacts
<1>7. IsStatement(first)
  BY NormalizeTableIs
<1> HIDE DEF first
<1>8. IsSeq(<<first>>) /\ Range(<<first>>) = {first}
  BY SingletonIsSeq
<1>9. IsSeq(out) /\ Range(out) = {first} \cup Range(indexes)
  BY <1>5, <1>8, ConcatIsSeq
<1> HIDE DEF out
<1>10. IsOutput(out)
  BY <1>6, <1>7, <1>9, SeqFacts DEF IsOutput
<1> QED  BY <1>1, <1>10

LEMMA NormalizeStatementIs ==
  ASSUME NEW s, s.kind # "unparsable", IsMySqlStatement(s), ~MySql!is_mysql_only_noise(s), ~MySql!is_dml(s)
  PROVE  IsOutput(MySql!normalize_statement(s))
<1>1. CASE s.kind = "create_table"
  <2>1. IsMySqlTable(s)
    BY <1>1 DEF IsMySqlStatement
  <2> QED  BY <1>1, <2>1, NormalizeCreateTableIs
<1>2. CASE s.kind = "drop_table"
  <2> DEFINE new == [s EXCEPT !.table.name = MySql!Read(@)]
             one == IF MySql!Readable({s.table.name}) THEN new ELSE MySql!Unparsable
  <2>1. "kind" \in DOMAIN s
    BY <1>2 DEF IsMySqlStatement, IsStatement
  <2>2. "kind" \in DOMAIN new /\ new.kind = "drop_table"
    BY <1>2, <2>1
  <2> HIDE DEF new
  <2>3. IsStatement(new)
    BY <2>2 DEF IsStatement, StatementKinds, DsqlPlain
  <2>4. IsStatement(one)
    BY <2>3, UnparsableIs
  <2>5. MySql!normalize_statement(s) = <<one>>
    BY <1>2 DEF MySql!normalize_statement, new
  <2> HIDE DEF one
  <2> QED  BY <2>4, <2>5, OneOutput
<1>3. CASE s.kind # "create_table" /\ s.kind # "drop_table"
  <2>1. IsStatement(s)
    BY <1>3 DEF IsMySqlStatement
  <2>2. MySql!normalize_statement(s) = <<s>>
    BY <1>3 DEF MySql!normalize_statement
  <2> QED  BY <2>1, <2>2, OneOutput
<1> QED  BY <1>1, <1>2, <1>3

LEMMA TranslatedIs ==
  ASSUME NEW s, IsMySqlStatement(s)
  PROVE  /\ IsOutput(MySql!Translated(s))
         /\ s.kind = "unparsable" /\ s.object = "table" =>
              MySql!Unparsable \in Range(MySql!Translated(s))
<1> DEFINE one == <<MySql!Unparsable>>
           out == MySql!Translated(s)
<1>1. IsOutput(one) /\ Range(one) = {MySql!Unparsable}
  BY OneOutput, UnparsableIs, SingletonIsSeq
<1>2. IsOutput(<<>>)
  BY EmptyIsSeq DEF IsOutput
<1>3. CASE s.kind = "unparsable"
  <2>1. out = IF MySql!opens_create_table(s.words) THEN one ELSE <<>>
    BY <1>3 DEF MySql!Translated, MySql!is_mysql_only_noise, MySql!is_dml
  <2>2. s.object = "table" => MySql!opens_create_table(s.words)
    BY <1>3 DEF IsMySqlStatement, MySql!is_mysql_only_noise, MySql!is_dml, MySql!opens_create_table, MySql!Modifiers
  <2> HIDE DEF one, out
  <2> QED  BY <1>1, <1>2, <2>1, <2>2 DEF out
<1>4. CASE s.kind # "unparsable"
  <2>1. \/ out = <<>>
        \/ out = MySql!normalize_statement(s) /\ ~(MySql!is_mysql_only_noise(s) \/ MySql!is_dml(s))
    <3> HIDE DEF MySql!is_mysql_only_noise, MySql!is_dml
    <3>1. MySql!Translated(s) = IF MySql!is_mysql_only_noise(s) \/ MySql!is_dml(s) THEN <<>> ELSE MySql!normalize_statement(s)
      BY <1>4 DEF MySql!Translated
    <3> QED  BY <3>1
  <2> HIDE DEF out
  <2> QED  BY <1>2, <1>4, <2>1, NormalizeStatementIs DEF out
<1> QED  BY <1>3, <1>4


\* A dump's statements, numbered.
IsDump(ps) ==
  /\ IsSeq(ps)
  /\ \A i \in 1..Len(ps) : ps[i].line = i /\ IsMySqlStatement(ps[i].stmt)

Ordered(ps) == \A j, k \in 1..Len(ps) : j < k => ps[j].line <= ps[k].line
Within(seq, n) == IsSeq(seq) /\ \A k \in 1..Len(seq) : seq[k].line \in 1..n

\* The parts that come from part p, and the reports.
OutputOf(out, p) ==
  /\ IsSeq(out)
  /\ \A x \in Range(out) : IsPart(x) /\ x.line = p.line
  /\ p.stmt.kind = "unparsable" /\ p.stmt.object = "table" =>
       \E x \in Range(out) : x.stmt.kind = "unparsable"
ReportsOf(ds, p) ==
  /\ IsSeq(ds)
  /\ \A d \in Range(ds) : d.line = p.line
  /\ p.stmt.kind \in {"insert", "update", "delete"} => \E d \in Range(ds) : d.fix_result = Unfixable

LEMMA TranslatedPartsAre ==
  ASSUME NEW p, IsMySqlStatement(p.stmt), NEW q,
         q = [k \in DOMAIN MySql!Translated(p.stmt) |-> [line |-> p.line, stmt |-> MySql!Translated(p.stmt)[k]]]
  PROVE  OutputOf(q, p)
<1> DEFINE out == MySql!Translated(p.stmt)
           n == Len(out)
<1>1. IsOutput(out)
  BY TranslatedIs
<1>2. IsSeq(out) /\ \A k \in 1..n : IsStatement(out[k])
  BY <1>1 DEF IsOutput
<1> HIDE DEF out
<1>3. n \in Nat /\ DOMAIN out = 1..n
  BY <1>2, SeqFacts
<1>4. /\ q = [k \in 1..n |-> q[k]]
      /\ \A k \in 1..n : q[k] = [line |-> p.line, stmt |-> out[k]]
  BY <1>3 DEF out
<1>5. IsSeq(q) /\ Len(q) = n
  BY <1>3, <1>4, FunctionIsSeq
<1>6. \A k \in 1..n : IsPart(q[k]) /\ q[k].line = p.line /\ q[k].stmt = out[k]
  BY <1>2, <1>4 DEF IsPart
<1> HIDE DEF n
<1>7. \A x \in Range(q) : IsPart(x) /\ x.line = p.line
  <2> SUFFICES ASSUME NEW x \in Range(q)
               PROVE  IsPart(x) /\ x.line = p.line
    OBVIOUS
  <2>1. PICK k \in 1..n : q[k] = x
    BY <1>5, SeqFacts
  <2> QED  BY <1>6, <2>1
<1>8. ASSUME p.stmt.kind = "unparsable" /\ p.stmt.object = "table"
      PROVE  \E x \in Range(q) : x.stmt.kind = "unparsable"
  <2>1. MySql!Unparsable \in Range(out)
    BY <1>8, TranslatedIs DEF out
  <2>2. PICK k \in 1..n : out[k] = MySql!Unparsable
    BY <1>2, <2>1, SeqFacts DEF n
  <2>3. q[k] \in Range(q) /\ q[k].stmt.kind = "unparsable"
    BY <1>5, <1>6, <2>2, SeqFacts, UnparsableIs
  <2> QED  BY <2>3
<1> QED  BY <1>5, <1>7, <1>8 DEF OutputOf

LEMMA TranslatedReportsAre ==
  ASSUME NEW p, IsMySqlStatement(p.stmt), NEW q,
         q = [k \in DOMAIN MySql!TranslationFound(p.stmt) |->
                MySql!Diagnostic(MySql!TranslationFound(p.stmt)[k].rule, p.line,
                                 MySql!TranslationFound(p.stmt)[k].fix_result)]
  PROVE  ReportsOf(q, p)
<1> DEFINE found == MySql!TranslationFound(p.stmt)
           n == Len(found)
<1>1. IsSeq(found)
  BY TranslationFoundIs
<1> HIDE DEF found
<1>2. n \in Nat /\ DOMAIN found = 1..n
  BY <1>1, SeqFacts
<1>3. /\ q = [k \in 1..n |-> q[k]]
      /\ \A k \in 1..n : q[k] = MySql!Diagnostic(found[k].rule, p.line, found[k].fix_result)
  BY <1>2 DEF found
<1>4. \A k \in 1..n : q[k].line = p.line /\ q[k].fix_result = found[k].fix_result
  BY <1>3 DEF MySql!Diagnostic
<1>5. IsSeq(q) /\ Len(q) = n
  BY <1>2, <1>3, FunctionIsSeq
<1> HIDE DEF n
<1>6. \A d \in Range(q) : d.line = p.line
  <2> SUFFICES ASSUME NEW d \in Range(q)
               PROVE  d.line = p.line
    OBVIOUS
  <2>1. PICK k \in 1..n : q[k] = d
    BY <1>5, SeqFacts
  <2> QED  BY <1>4, <2>1
<1>7. ASSUME p.stmt.kind \in {"insert", "update", "delete"}
      PROVE  \E d \in Range(q) : d.fix_result = Unfixable
  <2>1. PICK x \in Range(found) : x.fix_result = Unfixable
    BY <1>7, TranslationFoundIs DEF found
  <2>2. PICK k \in 1..n : found[k] = x
    BY <1>1, <2>1, SeqFacts DEF n
  <2>3. q[k] \in Range(q) /\ q[k].fix_result = Unfixable
    BY <1>4, <1>5, <2>1, <2>2, SeqFacts
  <2> QED  BY <2>3
<1> QED  BY <1>5, <1>6, <1>7 DEF ReportsOf

\* No statement of a dump is lost without an error.
Translates(result, ps) ==
  /\ IsParts(result.parts) /\ Within(result.parts, Len(ps)) /\ Ordered(result.parts)
  /\ Within(result.diagnostics, Len(ps))
  /\ \A i \in 1..Len(ps) : ps[i].stmt.kind = "unparsable" /\ ps[i].stmt.object = "table" =>
       \E k \in 1..Len(result.parts) : result.parts[k].line = i /\ result.parts[k].stmt.kind = "unparsable"
  /\ \A i \in 1..Len(ps) : ps[i].stmt.kind \in {"insert", "update", "delete"} =>
       \E d \in Range(result.diagnostics) : d.line = i /\ d.fix_result = Unfixable

LEMMA TranslationIs ==
  ASSUME NEW ps, IsDump(ps)
  PROVE  Translates(MySql!fix_sql_mysql(ps), ps)
<1> DEFINE n == Len(ps)
           PartsOf(p) == LET out == MySql!Translated(p.stmt) IN [k \in DOMAIN out |-> [line |-> p.line, stmt |-> out[k]]]
           DiagnosticsAt(p) ==
             LET found == MySql!TranslationFound(p.stmt)
             IN [k \in DOMAIN found |-> MySql!Diagnostic(found[k].rule, p.line, found[k].fix_result)]
           blocks == [k \in DOMAIN ps |-> PartsOf(ps[k])]
           reports == [k \in DOMAIN ps |-> DiagnosticsAt(ps[k])]
           q == FlattenSeq(blocks)
           ds == FlattenSeq(reports)
           result == MySql!fix_sql_mysql(ps)
<1>1. n \in Nat /\ DOMAIN ps = 1..n
  BY SeqFacts DEF IsDump
<1>2. result.parts = q /\ result.diagnostics = ds
  <2>1. result = MySql!Result(MySql!FlattenSeq(blocks), MySql!FlattenSeq(reports))
    BY DEF MySql!fix_sql_mysql
  <2> HIDE DEF blocks, reports, result
  <2> QED  BY <2>1, SameFlattenSeq DEF MySql!Result
<1>3. \A i \in 1..n : blocks[i] = PartsOf(ps[i]) /\ reports[i] = DiagnosticsAt(ps[i])
  BY <1>1
<1>4. \A i \in 1..n : OutputOf(blocks[i], ps[i])
  <2> SUFFICES ASSUME NEW i \in 1..n
               PROVE  OutputOf(blocks[i], ps[i])
    OBVIOUS
  <2>1. IsMySqlStatement(ps[i].stmt)
    BY DEF IsDump
  <2>2. OutputOf(PartsOf(ps[i]), ps[i])
    BY <2>1, TranslatedPartsAre
  <2> HIDE DEF blocks, PartsOf
  <2> QED  BY <1>3, <2>2
<1>5. \A i \in 1..n : ReportsOf(reports[i], ps[i])
  <2> SUFFICES ASSUME NEW i \in 1..n
               PROVE  ReportsOf(reports[i], ps[i])
    OBVIOUS
  <2>1. IsMySqlStatement(ps[i].stmt)
    BY DEF IsDump
  <2>2. ReportsOf(DiagnosticsAt(ps[i]), ps[i])
    BY <2>1, TranslatedReportsAre
  <2> HIDE DEF reports, DiagnosticsAt
  <2> QED  BY <1>3, <2>2
<1>6. blocks = [i \in 1..n |-> blocks[i]] /\ reports = [i \in 1..n |-> reports[i]]
  BY <1>1
<1> HIDE DEF blocks, reports, PartsOf, DiagnosticsAt, result
<1>7. Flattened(q, n, blocks) /\ Flattened(ds, n, reports)
  <2>1. IsSeq(blocks) /\ Len(blocks) = n /\ IsSeq(reports) /\ Len(reports) = n
    BY <1>1, <1>6, FunctionIsSeq
  <2>2. \A i \in 1..n : IsSeq(blocks[i]) /\ IsSeq(reports[i])
    BY <1>4, <1>5 DEF OutputOf, ReportsOf
  <2> QED  BY <2>1, <2>2, FlattenSeqIs
<1> HIDE DEF q, ds
<1>8. PICK b \in [1..Len(q) -> 1..n] :
        /\ \A j \in 1..Len(q) : q[j] \in Range(blocks[b[j]])
        /\ \A j, k \in 1..Len(q) : j <= k => b[j] <= b[k]
  BY <1>7 DEF Flattened
<1>9. PICK c \in [1..Len(ds) -> 1..n] : \A j \in 1..Len(ds) : ds[j] \in Range(reports[c[j]])
  BY <1>7 DEF Flattened
<1>10. IsSeq(q) /\ IsSeq(ds) /\ Len(q) \in Nat
  BY <1>7, SeqFacts DEF Flattened
<1>11. \A j \in 1..Len(q) : IsPart(q[j]) /\ q[j].line = b[j] /\ b[j] \in 1..n
  BY <1>4, <1>8 DEF OutputOf, IsDump
<1>12. \A j \in 1..Len(ds) : ds[j].line = c[j] /\ c[j] \in 1..n
  BY <1>5, <1>9 DEF ReportsOf, IsDump
<1>13. IsParts(q) /\ Within(q, n) /\ Within(ds, n)
  BY <1>10, <1>11, <1>12 DEF IsParts, Within
<1>14. Ordered(q)
  <2> SUFFICES ASSUME NEW j \in 1..Len(q), NEW k \in 1..Len(q), j < k
               PROVE  q[j].line <= q[k].line
    BY DEF Ordered
  <2>1. j <= k
    OBVIOUS
  <2> QED  BY <1>8, <1>11, <2>1
<1>15. ASSUME NEW i \in 1..n, ps[i].stmt.kind = "unparsable" /\ ps[i].stmt.object = "table"
       PROVE  \E k \in 1..Len(q) : q[k].line = i /\ q[k].stmt.kind = "unparsable"
  <2>1. PICK x \in Range(blocks[i]) : x.stmt.kind = "unparsable"
    BY <1>4, <1>15 DEF OutputOf
  <2>2. x.line = i /\ x \in Range(q)
    BY <1>4, <1>7, <2>1 DEF OutputOf, IsDump, Flattened
  <2>3. PICK k \in 1..Len(q) : q[k] = x
    BY <1>10, <2>2, SeqFacts
  <2> QED  BY <2>1, <2>2, <2>3
<1>16. ASSUME NEW i \in 1..n, ps[i].stmt.kind \in {"insert", "update", "delete"}
       PROVE  \E d \in Range(ds) : d.line = i /\ d.fix_result = Unfixable
  <2>1. PICK d \in Range(reports[i]) : d.fix_result = Unfixable
    BY <1>5, <1>16 DEF ReportsOf
  <2>2. d.line = i /\ d \in Range(ds)
    BY <1>5, <1>7, <2>1 DEF ReportsOf, IsDump, Flattened
  <2> QED  BY <2>1, <2>2
<1>17. Translates(result, ps)
  BY <1>2, <1>13, <1>14, <1>15, <1>16 DEF Translates
<1> QED  BY <1>17 DEF result

LEMMA SortedByLineIs ==
  ASSUME NEW n \in Nat, NEW ds, Within(ds, n)
  PROVE  /\ Within(MySql!SortedByLine(ds, n), n) /\ Ordered(MySql!SortedByLine(ds, n))
         /\ Range(MySql!SortedByLine(ds, n)) = Range(ds)
<1> DEFINE m == Len(ds)
           at(l) == [k \in DOMAIN ds |-> IF ds[k].line = l THEN <<ds[k]>> ELSE <<>>]
           seqs == [l \in 1..n |-> FlattenSeq(at(l))]
           sorted == FlattenSeq(seqs)
<1>1. MySql!SortedByLine(ds, n) = sorted
  <2> DEFINE theirs == [l \in 1..n |-> MySql!FlattenSeq(at(l))]
  <2>1. MySql!SortedByLine(ds, n) = MySql!FlattenSeq(theirs)
    BY DEF MySql!SortedByLine
  <2>2. theirs = seqs
    <3> HIDE DEF at
    <3> QED  BY SameFlattenSeq
  <2> HIDE DEF theirs, seqs
  <2> QED  BY <2>1, <2>2, SameFlattenSeq
<1>2. IsSeq(ds) /\ m \in Nat /\ DOMAIN ds = 1..m
  BY SeqFacts DEF Within
<1>3. ASSUME NEW l \in 1..n
      PROVE  /\ IsSeq(seqs[l])
             /\ \A d \in Range(seqs[l]) : d \in Range(ds) /\ d.line = l
             /\ \A k \in 1..m : ds[k].line = l => ds[k] \in Range(seqs[l])
  <2> DEFINE ones == at(l)
             flat == FlattenSeq(ones)
  <2>1. /\ ones = [k \in 1..m |-> ones[k]]
        /\ \A k \in 1..m : ones[k] = IF ds[k].line = l THEN <<ds[k]>> ELSE <<>>
    BY <1>2
  <2>2. seqs[l] = flat
    OBVIOUS
  <2> HIDE DEF ones, seqs
  <2>3. \A k \in 1..m : /\ IsSeq(ones[k])
                        /\ \A d \in Range(ones[k]) : d = ds[k] /\ d.line = l
                        /\ ds[k].line = l => ds[k] \in Range(ones[k])
    <3> SUFFICES ASSUME NEW k \in 1..m
                 PROVE  /\ IsSeq(ones[k])
                        /\ \A d \in Range(ones[k]) : d = ds[k] /\ d.line = l
                        /\ ds[k].line = l => ds[k] \in Range(ones[k])
      OBVIOUS
    <3>1. IsSeq(<<ds[k]>>) /\ Range(<<ds[k]>>) = {ds[k]}
      BY SingletonIsSeq
    <3> QED  BY <2>1, <3>1, EmptyIsSeq
  <2>4. IsSeq(ones) /\ Len(ones) = m
    BY <1>2, <2>1, FunctionIsSeq
  <2>5. Flattened(flat, m, ones)
    BY <2>3, <2>4, FlattenSeqIs
  <2> HIDE DEF flat
  <2>6. PICK b \in [1..Len(flat) -> 1..m] : \A j \in 1..Len(flat) : flat[j] \in Range(ones[b[j]])
    BY <2>5 DEF Flattened
  <2>7. IsSeq(flat)
    BY <2>5 DEF Flattened
  <2>8. ASSUME NEW d \in Range(flat)
        PROVE  d \in Range(ds) /\ d.line = l
    <3>1. PICK j \in 1..Len(flat) : flat[j] = d
      BY <2>7, SeqFacts
    <3>2. b[j] \in 1..m /\ d = ds[b[j]] /\ d.line = l
      BY <2>3, <2>6, <3>1
    <3> QED  BY <1>2, <3>2, SeqFacts
  <2>9. \A k \in 1..m : ds[k].line = l => ds[k] \in Range(flat)
    BY <2>3, <2>5 DEF Flattened
  <2> QED  BY <2>2, <2>7, <2>8, <2>9
<1>4. seqs = [l \in 1..n |-> seqs[l]]
  OBVIOUS
<1> HIDE DEF seqs
<1>5. Flattened(sorted, n, seqs)
  <2>1. IsSeq(seqs) /\ Len(seqs) = n
    BY <1>4, FunctionIsSeq
  <2> QED  BY <1>3, <2>1, FlattenSeqIs
<1> HIDE DEF sorted
<1>6. PICK b \in [1..Len(sorted) -> 1..n] :
        /\ \A j \in 1..Len(sorted) : sorted[j] \in Range(seqs[b[j]])
        /\ \A j, k \in 1..Len(sorted) : j <= k => b[j] <= b[k]
  BY <1>5 DEF Flattened
<1>7. IsSeq(sorted) /\ Len(sorted) \in Nat
  BY <1>5, SeqFacts DEF Flattened
<1>8. \A j \in 1..Len(sorted) : sorted[j].line = b[j] /\ b[j] \in 1..n /\ sorted[j] \in Range(ds)
  BY <1>3, <1>6
<1>9. Within(sorted, n)
  BY <1>7, <1>8 DEF Within
<1>10. Ordered(sorted)
  <2> SUFFICES ASSUME NEW j \in 1..Len(sorted), NEW k \in 1..Len(sorted), j < k
               PROVE  sorted[j].line <= sorted[k].line
    BY DEF Ordered
  <2>1. j <= k
    OBVIOUS
  <2> QED  BY <1>6, <1>8, <2>1
<1>11. Range(sorted) \subseteq Range(ds)
  BY <1>7, <1>8, SeqFacts
<1>12. ASSUME NEW d \in Range(ds)
       PROVE  d \in Range(sorted)
  <2>1. PICK k \in 1..m : ds[k] = d
    BY <1>2, SeqFacts
  <2>2. d.line \in 1..n
    BY <2>1 DEF Within
  <2> QED  BY <1>3, <1>5, <2>1, <2>2 DEF Flattened
<1> QED  BY <1>1, <1>9, <1>10, <1>11, <1>12


------------------------------------------------------------------------------
(* The invariant.                                                          *)

\* Every line of the sequence is the line of one of these statements.
From(seq, ps) == IsSeq(seq) /\ \A k \in 1..Len(seq) : \E i \in 1..Len(ps) : ps[i].line = seq[k].line

\* Every part of the input is there still, or left with an idiom; and no other part is.
Accounted(old, ps, ds) ==
  /\ \A i \in 1..Len(old) :
       \/ \E k \in 1..Len(ps) : SameHead(ps[k], old[i])
       \/ OfSerial(old, i)
       \/ old[i].stmt.kind \in Foldable /\ \E d \in Range(ds) : d.line = old[i].line
  /\ \A k \in 1..Len(ps) : \E i \in 1..Len(old) : SameHead(ps[k], old[i])

\* Passes take a script to a script.
Passing(src, old, ps, ds) ==
  /\ IsParts(old) /\ IsParts(ps)
  /\ From(ps, src) /\ Ordered(ps) /\ From(ds, src)
  /\ Accounted(old, ps, ds)

Erring(ds, l) == \E d \in Range(ds) : d.line = l /\ d.fix_result = Unfixable

\* The statements that a translation leaves out are told of; a table that it cannot
\* read is among the parts.
Translation(src, old, ds) ==
  \A i \in 1..Len(src) :
    /\ src[i].stmt.kind \in {"insert", "update", "delete"} => Erring(ds, i)
    /\ src[i].stmt.kind = "unparsable" /\ src[i].stmt.object = "table" =>
         \E k \in 1..Len(old) : old[k].line = i /\ old[k].stmt.kind = "unparsable"
TablesTold(src, ds) ==
  \A i \in 1..Len(src) : src[i].stmt.kind = "unparsable" /\ src[i].stmt.object = "table" => Erring(ds, i)

Inv ==
  /\ dialect \in {"postgres", "mysql"} /\ run \in {"first", "second"} /\ pass \in 0..10
  /\ IsSeq(source)
  /\ pass = 0 => /\ dialect = "mysql"
                 /\ From(parts, source) /\ Ordered(parts) /\ diagnostics = <<>>
  /\ pass > 0 => Passing(source, input, parts, diagnostics)
  /\ pass = 1 => parts = input
  /\ dialect = "mysql" =>
       /\ run = "first" /\ IsDump(source)
       /\ pass > 0 => Translation(source, input, diagnostics)
       /\ pass > 8 => TablesTold(source, diagnostics)
       /\ pass = 10 => Ordered(diagnostics)

\* What a pass leaves of the parts ps and the diagnostics ds.
LEMMA RewrittenScript ==
  ASSUME NEW src, IsSeq(src), NEW ps, IsParts(ps), From(ps, src), Ordered(ps), NEW ds, From(ds, src),
         NEW q, NEW D, Rewrites(q, ps, D), NEW new, DiagnosticsOf(new, ps)
  PROVE  /\ IsParts(q) /\ From(q, src) /\ Ordered(q)
         /\ From(ds \o new, src) /\ Range(ds \o new) = Range(ds) \cup Range(new)
         /\ \A k \in 1..Len(ps) : k \notin D => \E j \in 1..Len(q) : SameHead(q[j], ps[k])
         /\ \A j \in 1..Len(q) : \E k \in 1..Len(ps) : SameHead(q[j], ps[k])
<1>1. PICK e \in [1..Len(q) -> 1..Len(ps)] :
        /\ \A j \in 1..Len(q) : SameHead(q[j], ps[e[j]])
        /\ \A j, k \in 1..Len(q) : j < k => e[j] < e[k]
        /\ \A i \in 1..Len(ps) : i \notin D => \E j \in 1..Len(q) : e[j] = i
  BY DEF Rewrites
<1>2. IsParts(q) /\ IsSeq(q)
  BY DEF Rewrites, IsParts
<1>3. \A j \in 1..Len(q) : e[j] \in 1..Len(ps) /\ q[j].line = ps[e[j]].line
  BY <1>1 DEF SameHead
<1>4. From(q, src)
  BY <1>2, <1>3 DEF From
<1>5. Ordered(q)
  <2> SUFFICES ASSUME NEW j \in 1..Len(q), NEW k \in 1..Len(q), j < k
               PROVE  q[j].line <= q[k].line
    BY DEF Ordered
  <2>1. e[j] < e[k] /\ e[j] \in 1..Len(ps) /\ e[k] \in 1..Len(ps)
    BY <1>1
  <2>2. ps[e[j]].line <= ps[e[k]].line
    BY <2>1 DEF Ordered
  <2> QED  BY <1>3, <2>2
<1>6. IsSeq(ds) /\ IsSeq(new)
  BY DEF From, DiagnosticsOf
<1>7. IsSeq(ds \o new) /\ Range(ds \o new) = Range(ds) \cup Range(new)
  BY <1>6, ConcatIsSeq
<1>8. \A d \in Range(ds) \cup Range(new) : \E i \in 1..Len(src) : src[i].line = d.line
  <2>1. ASSUME NEW d \in Range(ds)
        PROVE  \E i \in 1..Len(src) : src[i].line = d.line
    <3>1. PICK k \in 1..Len(ds) : ds[k] = d
      BY <1>6, SeqFacts
    <3> QED  BY <3>1 DEF From
  <2>2. ASSUME NEW d \in Range(new)
        PROVE  \E i \in 1..Len(src) : src[i].line = d.line
    <3>1. PICK k \in 1..Len(new) : new[k] = d
      BY <1>6, SeqFacts
    <3>2. PICK m \in 1..Len(ps) : new[k].line = ps[m].line
      BY DEF DiagnosticsOf
    <3> QED  BY <3>1, <3>2 DEF From
  <2> QED  BY <2>1, <2>2
<1>9. From(ds \o new, src)
  <2> DEFINE all == ds \o new
  <2>1. IsSeq(all) /\ \A k \in 1..Len(all) : all[k] \in Range(ds) \cup Range(new)
    <3>1. IsSeq(all) /\ Range(all) = Range(ds) \cup Range(new)
      BY <1>7
    <3> HIDE DEF all
    <3> QED  BY <3>1, SeqFacts
  <2> HIDE DEF all
  <2>2. From(all, src)
    BY <1>8, <2>1 DEF From
  <2> QED  BY <2>2 DEF all
<1>10. \A k \in 1..Len(ps) : k \notin D => \E j \in 1..Len(q) : SameHead(q[j], ps[k])
  BY <1>1
<1>11. \A j \in 1..Len(q) : \E k \in 1..Len(ps) : SameHead(q[j], ps[k])
  BY <1>1
<1> QED  BY <1>2, <1>4, <1>5, <1>7, <1>9, <1>10, <1>11

LEMMA SerialPasses ==
  ASSUME NEW src, IsSeq(src), NEW old, NEW ds, Passing(src, old, old, ds)
  PROVE  /\ Passing(src, old, fix_serial_idioms(old).parts, ds \o fix_serial_idioms(old).diagnostics)
         /\ Range(ds) \subseteq Range(ds \o fix_serial_idioms(old).diagnostics)
<1> DEFINE q == fix_serial_idioms(old).parts
           new == fix_serial_idioms(old).diagnostics
<1>1. IsParts(old) /\ From(old, src) /\ Ordered(old) /\ From(ds, src)
  BY DEF Passing
<1>2. PICK D : Rewrites(q, old, D) /\ \A i \in 1..Len(old) : i \in D => OfSerial(old, i)
  BY <1>1, FixSerialIs
<1>3. DiagnosticsOf(new, old)
  BY <1>1, FixSerialIs
<1> HIDE DEF q, new
<1>4. /\ IsParts(q) /\ From(q, src) /\ Ordered(q)
      /\ From(ds \o new, src) /\ Range(ds \o new) = Range(ds) \cup Range(new)
      /\ \A k \in 1..Len(old) : k \notin D => \E j \in 1..Len(q) : SameHead(q[j], old[k])
      /\ \A j \in 1..Len(q) : \E k \in 1..Len(old) : SameHead(q[j], old[k])
  BY <1>1, <1>2, <1>3, RewrittenScript
<1>5. Accounted(old, q, ds \o new)
  BY <1>2, <1>4 DEF Accounted
<1>6. Passing(src, old, q, ds \o new) /\ Range(ds) \subseteq Range(ds \o new)
  BY <1>1, <1>4, <1>5 DEF Passing
<1> QED  BY <1>6 DEF q, new

LEMMA FoldPasses ==
  ASSUME NEW src, IsSeq(src), NEW old, NEW ps, NEW ds, Passing(src, old, ps, ds),
         NEW result, NEW M, Folds(result, ps, M)
  PROVE  /\ Passing(src, old, result.parts, ds \o result.diagnostics)
         /\ Range(ds \o result.diagnostics) = Range(ds) \cup Range(result.diagnostics)
<1> DEFINE q == result.parts
           new == result.diagnostics
<1>1. IsParts(old) /\ IsParts(ps) /\ From(ps, src) /\ Ordered(ps) /\ From(ds, src) /\ Accounted(old, ps, ds)
  BY DEF Passing
<1>2. PICK D : /\ Rewrites(q, ps, D)
               /\ \A i \in 1..Len(ps) : i \in D =>
                    /\ ps[i].stmt.kind \in Foldable
                    /\ \E d \in Range(new) : d.line = ps[i].line
  BY DEF Folds
<1>3. DiagnosticsOf(new, ps)
  BY DEF Folds
<1> HIDE DEF q, new
<1>4. /\ IsParts(q) /\ From(q, src) /\ Ordered(q)
      /\ From(ds \o new, src) /\ Range(ds \o new) = Range(ds) \cup Range(new)
      /\ \A k \in 1..Len(ps) : k \notin D => \E j \in 1..Len(q) : SameHead(q[j], ps[k])
      /\ \A j \in 1..Len(q) : \E k \in 1..Len(ps) : SameHead(q[j], ps[k])
  BY <1>1, <1>2, <1>3, RewrittenScript
<1>5. \A j \in 1..Len(q) : \E i \in 1..Len(old) : SameHead(q[j], old[i])
  <2> SUFFICES ASSUME NEW j \in 1..Len(q)
               PROVE  \E i \in 1..Len(old) : SameHead(q[j], old[i])
    OBVIOUS
  <2>1. PICK k \in 1..Len(ps) : SameHead(q[j], ps[k])
    BY <1>4
  <2>2. PICK i \in 1..Len(old) : SameHead(ps[k], old[i])
    BY <1>1 DEF Accounted
  <2> QED  BY <2>1, <2>2, AlikeTransitive DEF SameHead
<1>6. Accounted(old, q, ds \o new)
  <2> SUFFICES ASSUME NEW i \in 1..Len(old)
               PROVE  \/ \E j \in 1..Len(q) : SameHead(q[j], old[i])
                      \/ OfSerial(old, i)
                      \/ old[i].stmt.kind \in Foldable /\ \E d \in Range(ds) \cup Range(new) : d.line = old[i].line
    BY <1>4, <1>5 DEF Accounted
  <2>1. CASE \E k \in 1..Len(ps) : SameHead(ps[k], old[i])
    <3>1. PICK k \in 1..Len(ps) : SameHead(ps[k], old[i])
      BY <2>1
    <3>2. CASE k \in D
      BY <1>2, <3>1, <3>2 DEF SameHead, Alike
    <3>3. CASE k \notin D
      BY <1>4, <3>1, <3>3, AlikeTransitive DEF SameHead
    <3> QED  BY <3>2, <3>3
  <2>2. CASE ~\E k \in 1..Len(ps) : SameHead(ps[k], old[i])
    BY <1>1, <2>2 DEF Accounted
  <2> QED  BY <2>1, <2>2
<1>7. Passing(src, old, q, ds \o new)
  BY <1>1, <1>4, <1>6 DEF Passing
<1> QED  BY <1>4, <1>7 DEF q, new

LEMMA StatementsPass ==
  ASSUME NEW src, IsSeq(src), NEW old, NEW ps, NEW ds, Passing(src, old, ps, ds), Translation(src, old, ds)
  PROVE  TablesTold(src, ds \o check_statements(ps).diagnostics)
<1> DEFINE new == check_statements(ps).diagnostics
<1>1. IsParts(old) /\ IsParts(ps) /\ From(ds, src) /\ Accounted(old, ps, ds)
  BY DEF Passing
<1>2. \A i \in 1..Len(ps) : ps[i].stmt.kind = "unparsable" =>
        \E d \in Range(new) : d.fix_result = Unfixable /\ d.line = ps[i].line
  BY <1>1, CheckStatementsIs
<1>3. IsSeq(ds) /\ IsSeq(new)
  BY <1>1, CheckStatementsIs DEF From, DiagnosticsOf
<1> HIDE DEF new
<1>4. Range(ds \o new) = Range(ds) \cup Range(new)
  BY <1>3, ConcatIsSeq
<1>5. ASSUME NEW i \in 1..Len(src), src[i].stmt.kind = "unparsable", src[i].stmt.object = "table"
      PROVE  Erring(ds \o new, i)
  <2>1. PICK k \in 1..Len(old) : old[k].line = i /\ old[k].stmt.kind = "unparsable"
    BY <1>5 DEF Translation
  <2>2. ~OfSerial(old, k)
    BY <1>1, <2>1, OfSerialParses
  <2>3. PICK j \in 1..Len(ps) : SameHead(ps[j], old[k])
    BY <1>1, <2>1, <2>2 DEF Accounted, Foldable
  <2>4. PICK d \in Range(new) : d.fix_result = Unfixable /\ d.line = ps[j].line
    BY <1>2, <2>1, <2>3 DEF SameHead, Alike
  <2> QED  BY <1>4, <2>1, <2>3, <2>4 DEF SameHead, Erring
<1> QED  BY <1>5 DEF TablesTold, new

LEMMA StatementsFold ==
  ASSUME NEW ps, IsParts(ps)
  PROVE  Folds(check_statements(ps), ps, {})
<1> DEFINE result == check_statements(ps)
<1>1. Rewrites(result.parts, ps, {}) /\ DiagnosticsOf(result.diagnostics, ps)
  BY CheckStatementsIs
<1> HIDE DEF result
<1>2. Folds(result, ps, {})
  BY <1>1 DEF Folds
<1> QED  BY <1>2 DEF result


LEMMA NumberedIs ==
  ASSUME NEW s, IsSeq(s)
  PROVE  /\ IsSeq(Numbered(s)) /\ Len(Numbered(s)) = Len(s)
         /\ \A i \in 1..Len(s) : DOMAIN Numbered(s)[i] = {"line", "stmt"} /\ Numbered(s)[i].line = i /\ Numbered(s)[i].stmt = s[i]
         /\ From(Numbered(s), Numbered(s)) /\ Ordered(Numbered(s))
<1> DEFINE n == Len(s)
           ps == Numbered(s)
<1>1. n \in Nat /\ DOMAIN s = 1..n
  BY SeqFacts
<1>2. /\ ps = [i \in 1..n |-> ps[i]]
      /\ \A i \in 1..n : ps[i] = [line |-> i, stmt |-> s[i]]
  BY <1>1 DEF Numbered
<1> HIDE DEF ps
<1>3. IsSeq(ps) /\ Len(ps) = n
  BY <1>1, <1>2, FunctionIsSeq
<1>4. \A i \in 1..n : DOMAIN ps[i] = {"line", "stmt"} /\ ps[i].line = i /\ ps[i].stmt = s[i]
  BY <1>2
<1>5. From(ps, ps)
  BY <1>3 DEF From
<1>6. Ordered(ps)
  BY <1>1, <1>3, <1>4 DEF Ordered
<1> QED  BY <1>3, <1>4, <1>5, <1>6 DEF ps

LEMMA NothingReported ==
  ASSUME NEW src
  PROVE  From(<<>>, src)
<1> DEFINE ds == <<>>
<1>1. IsSeq(ds) /\ Len(ds) = 0
  BY EmptyIsSeq
<1> HIDE DEF ds
<1>2. From(ds, src)
  BY <1>1 DEF From
<1> QED  BY <1>2 DEF ds

LEMMA Unchanged ==
  ASSUME NEW ps
  PROVE  \A ds : Accounted(ps, ps, ds)
BY AlikeItself DEF Accounted, SameHead

LEMMA InitInv == Init => Inv
<1> SUFFICES ASSUME Init
             PROVE  Inv
  OBVIOUS
<1>1. diagnostics = <<>> /\ run = "first" /\ input = source /\ parts = source
  BY DEF Init
<1>2. CASE dialect = "postgres"
  <2>1. PICK s \in Scripts : source = Numbered(s)
    BY <1>2 DEF Init
  <2>2. IsSeq(s) /\ \A k \in 1..Len(s) : IsStatement(s[k])
    <3>1. s \in Seq(Range(s)) /\ \A k \in DOMAIN s : IsStatement(s[k])
      BY ScriptsAssumption
    <3> QED  BY <3>1, SeqFacts DEF IsSeq
  <2>3. /\ IsSeq(source) /\ Len(source) = Len(s)
        /\ \A i \in 1..Len(s) : DOMAIN source[i] = {"line", "stmt"} /\ source[i].stmt = s[i]
        /\ From(source, source) /\ Ordered(source)
    BY <2>1, <2>2, NumberedIs
  <2>4. IsParts(source)
    BY <2>2, <2>3 DEF IsParts, IsPart
  <2>5. Passing(source, input, parts, diagnostics)
    BY <1>1, <2>3, <2>4, NothingReported, Unchanged DEF Passing
  <2>6. pass = 1
    BY <1>2 DEF Init
  <2> QED  BY <1>1, <1>2, <2>3, <2>5, <2>6 DEF Inv
<1>3. CASE dialect = "mysql"
  <2>1. PICK s \in MySqlScripts : source = Numbered(s)
    BY <1>3 DEF Init
  <2>2. IsSeq(s) /\ \A k \in 1..Len(s) : IsMySqlStatement(s[k])
    <3>1. s \in Seq(Range(s)) /\ \A k \in DOMAIN s : IsMySqlStatement(s[k])
      BY ScriptsAssumption
    <3> QED  BY <3>1, SeqFacts DEF IsSeq
  <2>3. /\ IsSeq(source) /\ Len(source) = Len(s)
        /\ \A i \in 1..Len(s) : source[i].line = i /\ source[i].stmt = s[i]
        /\ From(source, source) /\ Ordered(source)
    BY <2>1, <2>2, NumberedIs
  <2>4. IsDump(source)
    BY <2>2, <2>3 DEF IsDump
  <2>5. pass = 0
    BY <1>3 DEF Init
  <2> QED  BY <1>1, <1>3, <2>3, <2>4, <2>5 DEF Inv
<1> QED  BY <1>2, <1>3 DEF Init

LEMMA PassNumbers ==
  ASSUME NEW p \in 1..10
  PROVE  /\ Passes[p] = "serial" => p = 1
         /\ Passes[p] = "statements" => p = 8
         /\ Passes[p] \in {"unique", "primary_key", "identity_targets", "identity_adds", "compression",
                           "primary_key_removals"} => p \in 2..7
         /\ Passes[p] = "sort" => p = 9
         /\ Passes[p] = "done" => p = 10
BY DEF Passes

LEMMA ToldLonger ==
  ASSUME NEW src, NEW old, NEW ds, NEW new, Range(ds) \subseteq Range(new)
  PROVE  /\ Translation(src, old, ds) => Translation(src, old, new)
         /\ TablesTold(src, ds) => TablesTold(src, new)
BY DEF Translation, TablesTold, Erring

\* The passes from the second to the seventh.
LEMMA FoldStep ==
  ASSUME NEW STATE result, NEW name \in {"unique", "primary_key", "identity_targets", "identity_adds", "compression",
                     "primary_key_removals"},
         NEW STATE M, Inv, Apply(name, result), Folds(result, parts, M)
  PROVE  Inv'
<1>1. pass > 0 /\ pass \in 1..10
  BY DEF Inv, Apply
<1>2. pass \in 2..7
  BY <1>1, PassNumbers DEF Apply
<1>3. /\ parts' = result.parts /\ diagnostics' = diagnostics \o result.diagnostics
      /\ pass' = pass + 1 /\ UNCHANGED <<source, dialect, input, run>>
  BY DEF Apply
<1>4. IsSeq(source) /\ Passing(source, input, parts, diagnostics)
  BY <1>1 DEF Inv
<1>5. /\ Passing(source, input, result.parts, diagnostics \o result.diagnostics)
      /\ Range(diagnostics \o result.diagnostics) = Range(diagnostics) \cup Range(result.diagnostics)
  BY <1>4, FoldPasses
<1>6. Passing(source', input', parts', diagnostics')
  BY <1>3, <1>5
<1>7. dialect = "mysql" => Translation(source', input', diagnostics')
  <2>1. dialect = "mysql" => Translation(source, input, diagnostics)
    BY <1>1 DEF Inv
  <2> QED  BY <1>3, <1>5, <2>1, ToldLonger
<1> QED  BY <1>2, <1>3, <1>6, <1>7 DEF Inv


LEMMA NextInv == Inv /\ [Next]_vars => Inv'
<1> SUFFICES ASSUME Inv, [Next]_vars
             PROVE  Inv'
  OBVIOUS
<1>1. CASE Translate
  <2>1. pass = 0 /\ dialect = "mysql" /\ run = "first" /\ IsSeq(source) /\ IsDump(source)
    BY <1>1 DEF Inv, Translate
  <2> DEFINE result == MySql!fix_sql_mysql(source)
  <2>2. /\ input' = result.parts /\ parts' = result.parts /\ diagnostics' = result.diagnostics
        /\ pass' = 1 /\ UNCHANGED <<source, dialect, run>>
    BY <1>1 DEF Translate
  <2>3. Translates(result, source)
    BY <2>1, TranslationIs
  <2> HIDE DEF result
  <2>4. /\ IsParts(result.parts) /\ Within(result.parts, Len(source)) /\ Ordered(result.parts)
        /\ Within(result.diagnostics, Len(source))
    BY <2>3 DEF Translates
  <2>5. From(result.parts, source) /\ From(result.diagnostics, source)
    BY <2>1, <2>4 DEF Within, From, IsDump
  <2>6. Accounted(result.parts, result.parts, result.diagnostics)
    BY Unchanged
  <2>7. Passing(source, result.parts, result.parts, result.diagnostics)
    BY <2>4, <2>5, <2>6 DEF Passing
  <2>8. Translation(source, result.parts, result.diagnostics)
    BY <2>3 DEF Translates, Translation, Erring
  <2>9. /\ Passing(source', input', parts', diagnostics')
        /\ Translation(source', input', diagnostics')
    BY <2>2, <2>7, <2>8
  <2>10. IsSeq(source') /\ IsDump(source') /\ dialect' = "mysql" /\ run' = "first"
    BY <2>1, <2>2
  <2>11. parts' = input'
    BY <2>2
  <2> QED  BY <2>2, <2>9, <2>10, <2>11 DEF Inv
<1>2. CASE FixSerialIdioms
  <2> DEFINE result == fix_serial_idioms(parts)
  <2>1. /\ pass > 0 /\ Passes[pass] = "serial"
        /\ parts' = result.parts /\ diagnostics' = diagnostics \o result.diagnostics
        /\ pass' = pass + 1 /\ UNCHANGED <<source, dialect, input, run>>
    BY <1>2 DEF FixSerialIdioms, Apply
  <2>2. pass \in 1..10
    BY <2>1 DEF Inv
  <2>3. pass = 1
    BY <2>1, <2>2, PassNumbers
  <2>4. IsSeq(source) /\ parts = input /\ Passing(source, parts, parts, diagnostics)
    BY <2>3 DEF Inv
  <2>5. /\ Passing(source, parts, result.parts, diagnostics \o result.diagnostics)
        /\ Range(diagnostics) \subseteq Range(diagnostics \o result.diagnostics)
    BY <2>4, SerialPasses
  <2> HIDE DEF result
  <2>6. Passing(source', input', parts', diagnostics')
    BY <2>1, <2>4, <2>5
  <2>7. dialect = "mysql" => Translation(source', input', diagnostics')
    <3>1. dialect = "mysql" => Translation(source, input, diagnostics)
      BY <2>3 DEF Inv
    <3> QED  BY <2>1, <2>5, <3>1, ToldLonger
  <2> QED  BY <2>1, <2>3, <2>6, <2>7 DEF Inv
<1>3. CASE FixAlterAddUnique \/ FixAlterAddPrimaryKey \/ CheckIdentityAlterTargets \/ FixIdentityAdds
             \/ FixSetCompression \/ CheckPrimaryKeyRemovals
  <2>1. IsParts(parts)
    BY <1>3 DEF Inv, Passing, FixAlterAddUnique, FixAlterAddPrimaryKey, CheckIdentityAlterTargets,
                FixIdentityAdds, FixSetCompression, CheckPrimaryKeyRemovals, Apply
  <2>2. CASE FixAlterAddUnique
    BY <2>1, <2>2, FixConstraintsIs, FoldStep DEF FixAlterAddUnique
  <2>3. CASE FixAlterAddPrimaryKey
    BY <2>1, <2>3, FixConstraintsIs, FoldStep DEF FixAlterAddPrimaryKey
  <2>4. CASE CheckIdentityAlterTargets
    BY <2>1, <2>4, CheckIdentityTargetsIs, FoldStep DEF CheckIdentityAlterTargets
  <2>5. CASE FixIdentityAdds
    BY <2>1, <2>5, FixIdentityAddsIs, FoldStep DEF FixIdentityAdds
  <2>6. CASE FixSetCompression
    BY <2>1, <2>6, FixSetCompressionIs, FoldStep DEF FixSetCompression
  <2>7. CASE CheckPrimaryKeyRemovals
    BY <2>1, <2>7, CheckRemovalsIs, FoldStep DEF CheckPrimaryKeyRemovals
  <2> QED  BY <1>3, <2>2, <2>3, <2>4, <2>5, <2>6, <2>7
<1>4. CASE CheckStatements
  <2> DEFINE result == check_statements(parts)
  <2>1. /\ pass > 0 /\ Passes[pass] = "statements"
        /\ parts' = result.parts /\ diagnostics' = diagnostics \o result.diagnostics
        /\ pass' = pass + 1 /\ UNCHANGED <<source, dialect, input, run>>
    BY <1>4 DEF CheckStatements, Apply
  <2>2. pass \in 1..10
    BY <2>1 DEF Inv
  <2>3. pass = 8
    BY <2>1, <2>2, PassNumbers
  <2>4. IsSeq(source) /\ Passing(source, input, parts, diagnostics)
    BY <2>3 DEF Inv
  <2>5. Folds(result, parts, {})
    BY <2>4, StatementsFold DEF Passing
  <2>6. dialect = "mysql" => TablesTold(source, diagnostics \o result.diagnostics)
    <3>1. dialect = "mysql" => Translation(source, input, diagnostics)
      BY <2>3 DEF Inv
    <3> QED  BY <2>4, <3>1, StatementsPass
  <2> HIDE DEF result
  <2>7. /\ Passing(source, input, result.parts, diagnostics \o result.diagnostics)
        /\ Range(diagnostics \o result.diagnostics) = Range(diagnostics) \cup Range(result.diagnostics)
    BY <2>4, <2>5, FoldPasses
  <2>8. Passing(source', input', parts', diagnostics')
    BY <2>1, <2>7
  <2>9. dialect = "mysql" => Translation(source', input', diagnostics') /\ TablesTold(source', diagnostics')
    <3>1. dialect = "mysql" => Translation(source, input, diagnostics)
      BY <2>3 DEF Inv
    <3> QED  BY <2>1, <2>6, <2>7, <3>1, ToldLonger
  <2> QED  BY <2>1, <2>3, <2>8, <2>9 DEF Inv
<1>5. CASE SortDiagnostics
  <2> DEFINE sorted == MySql!SortedByLine(diagnostics, Len(source))
  <2>1. /\ pass > 0 /\ Passes[pass] = "sort"
        /\ diagnostics' = IF dialect = "mysql" THEN sorted ELSE diagnostics
        /\ pass' = pass + 1 /\ UNCHANGED <<source, dialect, input, parts, run>>
    BY <1>5 DEF SortDiagnostics
  <2>2. pass \in 1..10
    BY <2>1 DEF Inv
  <2>3. pass = 9
    BY <2>1, <2>2, PassNumbers
  <2>4. IsSeq(source) /\ Passing(source, input, parts, diagnostics)
    BY <2>3 DEF Inv
  <2>5. ASSUME dialect = "mysql"
        PROVE  From(sorted, source) /\ Ordered(sorted) /\ Range(sorted) = Range(diagnostics)
    <3>1. IsDump(source)
      BY <2>5 DEF Inv
    <3>2. Len(source) \in Nat
      BY <2>4, SeqFacts
    <3>3. Within(diagnostics, Len(source))
      BY <2>4, <3>1 DEF Passing, From, Within, IsDump
    <3>4. Within(sorted, Len(source)) /\ Ordered(sorted) /\ Range(sorted) = Range(diagnostics)
      BY <3>2, <3>3, SortedByLineIs
    <3> HIDE DEF sorted
    <3>5. From(sorted, source)
      BY <3>1, <3>4 DEF From, Within, IsDump
    <3> QED  BY <3>4, <3>5
  <2> HIDE DEF sorted
  <2>6. From(diagnostics', source) /\ Range(diagnostics') = Range(diagnostics)
    BY <2>1, <2>4, <2>5 DEF Passing
  <2>7. Passing(source, input, parts, diagnostics')
    BY <2>4, <2>6 DEF Passing, Accounted
  <2>8. Passing(source', input', parts', diagnostics')
    BY <2>1, <2>7
  <2>9. dialect = "mysql" => /\ Translation(source', input', diagnostics')
                             /\ TablesTold(source', diagnostics') /\ Ordered(diagnostics')
    <3>1. dialect = "mysql" => Translation(source, input, diagnostics) /\ TablesTold(source, diagnostics)
      BY <2>3 DEF Inv
    <3> QED  BY <2>1, <2>5, <2>6, <3>1, ToldLonger
  <2> QED  BY <2>1, <2>3, <2>8, <2>9 DEF Inv
<1>6. CASE Rerun
  <2>1. /\ pass > 0
        /\ source' = parts /\ input' = parts /\ dialect' = "postgres" /\ pass' = 1
        /\ diagnostics' = <<>> /\ run' = "second" /\ parts' = parts
    BY <1>6 DEF Rerun
  <2>2. IsParts(parts) /\ Ordered(parts)
    BY <2>1 DEF Inv, Passing
  <2>3. IsSeq(parts)
    BY <2>2 DEF IsParts
  <2>4. From(parts, parts)
    BY <2>3 DEF From
  <2>5. Passing(parts, parts, parts, <<>>)
    BY <2>2, <2>4, NothingReported, Unchanged DEF Passing
  <2>6. Passing(source', input', parts', diagnostics')
    BY <2>1, <2>5
  <2> QED  BY <2>1, <2>3, <2>6 DEF Inv
<1>7. CASE UNCHANGED vars
  BY <1>7 DEF Inv, vars
<1> QED  BY <1>1, <1>2, <1>3, <1>4, <1>5, <1>6, <1>7 DEF Next

LEMMA SpecInv == Spec => []Inv
BY InitInv, NextInv, PTL DEF Spec

LEMMA InvTypeOK == Inv => TypeOK
<1> SUFFICES ASSUME Inv
             PROVE  TypeOK
  OBVIOUS
<1>1. IsSeq(source) /\ From(parts, source) /\ Ordered(parts) /\ From(diagnostics, source)
  <2>1. CASE pass = 0
    BY <2>1, NothingReported DEF Inv
  <2>2. CASE pass > 0
    BY <2>2 DEF Inv, Passing
  <2> QED  BY <2>1, <2>2 DEF Inv
<1>2. /\ DOMAIN source = 1..Len(source) /\ DOMAIN parts = 1..Len(parts)
      /\ DOMAIN diagnostics = 1..Len(diagnostics)
  BY <1>1, SeqFacts DEF From
<1>3. Done /\ dialect = "mysql" => Ordered(diagnostics)
  <2>1. Done => pass = 10
    <3>1. Done => pass \in 1..10
      BY DEF Done, Inv
    <3> QED  BY <3>1, PassNumbers DEF Done
  <2> QED  BY <2>1 DEF Inv
<1>4. /\ dialect \in {"postgres", "mysql"} /\ run \in {"first", "second"}
      /\ pass \in 0..10 /\ (pass = 0 => dialect = "mysql")
  BY DEF Inv
<1>5. Len(Passes) = 10
  BY DEF Passes
<1>6. \A k \in DOMAIN parts : \E i \in DOMAIN source : source[i].line = parts[k].line
  BY <1>1, <1>2 DEF From
<1>7. \A j, k \in DOMAIN parts : j < k => parts[j].line <= parts[k].line
  BY <1>1, <1>2 DEF Ordered
<1>8. \A k \in DOMAIN diagnostics : \E i \in DOMAIN source : source[i].line = diagnostics[k].line
  BY <1>1, <1>2 DEF From
<1>9. Done /\ dialect = "mysql" =>
        \A j, k \in DOMAIN diagnostics : j < k => diagnostics[j].line <= diagnostics[k].line
  BY <1>2, <1>3 DEF Ordered
<1> QED  BY <1>4, <1>5, <1>6, <1>7, <1>8, <1>9 DEF TypeOK

LEMMA InvStatementsKept == Inv => StatementsKept
<1> SUFFICES ASSUME Inv, FirstDone
             PROVE  StatementsKept
  BY DEF StatementsKept
<1>1. pass = 10
  <2>1. pass \in 1..10 /\ Passes[pass] = "done"
    BY DEF Inv, FirstDone, Done
  <2> QED  BY <2>1, PassNumbers
<1>2. IsSeq(source) /\ IsParts(input) /\ IsParts(parts) /\ From(diagnostics, source) /\ Accounted(input, parts, diagnostics)
  BY <1>1 DEF Inv, Passing
<1>3. /\ DOMAIN input = 1..Len(input) /\ DOMAIN parts = 1..Len(parts)
      /\ DOMAIN source = 1..Len(source)
  BY <1>2, PartsFacts, SeqFacts
<1>4. \A d \in Range(diagnostics) : \E k \in DOMAIN diagnostics : diagnostics[k] = d
  BY DEF Range
<1>5. ASSUME NEW i \in DOMAIN input
      PROVE  Kept(i) \/
               LET s == input[i].stmt IN
                 \/ s.kind \in {"alter_table", "dump_identity", "set_compression"} /\ Reported(input[i].line)
                 \/ \E d \in Range(detect_serial_idioms(input)) :
                      i \in {d.sequence, d.alter} \/ is_sequence_ownership_change(s, input[d.sequence].stmt.sequence)
  <2>1. CASE \E k \in 1..Len(parts) : SameHead(parts[k], input[i])
    BY <1>3, <2>1 DEF Kept, SameHead
  <2>2. CASE OfSerial(input, i)
    BY <2>2 DEF OfSerial
  <2>3. CASE input[i].stmt.kind \in Foldable /\ \E d \in Range(diagnostics) : d.line = input[i].line
    <3>1. PICK d \in Range(diagnostics) : d.line = input[i].line
      BY <2>3
    <3>2. Reported(input[i].line)
      BY <1>4, <3>1 DEF Reported
    <3> QED  BY <2>3, <3>2 DEF Foldable
  <2> QED  BY <1>2, <1>3, <2>1, <2>2, <2>3 DEF Accounted
<1>6. ASSUME dialect = "mysql", NEW i \in DOMAIN source,
             source[i].stmt.kind \in {"insert", "update", "delete"}
               \/ (source[i].stmt.kind = "unparsable" /\ source[i].stmt.object = "table")
      PROVE  ErrorAt(source[i].line)
  <2>1. Translation(source, input, diagnostics) /\ TablesTold(source, diagnostics) /\ source[i].line = i
    BY <1>1, <1>3, <1>6 DEF Inv, IsDump
  <2>2. Erring(diagnostics, i)
    BY <1>3, <1>6, <2>1 DEF Translation, TablesTold
  <2> QED  BY <2>1, <2>2 DEF Erring, ErrorAt, Errors
<1> QED  BY <1>5, <1>6 DEF StatementsKept

------------------------------------------------------------------------------
(* The theorems.                                                           *)

\* Whatever the script and its dialect, the parts come from the file's lines in their
\* order after every pass, no diagnostic points past its end, and those of a MySQL
\* dump end up in the order of its lines (fix_sql, fix_sql_mysql).
THEOREM TypeCorrect == Spec => []TypeOK
BY SpecInv, InvTypeOK, PTL

\* No statement leaves a script but as part of an idiom, reported at its line or as
\* the wiring of a sequence that was folded; and no rows and no table of a MySQL dump
\* are lost without an error (drop_parts in every pass, fix_sql_mysql).
THEOREM NothingLost == Spec => []StatementsKept
BY SpecInv, InvStatementsKept, PTL


===============================================================================
