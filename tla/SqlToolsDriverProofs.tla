------------------------ MODULE SqlToolsDriverProofs ------------------------
(***************************************************************************)
(* Proofs about SqlToolsDriver, for every number of calls, pools and       *)
(* clients.                                                                *)
(***************************************************************************)
EXTENDS SqlToolsDriver, TLAPS

------------------------------------------------------------------------------
(* The inductive invariant.                                                *)

Opening(k) == pc[k] = "opening"
Closing(k) == pc[k] = "closing"
Fills(k) == operation[k] = "completions" /\ pc[k] \in InFlight \cup {"failed", "rejected"}

\* An open works with a pool of its own, which is not the connection; whenever it
\* overlaps with another open, with a close or with a connection that has appeared
\* since it began, the pools that may lose their place are in raced.
PoolInv ==
  /\ PoolsAccounted
  /\ \A k \in Calls : Opening(k) => pools[pool[k]] = "opening"
  /\ \A k \in Calls : Closing(k) => pools[pool[k]] \in {"live", "ended"}
  /\ \A k, j \in Calls : Opening(k) /\ Opening(j) /\ k # j =>
       pool[k] # pool[j] /\ pool[k] \in raced
  /\ \A k, j \in Calls : Opening(k) /\ Closing(j) => pool[k] \in raced
  /\ \A k \in Calls : Opening(k) /\ connection # None =>
       pool[k] \in raced /\ connection \in raced
  /\ \A k \in Calls : Closing(k) /\ connection # None =>
       connection = pool[k] \/ connection \in raced

\* Nobody fills a cache that does not exist, and only a close closes.
CacheInv ==
  /\ CompletionsFill
  /\ \A k \in Calls : Closing(k) => operation[k] = "close"
  /\ completionsCache = "none" => \A k \in Calls : ~Fills(k)

IInv == TypeOK /\ PoolInv /\ ClientsAccounted /\ CacheInv

\* How a call begins: it creates a pool, or it does not and ends, or goes on with
\* the connection.
Begins(k, op, then) ==
  /\ Begin(k, op)
  /\ Goto(k, then)
  /\ pool' \in {pool, [pool EXCEPT ![k] = connection]}
  /\ then \in {"opened", "closing"} =>
       connection # None /\ pool' = [pool EXCEPT ![k] = connection]
  /\ then = "closing" => op = "close"
  /\ UNCHANGED <<pools, raced>>

CacheBegins(k, op, then) ==
  \/ op # "completions" /\ UNCHANGED completionsCache
  \/ then = "done" /\ completionsCache # "none" /\ UNCHANGED completionsCache
  \/ /\ op = "completions" /\ completionsCache = "none" /\ completionsCache' = "empty"
     /\ then \in {"opening", "opened", "failed"}

\* The five operations begin in one of these forms.
LEMMA StartForms ==
  ASSUME NEW k \in Calls, Start(k)
  PROVE  \E op \in Operations :
           \/ Begin(k, op) /\ Create(k) /\ op # "close" /\ CacheBegins(k, op, "opening")
           \/ \E then \in {"done", "failed", "opened", "closing"} :
                Begins(k, op, then) /\ CacheBegins(k, op, then)
<1> USE DEF Operations, Open, Begins, CacheBegins
<1>1. CASE StartOpen(k)
  BY <1>1 DEF StartOpen, Reuse, Misconfigured, NeedsPool
<1>2. CASE StartQuery(k)
  BY <1>2 DEF StartQuery, Reuse, Misconfigured, NeedsPool
<1>3. CASE StartTest(k)
  BY <1>3 DEF StartTest, Reuse, Misconfigured, NeedsPool
<1>4. CASE StartCompletions(k)
  BY <1>4 DEF StartCompletions, Reuse, Misconfigured, NeedsPool
<1>5. CASE StartClose(k)
  BY <1>5 DEF StartClose
<1> QED  BY <1>1, <1>2, <1>3, <1>4, <1>5 DEF Start

\* The steps, by action.
LEMMA NextForms ==
  ASSUME Next
  PROVE  \E k \in Calls :
           \/ Start(k) \/ OpenConnected(k) \/ OpenFails(k) \/ Close(k)
           \/ RequestClient(k) \/ Acquire(k) \/ AcquireFails(k)
           \/ QuerySucceeds(k) \/ QueryFails(k) \/ MapSucceeds(k) \/ MapFails(k)
BY DEF Next, Step

\* The type invariant is inductive by itself.
LEMMA TypeStep ==
  ASSUME TypeOK, Next
  PROVE  TypeOK'
<1> PICK k \in Calls :
      \/ Start(k) \/ OpenConnected(k) \/ OpenFails(k) \/ Close(k)
      \/ RequestClient(k) \/ Acquire(k) \/ AcquireFails(k)
      \/ QuerySucceeds(k) \/ QueryFails(k) \/ MapSucceeds(k) \/ MapFails(k)
  BY NextForms
<1> USE DriverAssumption DEF TypeOK, callVars, vars, Slots, Slot, Goto, InFlight, Ended
<1>1. CASE Start(k)
  <2>1. CASE \E op \in Operations : Begin(k, op) /\ Create(k) /\ op # "close" /\ CacheBegins(k, op, "opening")
    BY <2>1 DEF Begin, Create, CacheBegins, Operations
  <2>2. CASE \E op \in Operations, then \in {"done", "failed", "opened", "closing"} :
               Begins(k, op, then) /\ CacheBegins(k, op, then)
    BY <2>2 DEF Begin, Begins, CacheBegins, Operations
  <2> QED  BY <1>1, <2>1, <2>2, StartForms
<1>2. CASE OpenConnected(k)
  BY <1>2 DEF OpenConnected
<1>3. CASE OpenFails(k)
  BY <1>3 DEF OpenFails
<1>4. CASE Close(k)
  BY <1>4 DEF Close
<1>5. CASE RequestClient(k)
  BY <1>5 DEF RequestClient
<1>6. CASE Acquire(k)
  BY <1>6 DEF Acquire
<1>7. CASE AcquireFails(k)
  BY <1>7 DEF AcquireFails
<1>8. CASE QuerySucceeds(k)
  BY <1>8 DEF QuerySucceeds, Release
<1>9. CASE QueryFails(k)
  BY <1>9 DEF QueryFails, Release
<1>10. CASE MapSucceeds(k)
  BY <1>10 DEF MapSucceeds
<1>11. CASE MapFails(k)
  BY <1>11 DEF MapFails, Release
<1> QED  BY <1>1, <1>2, <1>3, <1>4, <1>5, <1>6, <1>7, <1>8, <1>9, <1>10, <1>11

\* Pools that overlap with an open or a close are told apart when they are created.
LEMMA PoolStep ==
  ASSUME TypeOK, PoolInv, Next
  PROVE  PoolInv'
<1> PICK k \in Calls :
      \/ Start(k) \/ OpenConnected(k) \/ OpenFails(k) \/ Close(k)
      \/ RequestClient(k) \/ Acquire(k) \/ AcquireFails(k)
      \/ QuerySucceeds(k) \/ QueryFails(k) \/ MapSucceeds(k) \/ MapFails(k)
  BY NextForms
<1> USE DriverAssumption DEF TypeOK, PoolInv, PoolsAccounted, Opening, Closing, callVars, Goto
<1>1. CASE Start(k)
  <2>1. CASE \E op \in Operations : Begin(k, op) /\ Create(k) /\ op # "close" /\ CacheBegins(k, op, "opening")
    BY <2>1 DEF Begin, Create, CacheBegins, NeedsPool
  <2>2. CASE \E op \in Operations, then \in {"done", "failed", "opened", "closing"} :
               Begins(k, op, then) /\ CacheBegins(k, op, then)
    BY <2>2 DEF Begin, Begins, CacheBegins, NeedsPool
  <2> QED  BY <1>1, <2>1, <2>2, StartForms
<1>2. CASE OpenConnected(k)
  BY <1>2 DEF OpenConnected
<1>3. CASE OpenFails(k)
  BY <1>3 DEF OpenFails
<1>4. CASE Close(k)
  BY <1>4 DEF Close
<1>5. CASE RequestClient(k)
  BY <1>5 DEF RequestClient
<1>6. CASE Acquire(k)
  BY <1>6 DEF Acquire
<1>7. CASE AcquireFails(k)
  BY <1>7 DEF AcquireFails
<1>8. CASE QuerySucceeds(k)
  BY <1>8 DEF QuerySucceeds, Release
<1>9. CASE QueryFails(k)
  BY <1>9 DEF QueryFails, Release
<1>10. CASE MapSucceeds(k)
  BY <1>10 DEF MapSucceeds
<1>11. CASE MapFails(k)
  BY <1>11 DEF MapFails, Release
<1> QED  BY <1>1, <1>2, <1>3, <1>4, <1>5, <1>6, <1>7, <1>8, <1>9, <1>10, <1>11

\* Before a mapping fails, a call that queries and its client belong to each other.
LEMMA ClientStep ==
  ASSUME TypeOK, CacheInv, ClientsAccounted, Next
  PROVE  ClientsAccounted'
<1> PICK k \in Calls :
      \/ Start(k) \/ OpenConnected(k) \/ OpenFails(k) \/ Close(k)
      \/ RequestClient(k) \/ Acquire(k) \/ AcquireFails(k)
      \/ QuerySucceeds(k) \/ QueryFails(k) \/ MapSucceeds(k) \/ MapFails(k)
  BY NextForms
<1> USE DriverAssumption DEF TypeOK, ClientsAccounted, MappingFailed, callVars, Slots, Slot, Goto
<1>1. CASE Start(k)
  <2>1. CASE \E op \in Operations : Begin(k, op) /\ Create(k) /\ op # "close" /\ CacheBegins(k, op, "opening")
    BY <2>1 DEF Begin, Create, CacheBegins, Operations
  <2>2. CASE \E op \in Operations, then \in {"done", "failed", "opened", "closing"} :
               Begins(k, op, then) /\ CacheBegins(k, op, then)
    BY <2>2 DEF Begin, Begins, CacheBegins, Operations
  <2> QED  BY <1>1, <2>1, <2>2, StartForms
<1>2. CASE OpenConnected(k)
  BY <1>2 DEF OpenConnected
<1>3. CASE OpenFails(k)
  BY <1>3 DEF OpenFails
<1>4. CASE Close(k)
  <2> SUFFICES ASSUME ~MappingFailed'
               PROVE  ClientsAccounted'
    OBVIOUS
  <2>1. ~MappingFailed
    BY <1>4 DEF Close
  <2>2. ASSUME NEW j \in Calls, pc'[j] = "querying"
        PROVE  user'[<<pool'[j], cli'[j]>>] = j
    BY <2>1, <2>2, <1>4 DEF Close
  <2>3. ASSUME NEW s \in Slots, NEW j \in Calls, user'[s] = j
        PROVE  /\ s = <<pool'[j], cli'[j]>>
               /\ \/ pc'[j] = "querying"
                  \/ pc'[j] = "failed" /\ operation'[j] = "test"
    BY <2>1, <2>3, <1>4 DEF Close
  <2>4. \A j \in Calls : pc'[j] = "rejected" => operation'[j] = "close"
    BY <2>1, <1>4 DEF Close, CacheInv, Closing
  <2>5. \A s \in Slots : user'[s] # None => user'[s] \in Calls
    BY TypeStep
  <2> QED  BY <2>2, <2>3, <2>4, <2>5
<1>5. CASE RequestClient(k)
  BY <1>5 DEF RequestClient
<1>6. CASE Acquire(k)
  <2> SUFFICES ASSUME ~MappingFailed'
               PROVE  ClientsAccounted'
    OBVIOUS
  <2>1. ~MappingFailed
    BY <1>6 DEF Acquire
  <2>2. ASSUME NEW j \in Calls, pc'[j] = "querying"
        PROVE  user'[<<pool'[j], cli'[j]>>] = j
    <3>1. PICK c \in Clients : /\ user[<<pool[k], c>>] = None
                               /\ user' = [user EXCEPT ![<<pool[k], c>>] = k]
                               /\ cli' = [cli EXCEPT ![k] = c]
      BY <1>6 DEF Acquire
    <3>2. CASE j = k
      <4>1. <<pool[k], c>> \in Slots /\ user'[<<pool[k], c>>] = k
        BY <3>1, <1>6 DEF Acquire, InFlight
      <4>2. <<pool'[k], cli'[k]>> = <<pool[k], c>>
        BY <3>1, <1>6 DEF Acquire
      <4> QED  BY <3>2, <4>1, <4>2
    <3>3. CASE j # k
      <4>1. pc[j] = "querying" /\ Slot(j) = <<pool'[j], cli'[j]>>
        BY <2>2, <3>1, <3>3, <1>6 DEF Acquire
      <4>2. user[Slot(j)] = j /\ Slot(j) \in Slots /\ Slot(j) # <<pool[k], c>>
        BY <2>1, <3>1, <4>1 DEF InFlight
      <4>3. user'[Slot(j)] = user[Slot(j)]
        <5> HIDE DEF Slot, Slots
        <5> QED  BY <3>1, <4>2
      <4> QED  BY <4>1, <4>2, <4>3
    <3> QED  BY <3>2, <3>3
  <2>3. ASSUME NEW s \in Slots, NEW j \in Calls, user'[s] = j
        PROVE  /\ s = <<pool'[j], cli'[j]>>
               /\ \/ pc'[j] = "querying"
                  \/ pc'[j] = "failed" /\ operation'[j] = "test"
    <3>1. PICK c \in Clients : /\ user[<<pool[k], c>>] = None
                               /\ user' = [user EXCEPT ![<<pool[k], c>>] = k]
                               /\ cli' = [cli EXCEPT ![k] = c]
      BY <1>6 DEF Acquire
    <3>2. CASE s = <<pool[k], c>>
      BY <2>3, <3>1, <3>2, <1>6 DEF Acquire
    <3>3. CASE s # <<pool[k], c>>
      <4>1. user[s] = j /\ j # None
        BY <2>3, <3>1, <3>3
      <4>2. j # k
        BY <2>1, <4>1, <1>6 DEF Acquire
      <4> QED  BY <2>1, <3>1, <4>1, <4>2, <1>6 DEF Acquire
    <3> QED  BY <3>2, <3>3
  <2>4. \A j \in Calls : pc'[j] = "rejected" => operation'[j] = "close"
    BY <2>1, <1>6 DEF Acquire
  <2>5. \A s \in Slots : user'[s] # None => user'[s] \in Calls
    BY TypeStep
  <2> QED  BY <2>2, <2>3, <2>4, <2>5
<1>7. CASE AcquireFails(k)
  BY <1>7 DEF AcquireFails
<1>8. CASE QuerySucceeds(k)
  BY <1>8 DEF QuerySucceeds, Release
<1>9. CASE QueryFails(k)
  <2> SUFFICES ASSUME ~MappingFailed'
               PROVE  ClientsAccounted'
    OBVIOUS
  <2>1. ~MappingFailed
    BY <1>9 DEF QueryFails, Release
  <2>2. ASSUME NEW j \in Calls, pc'[j] = "querying"
        PROVE  user'[<<pool'[j], cli'[j]>>] = j
    <3>1. pc' = [pc EXCEPT ![k] = pc'[k]] /\ pc'[k] # "querying"
      BY <1>9 DEF QueryFails, Release
    <3>2. j # k /\ pc[j] = "querying" /\ Slot(j) = <<pool'[j], cli'[j]>>
      BY <2>2, <3>1, <1>9 DEF QueryFails
    <3>3. user[Slot(j)] = j /\ user[Slot(k)] = k
      <4>1. \A i \in Calls : pc[i] = "querying" => user[Slot(i)] = i
        BY <2>1
      <4>2. pc[k] = "querying"
        BY <1>9 DEF QueryFails
      <4> QED  BY <3>2, <4>1, <4>2
    <3>4. Slot(j) \in Slots /\ Slot(j) # Slot(k)
      BY <3>2, <3>3 DEF InFlight
    <3>5. user' = user \/ user' = [user EXCEPT ![Slot(k)] = None]
      BY <1>9 DEF QueryFails, Release
    <3>6. user'[Slot(j)] = user[Slot(j)]
      <4> HIDE DEF Slot, Slots
      <4> QED  BY <3>4, <3>5
    <3> QED  BY <3>2, <3>3, <3>6
  <2>3. ASSUME NEW s \in Slots, NEW j \in Calls, user'[s] = j
        PROVE  /\ s = <<pool'[j], cli'[j]>>
               /\ \/ pc'[j] = "querying"
                  \/ pc'[j] = "failed" /\ operation'[j] = "test"
    <3>1. user[s] = j /\ j # None
      BY <2>3, <1>9 DEF QueryFails, Release
    <3>2. s = Slot(j) /\ (pc[j] = "querying" \/ (pc[j] = "failed" /\ operation[j] = "test"))
      BY <2>1, <3>1
    <3>3. j = k => operation[k] = "test"
      BY <2>3, <3>1, <3>2, <1>9 DEF QueryFails, Release
    <3> QED  BY <3>2, <3>3, <1>9 DEF QueryFails, Release
  <2>4. \A j \in Calls : pc'[j] = "rejected" => operation'[j] = "close"
    BY <2>1, <1>9 DEF QueryFails, Release
  <2>5. \A s \in Slots : user'[s] # None => user'[s] \in Calls
    BY TypeStep
  <2> QED  BY <2>2, <2>3, <2>4, <2>5
<1>10. CASE MapSucceeds(k)
  BY <1>10 DEF MapSucceeds
<1>11. CASE MapFails(k)
  BY <1>11 DEF MapFails, Release
<1> QED  BY <1>1, <1>2, <1>3, <1>4, <1>5, <1>6, <1>7, <1>8, <1>9, <1>10, <1>11

\* The cache is created by the one call that fills it.
LEMMA CacheStep ==
  ASSUME TypeOK, CacheInv, Next
  PROVE  CacheInv'
<1> PICK k \in Calls :
      \/ Start(k) \/ OpenConnected(k) \/ OpenFails(k) \/ Close(k)
      \/ RequestClient(k) \/ Acquire(k) \/ AcquireFails(k)
      \/ QuerySucceeds(k) \/ QueryFails(k) \/ MapSucceeds(k) \/ MapFails(k)
  BY NextForms
<1> USE DriverAssumption DEF TypeOK, CacheInv, CompletionsFill, Fills, Closing, callVars, Goto, InFlight
<1>1. CASE Start(k)
  <2>1. CASE \E op \in Operations : Begin(k, op) /\ Create(k) /\ op # "close" /\ CacheBegins(k, op, "opening")
    BY <2>1 DEF Begin, Create, CacheBegins, Operations
  <2>2. CASE \E op \in Operations, then \in {"done", "failed", "opened", "closing"} :
               Begins(k, op, then) /\ CacheBegins(k, op, then)
    BY <2>2 DEF Begin, Begins, CacheBegins, Operations
  <2> QED  BY <1>1, <2>1, <2>2, StartForms
<1>2. CASE OpenConnected(k)
  BY <1>2 DEF OpenConnected
<1>3. CASE OpenFails(k)
  BY <1>3 DEF OpenFails
<1>4. CASE Close(k)
  BY <1>4 DEF Close
<1>5. CASE RequestClient(k)
  BY <1>5 DEF RequestClient
<1>6. CASE Acquire(k)
  BY <1>6 DEF Acquire
<1>7. CASE AcquireFails(k)
  BY <1>7 DEF AcquireFails
<1>8. CASE QuerySucceeds(k)
  BY <1>8 DEF QuerySucceeds, Release
<1>9. CASE QueryFails(k)
  BY <1>9 DEF QueryFails, Release
<1>10. CASE MapSucceeds(k)
  BY <1>10 DEF MapSucceeds
<1>11. CASE MapFails(k)
  BY <1>11 DEF MapFails, Release
<1> QED  BY <1>1, <1>2, <1>3, <1>4, <1>5, <1>6, <1>7, <1>8, <1>9, <1>10, <1>11

\* The invariant holds in every state.
LEMMA Invariance == Spec => []IInv
<1>1. Init => IInv
  <2> SUFFICES ASSUME Init
               PROVE  IInv
    OBVIOUS
  <2>1. TypeOK
    BY DriverAssumption DEF Init, TypeOK, Operations, InFlight
  <2>2. PoolInv
    BY DEF Init, PoolInv, PoolsAccounted, Opening, Closing
  <2>3. ClientsAccounted /\ CacheInv
    BY DEF Init, ClientsAccounted, CacheInv, CompletionsFill, Fills, Closing, InFlight
  <2> QED  BY <2>1, <2>2, <2>3 DEF IInv
<1>2. IInv /\ [Next]_vars => IInv'
  <2>1. CASE Next
    BY <2>1, TypeStep, PoolStep, ClientStep, CacheStep DEF IInv
  <2>2. CASE UNCHANGED vars
    <3> USE <2>2 DEF vars
    <3>1. TypeOK => TypeOK'
      BY DEF TypeOK
    <3>2. PoolInv => PoolInv'
      BY DEF PoolInv, PoolsAccounted, Opening, Closing
    <3>3. ClientsAccounted => ClientsAccounted'
      BY DEF ClientsAccounted, MappingFailed, Slot
    <3>4. CacheInv => CacheInv'
      BY DEF CacheInv, CompletionsFill, Fills, Closing
    <3> QED  BY <3>1, <3>2, <3>3, <3>4 DEF IInv
  <2> QED  BY <2>1, <2>2
<1> QED  BY <1>1, <1>2, PTL DEF Spec

------------------------------------------------------------------------------
(* What follows.                                                           *)

\* Every variable keeps its type, whatever the calls do and DSQL answers.
THEOREM TypeCorrect == Spec => []TypeOK
BY Invariance, PTL DEF IInv

\* Until the rows of a query cannot be shown, clients are neither shared nor kept,
\* except by a testConnection whose query failed.
THEOREM ClientsAccountedFor == Spec => []ClientsAccounted
BY Invariance, PTL DEF IInv

\* The connection is a live pool, and a live pool that it is not was created while
\* another open or close was under way.
THEOREM PoolsAccountedFor == Spec => []PoolsAccounted
BY Invariance, PTL DEF IInv, PoolInv

\* One call of getStaticCompletions fills the cache, and it stays empty only if
\* that one fails.
THEOREM CompletionsFilled == Spec => []CompletionsFill
BY Invariance, PTL DEF IInv, CacheInv
==============================================================================
