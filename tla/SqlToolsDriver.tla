--------------------------- MODULE SqlToolsDriver ---------------------------
(***************************************************************************)
(* The SQLTools driver of the VS Code extension                            *)
(* (src/vscode/sqltools-driver/src/ls/driver.ts): open, close, query,      *)
(* testConnection and getStaticCompletions over one connection, a promise  *)
(* of a node-postgres pool.                                                *)
(*                                                                         *)
(* JavaScript runs one call at a time and switches at every await, so an   *)
(* action is what a call does between two awaits.  Each call runs one      *)
(* operation once; what a query returns is left out.  The pool is external:*)
(* a client has one user, a broken client and the one that replaces it are *)
(* the same, and release() is a property of the client that every new user *)
(* replaces, so it ends the use of whoever has the client now and throws   *)
(* if nobody has.                                                          *)
(***************************************************************************)
EXTENDS Naturals

CONSTANTS MaxCalls,     \* bound: calls of the driver's operations
          Pools,        \* the pools that it may create
          Clients,      \* the clients that one pool may have
          None          \* no pool, no client, no user

\* Calls are numbered in the order in which they begin.
Calls == 1..MaxCalls

ASSUME DriverAssumption == MaxCalls \in Nat /\ None \notin Calls \cup Pools \cup Clients

Operations == {"open", "close", "query", "test", "completions"}
Slots == Pools \X Clients

VARIABLES connection,   \* this.connection: the pool, or None
          completionsCache,
          operation,    \* what each call does
          pc,           \* where it is
          pool,         \* the pool that it works with
          cli,          \* the client of the pool that it got last
          pools,        \* what has become of each pool
          user,         \* who uses each client
          raced         \* history: pools created while another open or close was under way

vars == <<connection, completionsCache, operation, pc, pool, cli, pools, user, raced>>
callVars == <<connection, completionsCache, operation, raced>>

InFlight == {"opening", "opened", "waiting", "querying", "mapping", "closing"}
Ended == {"done", "failed", "unmapped", "rejected"}

Init ==
  /\ connection = None
  /\ completionsCache = "none"
  /\ operation = [k \in Calls |-> "open"]
  /\ pc = [k \in Calls |-> "idle"]
  /\ pool = [k \in Calls |-> None]
  /\ cli = [k \in Calls |-> None]
  /\ pools = [p \in Pools |-> "unused"]
  /\ user = [s \in Slots |-> None]
  /\ raced = {}

Goto(k, label) == pc' = [pc EXCEPT ![k] = label]
Slot(k) == <<pool[k], cli[k]>>

------------------------------------------------------------------------------
(* open, which query and testConnection call first.                        *)

NeedsPool == connection = None

\* The connection that is there is used; opening it is all that open does.
Reuse(k, then) ==
  /\ ~NeedsPool
  /\ pool' = [pool EXCEPT ![k] = connection]
  /\ Goto(k, then)
  /\ UNCHANGED <<pools, raced>>

\* A new pool, and the wait for its first client.
Create(k) ==
  /\ NeedsPool
  /\ \E p \in {p \in Pools : pools[p] = "unused"} :
       LET others == {j \in Calls : pc[j] \in {"opening", "closing"}}
       IN /\ pools' = [pools EXCEPT ![p] = "opening"]
          /\ pool' = [pool EXCEPT ![k] = p]
          /\ raced' = IF others = {} THEN raced ELSE raced \cup {p} \cup {pool[j] : j \in others}
  /\ Goto(k, "opening")

\* The settings name no server, or the CA certificate cannot be read.
Misconfigured(k) ==
  /\ NeedsPool
  /\ Goto(k, "failed")
  /\ UNCHANGED <<pool, pools, raced>>

Open(k, op) ==
  Reuse(k, IF op = "open" THEN "done" ELSE "opened") \/ Create(k) \/ Misconfigured(k)

\* The client is given back, and the pool becomes the connection.
OpenConnected(k) ==
  /\ pc[k] = "opening"
  /\ pools' = [pools EXCEPT ![pool[k]] = "live"]
  /\ connection' = pool[k]
  /\ Goto(k, IF operation[k] = "open" THEN "done" ELSE "opened")
  /\ UNCHANGED <<completionsCache, operation, pool, cli, user, raced>>

\* DSQL cannot be reached, or refuses the token.
OpenFails(k) ==
  /\ pc[k] = "opening"
  /\ pools' = [pools EXCEPT ![pool[k]] = "abandoned"]
  /\ Goto(k, "failed")
  /\ UNCHANGED <<callVars, pool, cli, user>>

------------------------------------------------------------------------------
(* The calls begin.                                                        *)

Begin(k, op) ==
  /\ pc[k] = "idle" /\ \A j \in 1..k - 1 : pc[j] # "idle"
  /\ operation' = [operation EXCEPT ![k] = op]
  /\ UNCHANGED <<connection, cli, user>>

StartOpen(k) == Begin(k, "open") /\ Open(k, "open") /\ UNCHANGED completionsCache
StartQuery(k) == Begin(k, "query") /\ Open(k, "query") /\ UNCHANGED completionsCache
StartTest(k) == Begin(k, "test") /\ Open(k, "test") /\ UNCHANGED completionsCache

\* The cache is set before the query that fills it.
StartCompletions(k) ==
  /\ Begin(k, "completions")
  /\ IF completionsCache # "none"
     THEN Goto(k, "done") /\ UNCHANGED <<completionsCache, pool, pools, raced>>
     ELSE completionsCache' = "empty" /\ Open(k, "completions")

\* Bug: a connection that is not there is closed.
StartClose_Unguarded(k) ==
  /\ Begin(k, "close")
  /\ Goto(k, "closing")
  /\ pool' = [pool EXCEPT ![k] = connection]
  /\ UNCHANGED <<completionsCache, pools, raced>>

StartClose(k) ==
  /\ Begin(k, "close")
  /\ IF connection = None
     THEN Goto(k, "done") /\ UNCHANGED pool
     ELSE Goto(k, "closing") /\ pool' = [pool EXCEPT ![k] = connection]
  /\ UNCHANGED <<completionsCache, pools, raced>>

\* Bug: the pool is let go, but not ended.
Close_KeepsPool(k) ==
  /\ pc[k] = "closing"
  /\ connection' = None
  /\ Goto(k, "done")
  /\ UNCHANGED <<completionsCache, operation, pool, cli, pools, user, raced>>

\* A pool that was ended before rejects, which nobody handles.
Close(k) ==
  /\ pc[k] = "closing"
  /\ connection' = None
  /\ pools' = [pools EXCEPT ![pool[k]] = "ended"]
  /\ Goto(k, IF pools[pool[k]] = "ended" THEN "rejected" ELSE "done")
  /\ UNCHANGED <<completionsCache, operation, pool, cli, user, raced>>

------------------------------------------------------------------------------
(* query, testConnection, and the query of getStaticCompletions.           *)

\* pool.connect(), which a pool that was ended rejects.
RequestClient(k) ==
  /\ pc[k] = "opened"
  /\ Goto(k, IF pools[pool[k]] = "ended" THEN "failed" ELSE "waiting")
  /\ UNCHANGED <<callVars, pool, cli, pools, user>>

\* A client that was connecting when the pool was ended is handed out still.
Acquire(k) ==
  /\ pc[k] = "waiting"
  /\ \E c \in Clients :
       /\ user[<<pool[k], c>>] = None
       /\ user' = [user EXCEPT ![<<pool[k], c>>] = k]
       /\ cli' = [cli EXCEPT ![k] = c]
  /\ Goto(k, "querying")
  /\ UNCHANGED <<callVars, pool, pools>>

\* The new client cannot connect, or the wait times out.
AcquireFails(k) ==
  /\ pc[k] = "waiting"
  /\ Goto(k, "failed")
  /\ UNCHANGED <<callVars, pool, cli, pools, user>>

\* cli.release(): the label that follows, or the one after it has thrown.
Release(k, label, thrown) ==
  /\ user' = [user EXCEPT ![Slot(k)] = None]
  /\ Goto(k, IF user[Slot(k)] = None THEN thrown ELSE label)

\* If release throws, the catch handler calls it again.
QuerySucceeds(k) ==
  /\ pc[k] = "querying"
  /\ Release(k, IF operation[k] = "test" THEN "done" ELSE "mapping", "rejected")
  /\ UNCHANGED <<callVars, pool, cli, pools>>

\* Bug: the client is not released when the query fails.
QueryFails_KeepsClient(k) ==
  /\ pc[k] = "querying"
  /\ Goto(k, "failed")
  /\ UNCHANGED <<callVars, pool, cli, pools, user>>

\* The catch handler releases the client; testConnection has none.
QueryFails(k) ==
  /\ pc[k] = "querying"
  /\ IF operation[k] = "test" THEN Goto(k, "failed") /\ UNCHANGED user
     ELSE Release(k, "failed", "rejected")
  /\ UNCHANGED <<callVars, pool, cli, pools>>

\* Bug: the words that were read are not kept.
MapSucceeds_DropsWords(k) ==
  /\ pc[k] = "mapping"
  /\ Goto(k, "done")
  /\ UNCHANGED <<callVars, pool, cli, pools, user>>

MapSucceeds(k) ==
  /\ pc[k] = "mapping"
  /\ completionsCache' = IF operation[k] = "completions" THEN "full" ELSE completionsCache
  /\ Goto(k, "done")
  /\ UNCHANGED <<connection, operation, raced, pool, cli, pools, user>>

\* An empty query has no command to show: the catch handler releases the client
\* once more.
MapFails(k) ==
  /\ pc[k] = "mapping" /\ operation[k] = "query"
  /\ Release(k, "unmapped", "rejected")
  /\ UNCHANGED <<callVars, pool, cli, pools>>

------------------------------------------------------------------------------
Start(k) == StartOpen(k) \/ StartQuery(k) \/ StartTest(k) \/ StartCompletions(k) \/ StartClose(k)

\* What a call does by itself, or with an answer of DSQL.  A pool that was ended
\* leaves the calls that wait for a client without an answer.
Step(k) ==
  \/ OpenConnected(k) \/ OpenFails(k) \/ Close(k)
  \/ RequestClient(k) \/ (Acquire(k) /\ pools[pool[k]] = "live")
  \/ QuerySucceeds(k) \/ QueryFails(k)
  \/ MapSucceeds(k) \/ MapFails(k)

Next == \E k \in Calls : Start(k) \/ Step(k) \/ Acquire(k) \/ AcquireFails(k)

\* The event loop runs every callback, and DSQL answers or the connection breaks.
Spec == Init /\ [][Next]_vars /\ \A k \in Calls : WF_vars(Step(k))

------------------------------------------------------------------------------
(* What is checked.                                                        *)

\* Every variable keeps its type: a pool is in use once it is created, and only
\* calls use clients.
TypeOK ==
  /\ connection \in Pools \cup {None}
  /\ completionsCache \in {"none", "empty", "full"}
  /\ operation \in [Calls -> Operations]
  /\ pc \in [Calls -> {"idle"} \cup InFlight \cup Ended]
  /\ pool \in [Calls -> Pools \cup {None}]
  /\ cli \in [Calls -> Clients \cup {None}]
  /\ pools \in [Pools -> {"unused", "opening", "live", "abandoned", "ended"}]
  /\ user \in [Slots -> Calls \cup {None}]
  /\ raced \subseteq Pools
  /\ \A k \in Calls : pc[k] \in InFlight => pool[k] \in Pools
  /\ \A k \in Calls : pc[k] \in {"querying", "mapping"} => cli[k] \in Clients

\* A query whose rows could not be shown: it has given its client back twice.
MappingFailed ==
  \E k \in Calls : operation[k] = "query" /\ pc[k] \in {"unmapped", "rejected"}

\* Until a mapping fails, no two calls share a client, a call that queries has its
\* client all along, a client is held only by a call that queries with it or by a
\* test whose query failed, and no call but a second close rejects unexpectedly
\* (the releases of query, its catch handler and testConnection).
ClientsAccounted ==
  ~MappingFailed =>
    /\ \A k \in Calls : pc[k] = "querying" => user[Slot(k)] = k
    /\ \A s \in Slots : user[s] # None =>
         /\ s = Slot(user[s])
         /\ \/ pc[user[s]] = "querying"
            \/ pc[user[s]] = "failed" /\ operation[user[s]] = "test"
    /\ \A k \in Calls : pc[k] = "rejected" => operation[k] = "close"

\* The connection is never a pool that was ended, and a live pool is the
\* connection, so that a close will end it, unless it was created while another
\* open or close was under way (the awaits of open and close).
PoolsAccounted ==
  /\ connection # None => pools[connection] = "live"
  /\ \A p \in Pools : pools[p] = "live" => p = connection \/ p \in raced

\* The completions stay empty only while a call fills them, or because the call
\* that was to fill them failed; and only the one call that found no cache ever
\* asks DSQL for the keywords (getStaticCompletions).
CompletionsFill ==
  LET fills(k) == operation[k] = "completions" /\ pc[k] \in InFlight \cup {"failed", "rejected"}
  IN /\ completionsCache = "empty" => \E k \in Calls : fills(k)
     /\ \A k, j \in Calls : fills(k) /\ fills(j) => k = j

\* Every call that has begun ends, unless the pool it waits for is ended, or its
\* clients are all held by tests that have failed (open, query, testConnection,
\* getStaticCompletions and close).
CallsEnd ==
  \A k \in Calls : pc[k] \in InFlight ~>
    \/ pc[k] \in Ended
    \/ pc[k] = "waiting" /\ pools[pool[k]] = "ended"
    \/ /\ pc[k] = "waiting"
       /\ \A c \in Clients : \E j \in Calls :
            user[<<pool[k], c>>] = j /\ operation[j] = "test" /\ pc[j] = "failed"
==============================================================================
