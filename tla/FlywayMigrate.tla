---------------------------- MODULE FlywayMigrate ----------------------------
(***************************************************************************)
(* `flyway migrate` against Aurora DSQL (src/flyway).  Any number of Flyway*)
(* processes run the pending migrations of one schema.  DSQL has no        *)
(* advisory locks, so DSQLConnection.lock excludes nobody; each migration  *)
(* is a transaction on the migration connection that DSQLExecutionTemplate *)
(* retries on an optimistic-concurrency (OCC) conflict, while its history  *)
(* row is inserted on the auto-commit main connection and survives the     *)
(* rollback.  DSQLConnection.reconcileDuplicateHistoryRows removes what    *)
(* the retries leave behind.  With awaitAsyncIndexes on,                   *)
(* DSQLSqlScriptExecutor waits for every CREATE INDEX ASYNC, committing    *)
(* the transaction half-way through the callback.  A statement that says   *)
(* IF NOT EXISTS does nothing, and fails at nothing, where its object is.  *)
(*                                                                         *)
(* Flyway's core and DSQL are external: their steps are what the comments  *)
(* and the code under src/flyway rely on.                                  *)
(***************************************************************************)
EXTENDS Integers, FiniteSets

CONSTANTS
  Migrators,      \* the Flyway processes
  NumVersions,    \* the versioned migrations are 1..NumVersions, in order
  DdlVersions,    \* those that create a catalog object; the others are DML
  IndexVersions,  \* those DDL migrations that are a CREATE INDEX ASYNC
  IfNotExists,    \* those DDL migrations that say IF NOT EXISTS
  OccMaxRetries,  \* flyway.dsql.occMaxRetries as configured
  AwaitAsync,     \* flyway.dsql.awaitAsyncIndexes
  MaxRuns,        \* bound: `flyway migrate` invocations per process
  MaxRepairs,     \* bound: repairs
  MaxRank         \* bound: installed_rank

ASSUME MigrateAssumption ==
  /\ NumVersions \in Nat
  /\ IndexVersions \subseteq DdlVersions
  /\ IfNotExists \subseteq DdlVersions
  /\ DdlVersions \subseteq 1..NumVersions
  /\ OccMaxRetries \in Int
  /\ AwaitAsync \in BOOLEAN
  /\ MaxRuns \in Nat
  /\ MaxRepairs \in Nat
  /\ MaxRank \in Nat

Versions == 1..NumVersions
NoVersion == 0                    \* SQL NULL: the schema-creation marker
Types == {"SCHEMA", "SQL", "DELETE"}
Ranks == 0..MaxRank

Row == [rank: Ranks, version: Versions \cup {NoVersion}, type: Types,
        success: BOOLEAN]

VARIABLES
  history,    \* the rows of the schema-history table
  applied,    \* how often the body of a version has been committed
  index,      \* what has become of the index of a version
  accepted,   \* the versions whose wait took an index that IF NOT EXISTS had
              \* found, and that was not valid, for a built one
  repairs,    \* repairs so far
  pc,         \* where each process is
  runs,       \* invocations so far
  ver,        \* the version a process is migrating
  attempt,    \* retries of its callback so far
  seen,       \* applied[ver] as the body's snapshot saw it, or Skipped
  committed,  \* has this process committed the body of ver
  autoCommit, \* is its migration connection in auto-commit mode
  rank,       \* the installed_rank it is about to insert
  error,      \* the error in flight while waitForJob restores auto-commit
  outcome,    \* how its last invocation ended
  reported    \* the versions whose lock call returned: the MigrateResults

database == <<history, applied, index, accepted, repairs>>
process  == <<pc, runs, ver, attempt, seen, committed, autoCommit, rank,
              error, outcome, reported>>
vars == <<database, process>>

Locations == {"idle", "group", "body", "wait", "await", "restore", "rank",
              "insert", "commit", "backoff", "giveup", "reconcile"}
Errors == {"occ", "other"}
Skipped == -1                     \* the body found its object and did nothing

TypeOK ==
  /\ history \in SUBSET Row
  /\ applied \in [Versions -> Nat]
  /\ index \in [Versions -> {"none", "building", "valid", "invalid"}]
  /\ accepted \in SUBSET Versions
  /\ repairs \in Nat
  /\ pc \in [Migrators -> Locations]
  /\ runs \in [Migrators -> Nat]
  /\ ver \in [Migrators -> Versions \cup {NoVersion}]
  /\ attempt \in [Migrators -> Nat]
  /\ seen \in [Migrators -> Nat \cup {Skipped}]
  /\ committed \in [Migrators -> BOOLEAN]
  /\ autoCommit \in [Migrators -> BOOLEAN]
  /\ rank \in [Migrators -> Ranks]
  /\ error \in [Migrators -> Errors \cup {"none"}]
  /\ outcome \in [Migrators -> {"none", "ok", "unreconciled", "failed", "crashed"}]
  /\ reported \in SUBSET Versions

------------------------------------------------------------------------------
(* The schema history.                                                     *)

\* The rows of h with success = TRUE, version v and type t.
Successes(h, v, t) == {r \in h : r.success /\ r.version = v /\ r.type = t}

\* Mutants of Superseded: MAX counts the row itself; the type is not compared.
Superseded_RowItself(h, r) ==
  r.version # NoVersion /\ r.success /\ \E s \in Successes(h, r.version, r.type) : r.rank <= s.rank
Superseded_AnyType(h, r) ==
  r.version # NoVersion /\ r.success
    /\ \E s \in h : s.success /\ s.version = r.version /\ r.rank < s.rank

\* The WHERE clause of the DELETE: a versioned success that a higher-ranked
\* success of the same version and type supersedes.
Superseded(h, r) ==
  /\ r.version # NoVersion
  /\ r.success
  /\ \E s \in Successes(h, r.version, r.type) : r.rank < s.rank

\* Mutant: the early return for a missing table is taken always.
reconcileStatement_Skipped(h) == h

\* DELETE of every row that satisfies the WHERE clause, in one statement.
reconcileStatement(h) == {r \in h : ~Superseded(h, r)}

\* The row of version v with the highest installed_rank decides its state.
Newest(h, r) == r \in h /\ \A s \in h : s.version = r.version => s.rank <= r.rank

\* Flyway runs a version with no row, or whose newest row is repair's marker.
Pending(h, v) == \A r \in h : (Newest(h, r) /\ r.version = v) => r.type = "DELETE"

Failed(h) == {r \in h : ~r.success}

\* n is the next installed_rank: one above the highest, 0 in an empty table.
NextRank(n) == /\ \A r \in history : r.rank < n
               /\ n = 0 \/ \E r \in history : n = r.rank + 1

\* installed_rank is the primary key.
RankTaken(n) == \E r \in history : r.rank = n

------------------------------------------------------------------------------
(* The OCC retry.                                                          *)

\* The configured count, clamped to what the connector accepts.
resolveOccRetryKnobs == IF OccMaxRetries < 0 THEN 0
                        ELSE IF OccMaxRetries > 100 THEN 100 ELSE OccMaxRetries

\* Mutant: any error is retried.
Retries_AnyError(m, e) == e \in Errors /\ attempt[m] < resolveOccRetryKnobs

\* The catch block of DSQLExecutionTemplate.execute: retry an OCC conflict while
\* attempts are left, rethrow anything else.
Retries(m, e) == e = "occ" /\ attempt[m] < resolveOccRetryKnobs

\* An error leaves the delegate template: it has rolled back, and restores
\* auto-commit; the decorator retries or rethrows.
Throw(m, e) ==
  /\ pc' = [pc EXCEPT ![m] = IF Retries(m, e) THEN "backoff" ELSE "giveup"]
  /\ autoCommit' = [autoCommit EXCEPT ![m] = TRUE]
  /\ error' = [error EXCEPT ![m] = "none"]

Goto(m, l) == pc' = [pc EXCEPT ![m] = l]

\* The locals of a migration go out of scope.
Forget(m) ==
  /\ ver' = [ver EXCEPT ![m] = NoVersion]
  /\ attempt' = [attempt EXCEPT ![m] = 0]
  /\ seen' = [seen EXCEPT ![m] = 0]
  /\ committed' = [committed EXCEPT ![m] = FALSE]
  /\ rank' = [rank EXCEPT ![m] = 0]

------------------------------------------------------------------------------
Init ==
  /\ history = {}
  /\ applied = [v \in Versions |-> 0]
  /\ index = [v \in Versions |-> "none"]
  /\ accepted = {}
  /\ repairs = 0
  /\ pc = [m \in Migrators |-> "idle"]
  /\ runs = [m \in Migrators |-> 0]
  /\ ver = [m \in Migrators |-> NoVersion]
  /\ attempt = [m \in Migrators |-> 0]
  /\ seen = [m \in Migrators |-> 0]
  /\ committed = [m \in Migrators |-> FALSE]
  /\ autoCommit = [m \in Migrators |-> TRUE]
  /\ rank = [m \in Migrators |-> 0]
  /\ error = [m \in Migrators |-> "none"]
  /\ outcome = [m \in Migrators |-> "none"]
  /\ reported = {}

\* A `flyway migrate` begins.  The first one to find no history table creates it
\* and its schema-creation marker, which carries no version.
StartMigrate(m) ==
  /\ pc[m] = "idle"
  /\ runs[m] < MaxRuns
  /\ runs' = [runs EXCEPT ![m] = @ + 1]
  /\ Goto(m, "group")
  /\ history' = IF history = {}
                THEN {[rank |-> 0, version |-> NoVersion, type |-> "SCHEMA",
                       success |-> TRUE]}
                ELSE history
  /\ UNCHANGED <<applied, index, accepted, repairs, ver, attempt, seen, committed,
                 autoCommit, rank, error, outcome, reported>>

\* DSQLConnection.lock runs the callable at once: no lock is taken.  The callable
\* refuses to go on over a failed row, and lock then rethrows without reconciling.
LockOverFailure(m) ==
  /\ pc[m] = "group"
  /\ Failed(history) # {}
  /\ Goto(m, "idle")
  /\ outcome' = [outcome EXCEPT ![m] = "failed"]
  /\ UNCHANGED <<database, runs, ver, attempt, seen, committed, autoCommit,
                 rank, error, reported>>

\* The callable picks the first pending version.
LockPending(m) ==
  /\ pc[m] = "group"
  /\ Failed(history) = {}
  /\ \E v \in Versions :
       /\ Pending(history, v)
       /\ \A w \in Versions : w < v => ~Pending(history, w)
       /\ ver' = [ver EXCEPT ![m] = v]
  /\ Goto(m, "body")
  /\ UNCHANGED <<database, runs, attempt, seen, committed, autoCommit, rank,
                 error, outcome, reported>>

\* Nothing is pending: the callable returns, and lock reconciles all the same.
LockIdle(m) ==
  /\ pc[m] = "group"
  /\ Failed(history) = {}
  /\ \A v \in Versions : ~Pending(history, v)
  /\ Goto(m, "reconcile")
  /\ UNCHANGED <<database, runs, ver, attempt, seen, committed, autoCommit, rank,
                 error, outcome, reported>>

\* The object a DDL body creates exists already in the body's snapshot.  Of these
\* objects only an index is ever dropped.
AlreadyApplied(m) ==
  /\ ver[m] \in DdlVersions
  /\ IF ver[m] \in IndexVersions THEN index[ver[m]] # "none" ELSE applied[ver[m]] > 0

Awaits(m) == AwaitAsync /\ ver[m] \in IndexVersions

\* The delegate opens a transaction and the callback runs every statement of the
\* script (DSQLSqlScriptExecutor.execute calls its delegate first).  Where the object
\* exists, IF NOT EXISTS lets the statement pass without a look at the object.
RunBody(m) ==
  /\ pc[m] = "body"
  /\ AlreadyApplied(m) => ver[m] \in IfNotExists
  /\ seen' = [seen EXCEPT ![m] = IF AlreadyApplied(m) THEN Skipped ELSE applied[ver[m]]]
  /\ autoCommit' = [autoCommit EXCEPT ![m] = FALSE]
  /\ Goto(m, IF Awaits(m) THEN "wait" ELSE "rank")
  /\ UNCHANGED <<database, runs, ver, attempt, committed, rank, error, outcome,
                 reported>>

\* A statement fails, or an index statement that is to be awaited returned no job_id,
\* as one that IF NOT EXISTS let pass may.  A statement whose object exists is no
\* conflict.
FailBody(m) ==
  /\ pc[m] = "body"
  /\ \E e \in Errors :
       /\ AlreadyApplied(m) => e = "other"
       /\ Throw(m, e)
  /\ UNCHANGED <<database, runs, ver, attempt, seen, committed, rank, outcome,
                 reported>>

\* DSQL rejects the commit of a DDL body whose object has appeared meanwhile.
Conflicts(m) ==
  ver[m] \in DdlVersions /\ seen[m] # Skipped /\ applied[ver[m]] # seen[m]

\* The transaction of ver[m] takes effect, unless it did nothing; an index starts to
\* build.
CommitBody(m) ==
  IF seen[m] = Skipped THEN UNCHANGED <<applied, index, committed>>
  ELSE /\ applied' = [applied EXCEPT ![ver[m]] = @ + 1]
       /\ index' = IF ver[m] \in IndexVersions
                   THEN [index EXCEPT ![ver[m]] = "building"] ELSE index
       /\ committed' = [committed EXCEPT ![m] = TRUE]

\* The commit fails.  A conflict is always rolled back; after any other error
\* (a lost connection) the transaction may have taken effect all the same.
CommitFails(m, e) ==
  \/ UNCHANGED <<applied, index, committed>>
  \/ e = "other" /\ ~Conflicts(m) /\ CommitBody(m)

\* waitForJob: sys.wait_for_job cannot run in a transaction, so setAutoCommit(true)
\* commits the one that is open.
WaitCommit(m) ==
  /\ pc[m] = "wait"
  /\ ~Conflicts(m)
  /\ CommitBody(m)
  /\ autoCommit' = [autoCommit EXCEPT ![m] = TRUE]
  /\ Goto(m, "await")
  /\ UNCHANGED <<history, accepted, repairs, runs, ver, attempt, seen, rank, error,
                 outcome, reported>>

WaitCommitFails(m) ==
  /\ pc[m] = "wait"
  /\ \E e \in Errors : CommitFails(m, e) /\ Throw(m, e)
  /\ UNCHANGED <<history, accepted, repairs, runs, ver, attempt, seen, rank, outcome,
                 reported>>

\* Mutant: a wait that returns is taken for a built index.
AwaitJob_AnyAnswer(m) ==
  /\ pc[m] = "await"
  /\ Goto(m, "restore")
  /\ UNCHANGED <<database, runs, ver, attempt, seen, committed, autoCommit,
                 rank, error, outcome, reported>>

\* The job answers TRUE only for an index that is built; a failed build and a wait
\* that timed out answer FALSE, and the call itself may fail.  A job of a statement
\* that did nothing has nothing to build, and may answer TRUE over any index.
AwaitJob(m) ==
  /\ pc[m] = "await"
  /\ \/ /\ index[ver[m]] = "valid" \/ seen[m] = Skipped
        /\ accepted' = IF index[ver[m]] = "valid" THEN accepted ELSE accepted \cup {ver[m]}
        /\ UNCHANGED error
     \/ /\ error' = [error EXCEPT ![m] = "other"]
        /\ UNCHANGED accepted
  /\ Goto(m, "restore")
  /\ UNCHANGED <<history, applied, index, repairs, runs, ver, attempt, seen, committed,
                 autoCommit, rank, outcome, reported>>

\* The finally block puts the connection back in transactional mode, then throws
\* the error in flight, if there is one.
RestoreAutoCommit(m) ==
  /\ pc[m] = "restore"
  /\ \/ /\ error[m] = "none"
        /\ autoCommit' = [autoCommit EXCEPT ![m] = FALSE]
        /\ Goto(m, "rank")
        /\ UNCHANGED error
     \/ /\ error[m] # "none"
        /\ Throw(m, error[m])
  /\ UNCHANGED <<database, runs, ver, attempt, seen, committed, rank, outcome,
                 reported>>

\* Mutant: it is logged and swallowed.
RestoreFails_Swallowed(m) ==
  /\ pc[m] = "restore"
  /\ IF error[m] = "none" THEN Goto(m, "rank") /\ UNCHANGED <<autoCommit, error>>
                          ELSE Throw(m, error[m])
  /\ UNCHANGED <<database, runs, ver, attempt, seen, committed, rank, outcome,
                 reported>>

\* A restore that fails is never swallowed: it becomes the failure.
RestoreFails(m) ==
  /\ pc[m] = "restore"
  /\ Throw(m, IF error[m] = "none" THEN "other" ELSE error[m])
  /\ UNCHANGED <<database, runs, ver, attempt, seen, committed, rank, outcome,
                 reported>>

\* Still inside the callback, Flyway computes the next rank on the main connection...
ReadRank(m) ==
  /\ pc[m] = "rank"
  /\ \E n \in Ranks : NextRank(n) /\ rank' = [rank EXCEPT ![m] = n]
  /\ Goto(m, "insert")
  /\ UNCHANGED <<database, runs, ver, attempt, seen, committed, autoCommit,
                 error, outcome, reported>>

\* ... and inserts the success row there: auto-commit, so it is durable at once.
InsertRow(m) ==
  /\ pc[m] = "insert"
  /\ ~RankTaken(rank[m])
  /\ history' = history \cup {[rank |-> rank[m], version |-> ver[m],
                               type |-> "SQL", success |-> TRUE]}
  /\ Goto(m, "commit")
  /\ UNCHANGED <<applied, index, accepted, repairs, runs, ver, attempt, seen, committed,
                 autoCommit, rank, error, outcome, reported>>

\* Another process took the rank: a conflict, or a duplicate key.  Or the
\* connection is lost.
InsertFails(m) ==
  /\ pc[m] = "insert"
  /\ \E e \in Errors : (e = "occ" => RankTaken(rank[m])) /\ Throw(m, e)
  /\ UNCHANGED <<database, runs, ver, attempt, seen, committed, rank, outcome,
                 reported>>

\* The delegate commits after the callback.  When the wait has committed already,
\* the transaction is empty.
Commit(m) ==
  /\ pc[m] = "commit"
  /\ IF Awaits(m) THEN UNCHANGED <<applied, index, committed>>
                  ELSE ~Conflicts(m) /\ CommitBody(m)
  /\ autoCommit' = [autoCommit EXCEPT ![m] = TRUE]
  /\ Goto(m, "reconcile")
  /\ UNCHANGED <<history, accepted, repairs, runs, ver, attempt, seen, rank, error,
                 outcome, reported>>

CommitRaises(m) ==
  /\ pc[m] = "commit"
  /\ \E e \in Errors :
       /\ IF Awaits(m) THEN e = "other" /\ UNCHANGED <<applied, index, committed>>
                       ELSE CommitFails(m, e)
       /\ Throw(m, e)
  /\ UNCHANGED <<history, accepted, repairs, runs, ver, attempt, seen, rank, outcome,
                 reported>>

\* Mutant: attempts are not counted.
Backoff_Uncounted(m) ==
  /\ pc[m] = "backoff"
  /\ Goto(m, "body")
  /\ UNCHANGED <<database, runs, ver, attempt, seen, committed, autoCommit, rank,
                 error, outcome, reported>>

\* After the backoff the decorator runs the whole callback again.
Backoff(m) ==
  /\ pc[m] = "backoff"
  /\ attempt' = [attempt EXCEPT ![m] = @ + 1]
  /\ Goto(m, "body")
  /\ UNCHANGED <<database, runs, ver, seen, committed, autoCommit, rank, error,
                 outcome, reported>>

\* An interrupt during the sleep is rethrown as a FlywayException.
BackoffInterrupted(m) ==
  /\ pc[m] = "backoff"
  /\ Goto(m, "giveup")
  /\ UNCHANGED <<database, runs, ver, attempt, seen, committed, autoCommit,
                 rank, error, outcome, reported>>

\* The run fails.  Flyway records a failed row (DSQL has no DDL transactions),
\* unless the error, or the insert, keeps it from doing so; lock does not reconcile.
GiveUp(m) ==
  /\ pc[m] = "giveup"
  /\ \/ \E n \in Ranks :
          /\ NextRank(n)
          /\ history' = history \cup {[rank |-> n, version |-> ver[m],
                                       type |-> "SQL", success |-> FALSE]}
     \/ UNCHANGED history
  /\ outcome' = [outcome EXCEPT ![m] = "failed"]
  /\ Goto(m, "idle")
  /\ Forget(m)
  /\ UNCHANGED <<applied, index, accepted, repairs, runs, autoCommit, error, reported>>

\* Mutant: a call with nothing to migrate is reported too.
AfterLock_ReportsAll(m) ==
  /\ Goto(m, IF ver[m] = NoVersion THEN "idle" ELSE "group")
  /\ reported' = reported \cup {ver[m]}
  /\ Forget(m)

\* After the callable, lock deletes the duplicates and returns; `migrate` goes on
\* with the next version until none is pending.
AfterLock(m) ==
  /\ Goto(m, IF ver[m] = NoVersion THEN "idle" ELSE "group")
  /\ reported' = reported \cup ({ver[m]} \ {NoVersion})
  /\ Forget(m)

Reconcile(m) ==
  /\ pc[m] = "reconcile"
  /\ history' = reconcileStatement(history)
  /\ outcome' = [outcome EXCEPT ![m] = "ok"]
  /\ AfterLock(m)
  /\ UNCHANGED <<applied, index, accepted, repairs, runs, autoCommit, error>>

\* Best effort: an error of the cleanup is logged, and lock returns all the same.
ReconcileFails(m) ==
  /\ pc[m] = "reconcile"
  /\ outcome' = [outcome EXCEPT ![m] = "unreconciled"]
  /\ AfterLock(m)
  /\ UNCHANGED <<database, runs, autoCommit, error>>

\* The process dies.  Its open transaction is gone, its history rows are not.
Crash(m) ==
  /\ pc[m] # "idle"
  /\ Goto(m, "idle")
  /\ outcome' = [outcome EXCEPT ![m] = "crashed"]
  /\ autoCommit' = [autoCommit EXCEPT ![m] = TRUE]
  /\ error' = [error EXCEPT ![m] = "none"]
  /\ Forget(m)
  /\ UNCHANGED <<database, runs, reported>>

------------------------------------------------------------------------------
(* The database and its operator.                                          *)

\* A background build ends.
IndexBuilt(v) ==
  /\ index[v] = "building"
  /\ \E s \in {"valid", "invalid"} : index' = [index EXCEPT ![v] = s]
  /\ UNCHANGED <<history, applied, accepted, repairs, process>>

\* "A rerun must drop it first": the operator drops an index whose build failed.
DropInvalidIndex(v) ==
  /\ index[v] = "invalid"
  /\ index' = [index EXCEPT ![v] = "none"]
  /\ UNCHANGED <<history, applied, accepted, repairs, process>>

\* `flyway repair` deletes the failed rows.
RepairFailed ==
  /\ repairs < MaxRepairs
  /\ Failed(history) # {}
  /\ history' = history \ Failed(history)
  /\ repairs' = repairs + 1
  /\ UNCHANGED <<applied, index, accepted, process>>

\* `flyway repair` appends a DELETE marker above a version whose script is gone;
\* when the script comes back, the version is pending again.
RepairDeleted(v) ==
  /\ repairs < MaxRepairs
  /\ \E r \in history : Newest(history, r) /\ r.version = v /\ r.success
                        /\ r.type = "SQL"
  /\ \E n \in Ranks :
       /\ NextRank(n)
       /\ history' = history \cup {[rank |-> n, version |-> v,
                                    type |-> "DELETE", success |-> TRUE]}
  /\ repairs' = repairs + 1
  /\ UNCHANGED <<applied, index, accepted, process>>

------------------------------------------------------------------------------
\* A step of process m, crashes apart.
Migrate(m) ==
  \/ StartMigrate(m)
  \/ LockOverFailure(m) \/ LockPending(m) \/ LockIdle(m)
  \/ RunBody(m) \/ FailBody(m)
  \/ WaitCommit(m) \/ WaitCommitFails(m) \/ AwaitJob(m)
  \/ RestoreAutoCommit(m) \/ RestoreFails(m)
  \/ ReadRank(m) \/ InsertRow(m) \/ InsertFails(m)
  \/ Commit(m) \/ CommitRaises(m)
  \/ Backoff(m) \/ BackoffInterrupted(m) \/ GiveUp(m)
  \/ Reconcile(m) \/ ReconcileFails(m)

Environment ==
  \/ \E m \in Migrators : Crash(m)
  \/ \E v \in Versions : IndexBuilt(v) \/ DropInvalidIndex(v) \/ RepairDeleted(v)
  \/ RepairFailed

Next == (\E m \in Migrators : Migrate(m)) \/ Environment

Spec == Init /\ [][Next]_vars

\* A process that runs keeps running, and a background build ends: server-side
\* waits time out, sleeps end and every JDBC call returns or throws.
Fairness == /\ \A m \in Migrators : WF_vars(pc[m] # "idle" /\ Migrate(m))
            /\ \A v \in Versions : WF_vars(IndexBuilt(v))

FairSpec == Spec /\ Fairness

------------------------------------------------------------------------------
(* Properties.                                                             *)

\* "A conflicting transaction is rolled back before the retry, so nothing was
\* committed to replay" (DSQLExecutionTemplate): a callback about to be replayed
\* has not committed the migration's body.
NothingCommittedToReplay ==
  \A m \in Migrators : pc[m] = "backoff" => ~committed[m]

\* A version that some process reported as migrated has been applied, and the
\* history says so, whatever the other processes, their reconciliations and the
\* repairs do to the rows.
ReportedVersionsStick ==
  \A v \in reported : applied[v] > 0 /\ Successes(history, v, "SQL") # {}

\* A retried migration leaves a duplicate row "that DSQLConnection reconciles
\* afterward": once every process is through, the last run of each succeeded and
\* its cleanup did not fail, no version has two success rows.
QuietHistoryHasNoDuplicates ==
  (\A m \in Migrators : pc[m] = "idle" /\ outcome[m] \in {"none", "ok"})
    => \A r, s \in history :
         r.success /\ s.success /\ r.type = "SQL" /\ s.type = "SQL"
           /\ r.version = s.version => r = s

\* "A later migration step sees a built index": with the wait on, a version is
\* reported only when its index is usable, whatever failed builds, drops and reruns
\* came before.  The one way round it is the one that DSQLSqlScriptExecutor warns
\* of, "IF NOT EXISTS can silently accept the INVALID index": a run that says so,
\* over an index that is not built, of which the job said TRUE.
AwaitedIndexValid ==
  AwaitAsync =>
    \A v \in reported \cap IndexVersions : index[v] = "valid" \/ v \in accepted \cap IfNotExists

\* A migration connection left in auto-commit mode silently defeats rollback: no
\* process goes on to record or commit a migration on one.
RollbackNeverDefeated ==
  \A m \in Migrators : pc[m] \in {"rank", "insert", "commit"} => ~autoCommit[m]

\* The retries are bounded and no wait is endless: every invocation ends.
RunsTerminate == \A m \in Migrators : pc[m] # "idle" ~> pc[m] = "idle"

\* The history is a ledger: retries, reconciliations and crashes never take a
\* recorded (version, type) away, and only repair takes a failure away.
Recorded == {<<r.version, r.type>> : r \in history \ Failed(history)}
Blocked == {r.version : r \in Failed(history)}
Ledger == INSTANCE HistoryLedger WITH
            Keys <- (Versions \cup {NoVersion}) \X Types,
            recorded <- Recorded,
            blocked <- Blocked
LedgerSpec == Ledger!Spec
==============================================================================
