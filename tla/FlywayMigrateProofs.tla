------------------------- MODULE FlywayMigrateProofs -------------------------
(***************************************************************************)
(* Proofs about FlywayMigrate, for every set of processes, every number of *)
(* migrations and every configuration.                                     *)
(***************************************************************************)
EXTENDS FlywayMigrate, FiniteSetTheorems, WellFoundedInduction, TLAPS

------------------------------------------------------------------------------
(* The schema history.                                                     *)

\* A non-empty set of ranks has a greatest element.  Proved from the
\* well-foundedness of strict inclusion: of the sets of ranks above a rank of S,
\* a minimal one is empty.
LEMMA GreatestRank ==
  ASSUME NEW S \in SUBSET Ranks, S # {}
  PROVE  \E x \in S : \A y \in S : y <= x
<1> DEFINE Above(x) == {y \in S : x < y}
           T == {Above(x) : x \in S}
<1>1. Ranks \subseteq Nat
  BY MigrateAssumption DEF Ranks
<1>2. IsFiniteSet(S)
  <2>1. \A y \in S : y <= MaxRank
    BY MigrateAssumption DEF Ranks
  <2>2. S \in SUBSET Nat /\ MaxRank \in Nat
    BY <1>1, MigrateAssumption
  <2> QED  BY <2>1, <2>2, FS_BoundedSetOfNaturals
<1>3. T \subseteq FiniteSubsetsOf(S)
  BY <1>2, FS_Subset DEF FiniteSubsetsOf
<1>4. T # {}
  OBVIOUS
<1>5. IsWellFoundedOn(StrictSubsetOrdering(S), FiniteSubsetsOf(S))
  BY FS_StrictSubsetOrderingWellFounded
<1>6. PICK A \in T : \A B \in T : ~(<<B, A>> \in StrictSubsetOrdering(S))
  BY <1>3, <1>4, <1>5, WFMin
<1>7. PICK x \in S : A = Above(x)
  BY <1>6
<1>8. ASSUME NEW y \in S, x < y
      PROVE  FALSE
  <2>1. Above(y) \in T
    OBVIOUS
  <2>2. Above(y) \subseteq Above(x) /\ y \in Above(x) /\ y \notin Above(y)
    <3>1. \A z \in S : z \in Nat
      BY <1>1
    <3>2. \A z \in S : y < z => x < z
      BY <1>8, <3>1
    <3>3. ~(y < y)
      BY <3>1
    <3> QED  BY <1>8, <3>2, <3>3
  <2>3. <<Above(y), A>> \in StrictSubsetOrdering(S)
    BY <1>7, <2>2 DEF StrictSubsetOrdering
  <2> QED  BY <1>6, <2>1, <2>3
<1> QED  BY <1>1, <1>8

\* Reconciliation keeps, of every version and type, a success row.
LEMMA ReconcileKeepsRecords ==
  ASSUME NEW h \in SUBSET Row, NEW v, NEW t, Successes(h, v, t) # {}
  PROVE  Successes(reconcileStatement(h), v, t) # {}
<1> DEFINE S == Successes(h, v, t)
           R == {r.rank : r \in S}
<1>1. R \in SUBSET Ranks /\ R # {}
  BY DEF Successes, Row
<1>2. PICK n \in R : \A k \in R : k <= n
  BY <1>1, GreatestRank
<1>3. PICK r \in S : r.rank = n
  OBVIOUS
<1>4. \A s \in S : s.rank <= r.rank
  BY <1>2, <1>3
<1>5. r \in h /\ r.version = v /\ r.type = t /\ r.success
  BY <1>3 DEF Successes
<1>6. ~Superseded(h, r)
  <2>1. \A s \in S : s.rank \in Int /\ r.rank \in Int
    BY <1>5, MigrateAssumption DEF Successes, Row, Ranks
  <2> QED  BY <1>4, <1>5, <2>1 DEF Superseded
<1>7. r \in Successes(reconcileStatement(h), v, t)
  BY <1>5, <1>6 DEF Successes, reconcileStatement
<1> QED  BY <1>7

\* Reconciliation only removes rows.
LEMMA ReconcileShrinks ==
  ASSUME NEW h
  PROVE  reconcileStatement(h) \subseteq h
BY DEF reconcileStatement

\* Reconciliation leaves the failed rows alone.
LEMMA ReconcileKeepsFailures ==
  ASSUME NEW h
  PROVE  Failed(reconcileStatement(h)) = Failed(h)
BY DEF reconcileStatement, Failed, Superseded

------------------------------------------------------------------------------
(* The inductive invariant.                                                *)

\* A process at one of these locations is migrating a version.
Migrating == {"body", "wait", "await", "restore", "rank", "insert", "commit",
              "backoff", "giveup"}

\* Where a process knows what it is doing.
LocationInv ==
  \A m \in Migrators :
    /\ pc[m] \in Migrating => ver[m] \in Versions
    /\ pc[m] \in {"idle", "group"} => ver[m] = NoVersion
    /\ pc[m] \in {"wait", "await", "restore"} => Awaits(m)

\* Without the wait, only the final commit commits, and no retry follows it.
ReplayInv ==
  ~AwaitAsync => \A m \in Migrators :
                   pc[m] \notin {"giveup", "reconcile"} => ~committed[m]

\* installed_rank is a key, and what a migration writes carries its version.
KeyInv == /\ \A r, s \in history : r.rank = s.rank => r = s
          /\ \A r \in history : r.type = "SQL" => r.version \in Versions

\* The transaction of a process is open: it may still commit its body.
Open(m) == pc[m] = "wait" \/ (pc[m] \in {"rank", "insert", "commit"} /\ ~Awaits(m))

\* A body that creates an index saw none; if no other has committed since, there is
\* none now.
SeenNothing ==
  \A m \in Migrators :
    Open(m) /\ seen[m] # Skipped /\ ver[m] \in IndexVersions
      => /\ seen[m] <= applied[ver[m]]
         /\ seen[m] = applied[ver[m]] => index[ver[m]] = "none"

\* A body that IF NOT EXISTS let pass found an object that a committed body created,
\* and so did a wait that took its index for a built one.
SkippedApplied ==
  /\ \A m \in Migrators : seen[m] = Skipped => ver[m] \in IfNotExists /\ applied[ver[m]] > 0
  /\ \A v \in accepted : v \in IfNotExists /\ applied[v] > 0

\* An index has been created by a committed body.
IndexApplied == \A v \in IndexVersions : index[v] # "none" => applied[v] > 0

SnapshotInv == SeenNothing /\ SkippedApplied /\ IndexApplied

\* Past the wait, the index is valid, or IF NOT EXISTS had it accepted as it was.
WaitInv ==
  \A m \in Migrators :
    Awaits(m) /\ (\/ pc[m] \in {"rank", "insert", "commit", "reconcile"}
                  \/ pc[m] = "restore" /\ error[m] = "none")
      => index[ver[m]] = "valid" \/ ver[m] \in accepted

\* A process whose row is in has a success row of its version, its own or a newer
\* one; past the commit, the version has been applied.
RecordInv ==
  \A m \in Migrators : ver[m] # NoVersion =>
    /\ pc[m] \in {"commit", "reconcile"} => Successes(history, ver[m], "SQL") # {}
    /\ pc[m] = "reconcile" => applied[ver[m]] > 0

IInv == /\ TypeOK
        /\ LocationInv
        /\ ReplayInv
        /\ KeyInv
        /\ SnapshotInv
        /\ WaitInv
        /\ RecordInv
        /\ RollbackNeverDefeated
        /\ ReportedVersionsStick
        /\ AwaitedIndexValid
        /\ QuietHistoryHasNoDuplicates

------------------------------------------------------------------------------
(* Type correctness.                                                       *)

\* What the shared parts of the actions assign has the right type.
LEMMA CommitBodyType ==
  ASSUME TypeOK, NEW m \in Migrators, ver[m] \in Versions, CommitBody(m)
  PROVE  /\ applied' \in [Versions -> Nat]
         /\ index' \in [Versions -> {"none", "building", "valid", "invalid"}]
         /\ committed' \in [Migrators -> BOOLEAN]
<1>1. applied[ver[m]] + 1 \in Nat
  BY DEF TypeOK
<1> QED  BY <1>1 DEF TypeOK, CommitBody

LEMMA ThrowType ==
  ASSUME TypeOK, NEW m \in Migrators, NEW e, Throw(m, e)
  PROVE  /\ pc' \in [Migrators -> Locations]
         /\ autoCommit' \in [Migrators -> BOOLEAN]
         /\ error' \in [Migrators -> Errors \cup {"none"}]
BY DEF TypeOK, Throw, Locations

LEMMA ForgetType ==
  ASSUME TypeOK, NEW m \in Migrators, Forget(m)
  PROVE  /\ ver' \in [Migrators -> Versions \cup {NoVersion}]
         /\ attempt' \in [Migrators -> Nat]
         /\ seen' \in [Migrators -> Nat \cup {Skipped}]
         /\ committed' \in [Migrators -> BOOLEAN]
         /\ rank' \in [Migrators -> Ranks]
<1>1. 0 \in Nat /\ 0 \in Ranks
  BY MigrateAssumption DEF Ranks
<1> QED  BY <1>1 DEF TypeOK, Forget

LEMMA AfterLockType ==
  ASSUME TypeOK, NEW m \in Migrators, AfterLock(m)
  PROVE  /\ pc' \in [Migrators -> Locations]
         /\ reported' \in SUBSET Versions
BY DEF TypeOK, AfterLock, Goto, Locations

\* Every row the processes and repair insert is a row.
LEMMA RowType ==
  ASSUME NEW n \in Ranks, NEW v \in Versions \cup {NoVersion}, NEW t \in Types,
         NEW s \in BOOLEAN
  PROVE  [rank |-> n, version |-> v, type |-> t, success |-> s] \in Row
BY DEF Row

\* Every step keeps the types.
LEMMA TypeStep ==
  ASSUME TypeOK, LocationInv, [Next]_vars
  PROVE  TypeOK'
<1>1. ASSUME NEW m \in Migrators, StartMigrate(m)
      PROVE  TypeOK'
  <2>1. [rank |-> 0, version |-> NoVersion, type |-> "SCHEMA", success |-> TRUE] \in Row
    BY MigrateAssumption DEF Row, Ranks, Types
  <2>2. runs[m] + 1 \in Nat
    BY DEF TypeOK
  <2> QED  BY <1>1, <2>1, <2>2 DEF StartMigrate, Goto, TypeOK, Locations
<1>2. ASSUME NEW m \in Migrators, LockOverFailure(m)
      PROVE  TypeOK'
  BY <1>2 DEF LockOverFailure, Goto, database, process, TypeOK, Locations, Errors
<1>3. ASSUME NEW m \in Migrators, LockPending(m)
      PROVE  TypeOK'
  BY <1>3 DEF LockPending, Goto, database, process, TypeOK, Locations, Errors
<1>4. ASSUME NEW m \in Migrators, LockIdle(m)
      PROVE  TypeOK'
  BY <1>4 DEF LockIdle, Goto, database, process, TypeOK, Locations, Errors
<1>5. ASSUME NEW m \in Migrators, RunBody(m)
      PROVE  TypeOK'
  <2>1. applied[ver[m]] \in Nat
    BY <1>5 DEF RunBody, TypeOK, LocationInv, Migrating
  <2> QED  BY <1>5, <2>1 DEF RunBody, Goto, database, TypeOK, Locations
<1>6. ASSUME NEW m \in Migrators, FailBody(m)
      PROVE  TypeOK'
  <2>1. PICK e \in Errors : Throw(m, e)
    BY <1>6 DEF FailBody
  <2> QED  BY <1>6, <2>1, ThrowType DEF FailBody, database, TypeOK
<1>7. ASSUME NEW m \in Migrators, WaitCommit(m)
      PROVE  TypeOK'
  <2>1. ver[m] \in Versions
    BY <1>7 DEF WaitCommit, LocationInv, Migrating
  <2> QED  BY <1>7, <2>1, CommitBodyType DEF WaitCommit, Goto, TypeOK, Locations
<1>8. ASSUME NEW m \in Migrators, WaitCommitFails(m)
      PROVE  TypeOK'
  <2>1. ver[m] \in Versions
    BY <1>8 DEF WaitCommitFails, LocationInv, Migrating
  <2>2. PICK e \in Errors : CommitFails(m, e) /\ Throw(m, e)
    BY <1>8 DEF WaitCommitFails
  <2> QED  BY <1>8, <2>1, <2>2, CommitBodyType, ThrowType
           DEF WaitCommitFails, CommitFails, TypeOK
<1>9. ASSUME NEW m \in Migrators, AwaitJob(m)
      PROVE  TypeOK'
  <2>1. ver[m] \in Versions
    BY <1>9 DEF AwaitJob, LocationInv, Migrating
  <2> QED  BY <1>9, <2>1 DEF AwaitJob, Goto, TypeOK, Locations, Errors
<1>10. ASSUME NEW m \in Migrators, RestoreAutoCommit(m)
      PROVE  TypeOK'
  BY <1>10, ThrowType DEF RestoreAutoCommit, Goto, database, TypeOK, Locations
<1>11. ASSUME NEW m \in Migrators, RestoreFails(m)
      PROVE  TypeOK'
  BY <1>11, ThrowType DEF RestoreFails, Goto, database, TypeOK, Locations
<1>12. ASSUME NEW m \in Migrators, ReadRank(m)
      PROVE  TypeOK'
  BY <1>12 DEF ReadRank, Goto, database, process, TypeOK, Locations, Errors
<1>13. ASSUME NEW m \in Migrators, InsertRow(m)
      PROVE  TypeOK'
  <2>1. [rank |-> rank[m], version |-> ver[m], type |-> "SQL", success |-> TRUE] \in Row
    BY RowType DEF TypeOK, Types
  <2> QED  BY <1>13, <2>1 DEF InsertRow, Goto, TypeOK, Locations
<1>14. ASSUME NEW m \in Migrators, InsertFails(m)
      PROVE  TypeOK'
  <2>1. PICK e \in Errors : Throw(m, e)
    BY <1>14 DEF InsertFails
  <2> QED  BY <1>14, <2>1, ThrowType DEF InsertFails, database, TypeOK
<1>15. ASSUME NEW m \in Migrators, Commit(m)
      PROVE  TypeOK'
  <2>1. ver[m] \in Versions
    BY <1>15 DEF Commit, LocationInv, Migrating
  <2> QED  BY <1>15, <2>1, CommitBodyType DEF Commit, Goto, TypeOK, Locations
<1>16. ASSUME NEW m \in Migrators, CommitRaises(m)
      PROVE  TypeOK'
  <2>1. ver[m] \in Versions
    BY <1>16 DEF CommitRaises, LocationInv, Migrating
  <2>2. PICK e \in Errors :
          /\ CommitFails(m, e) \/ UNCHANGED <<applied, index, committed>>
          /\ Throw(m, e)
    BY <1>16 DEF CommitRaises
  <2> QED  BY <1>16, <2>1, <2>2, CommitBodyType, ThrowType
           DEF CommitRaises, CommitFails, TypeOK
<1>17. ASSUME NEW m \in Migrators, Backoff(m)
      PROVE  TypeOK'
  <2>1. attempt[m] + 1 \in Nat
    BY DEF TypeOK
  <2> QED  BY <1>17, <2>1 DEF Backoff, Goto, database, TypeOK, Locations
<1>18. ASSUME NEW m \in Migrators, BackoffInterrupted(m)
      PROVE  TypeOK'
  BY <1>18
     DEF BackoffInterrupted, Goto, database, process, TypeOK, Locations, Errors
<1>19. ASSUME NEW m \in Migrators, GiveUp(m)
      PROVE  TypeOK'
  <2>1. \A n \in Ranks : [rank |-> n, version |-> ver[m], type |-> "SQL",
                          success |-> FALSE] \in Row
    BY RowType DEF TypeOK, Types
  <2> QED  BY <1>19, <2>1, ForgetType DEF GiveUp, Goto, TypeOK, Locations
<1>20. ASSUME NEW m \in Migrators, Reconcile(m)
      PROVE  TypeOK'
  <2>1. history' \in SUBSET Row
    BY <1>20, ReconcileShrinks DEF Reconcile, TypeOK
  <2> QED  BY <1>20, <2>1, AfterLockType, ForgetType
              DEF Reconcile, AfterLock, TypeOK
<1>21. ASSUME NEW m \in Migrators, ReconcileFails(m)
      PROVE  TypeOK'
  BY <1>21, AfterLockType, ForgetType
     DEF ReconcileFails, AfterLock, database, TypeOK
<1>22. ASSUME NEW m \in Migrators, Crash(m)
      PROVE  TypeOK'
  BY <1>22, ForgetType DEF Crash, Goto, database, TypeOK, Locations
<1>23. ASSUME NEW v \in Versions, IndexBuilt(v) \/ DropInvalidIndex(v)
      PROVE  TypeOK'
  BY <1>23 DEF IndexBuilt, DropInvalidIndex, process, TypeOK, Locations, Errors
<1>24. ASSUME NEW v \in Versions, RepairDeleted(v)
      PROVE  TypeOK'
  <2>1. \A n \in Ranks : [rank |-> n, version |-> v, type |-> "DELETE",
                          success |-> TRUE] \in Row
    BY RowType DEF Types
  <2>2. repairs + 1 \in Nat
    BY DEF TypeOK
  <2> QED  BY <1>24, <2>1, <2>2 DEF RepairDeleted, process, TypeOK
<1>25. CASE RepairFailed
  BY <1>25 DEF RepairFailed, process, TypeOK, Locations, Errors
<1>26. CASE UNCHANGED vars
  BY <1>26 DEF vars, database, process, TypeOK, Locations, Errors
<1> QED  BY <1>1, <1>2, <1>3, <1>4, <1>5, <1>6, <1>7, <1>8, <1>9, <1>10,
            <1>11, <1>12, <1>13, <1>14, <1>15, <1>16, <1>17, <1>18, <1>19,
            <1>20, <1>21, <1>22, <1>23, <1>24, <1>25, <1>26
            DEF Next, Migrate, Environment

\* No version is the null version.
LEMMA VersionsNotNull == NoVersion \notin Versions
BY MigrateAssumption DEF NoVersion, Versions

\* Every index version is a version, and not the null version.
LEMMA IndexVersionsNotNull ==
  IndexVersions \subseteq Versions /\ NoVersion \notin IndexVersions
BY MigrateAssumption DEF NoVersion, Versions

\* Every step keeps a process where it knows what it is doing.
LEMMA LocationStep ==
  ASSUME TypeOK, LocationInv, [Next]_vars
  PROVE  LocationInv'
<1>1. ASSUME NEW m \in Migrators, StartMigrate(m)
      PROVE  LocationInv'
  BY <1>1, VersionsNotNull
     DEF StartMigrate, Goto, database, process, TypeOK, LocationInv, Migrating,
     Awaits, Types, Locations
<1>2. ASSUME NEW m \in Migrators, LockOverFailure(m)
      PROVE  LocationInv'
  BY <1>2, VersionsNotNull
     DEF LockOverFailure, Goto, database, process, TypeOK, LocationInv,
     Migrating, Awaits, Types, Locations
<1>3. ASSUME NEW m \in Migrators, LockPending(m)
      PROVE  LocationInv'
  BY <1>3, VersionsNotNull
     DEF LockPending, Goto, database, process, TypeOK, LocationInv, Migrating,
     Awaits, Types, Locations
<1>4. ASSUME NEW m \in Migrators, LockIdle(m)
      PROVE  LocationInv'
  BY <1>4, VersionsNotNull
     DEF LockIdle, Goto, database, process, TypeOK, LocationInv, Migrating,
     Awaits, Types, Locations
<1>5. ASSUME NEW m \in Migrators, RunBody(m)
      PROVE  LocationInv'
  BY <1>5, VersionsNotNull
     DEF RunBody, Goto, database, process, TypeOK, LocationInv, Migrating,
     Awaits, Types, Locations
<1>6. ASSUME NEW m \in Migrators, FailBody(m)
      PROVE  LocationInv'
  BY <1>6, VersionsNotNull
     DEF FailBody, Throw, database, process, TypeOK, LocationInv, Migrating,
     Awaits, Types, Locations
<1>7. ASSUME NEW m \in Migrators, WaitCommit(m)
      PROVE  LocationInv'
  BY <1>7, VersionsNotNull
     DEF WaitCommit, Goto, CommitBody, database, process, TypeOK, LocationInv,
     Migrating, Awaits, Types, Locations
<1>8. ASSUME NEW m \in Migrators, WaitCommitFails(m)
      PROVE  LocationInv'
  BY <1>8, VersionsNotNull
     DEF WaitCommitFails, Throw, CommitFails, CommitBody, database, process,
     TypeOK, LocationInv, Migrating, Awaits, Types, Locations
<1>9. ASSUME NEW m \in Migrators, AwaitJob(m)
      PROVE  LocationInv'
  BY <1>9, VersionsNotNull
     DEF AwaitJob, Goto, database, process, TypeOK, LocationInv, Migrating,
     Awaits, Types, Locations
<1>10. ASSUME NEW m \in Migrators, RestoreAutoCommit(m)
      PROVE  LocationInv'
  BY <1>10, VersionsNotNull
     DEF RestoreAutoCommit, Goto, Throw, database, process, TypeOK, LocationInv,
     Migrating, Awaits, Types, Locations
<1>11. ASSUME NEW m \in Migrators, RestoreFails(m)
      PROVE  LocationInv'
  BY <1>11, VersionsNotNull
     DEF RestoreFails, Throw, database, process, TypeOK, LocationInv, Migrating,
     Awaits, Types, Locations
<1>12. ASSUME NEW m \in Migrators, ReadRank(m)
      PROVE  LocationInv'
  BY <1>12, VersionsNotNull
     DEF ReadRank, Goto, database, process, TypeOK, LocationInv, Migrating,
     Awaits, Types, Locations
<1>13. ASSUME NEW m \in Migrators, InsertRow(m)
      PROVE  LocationInv'
  BY <1>13, VersionsNotNull
     DEF InsertRow, Goto, database, process, TypeOK, LocationInv, Migrating,
     Awaits, Types, Locations
<1>14. ASSUME NEW m \in Migrators, InsertFails(m)
      PROVE  LocationInv'
  BY <1>14, VersionsNotNull
     DEF InsertFails, Throw, database, process, TypeOK, LocationInv, Migrating,
     Awaits, Types, Locations
<1>15. ASSUME NEW m \in Migrators, Commit(m)
      PROVE  LocationInv'
  BY <1>15, VersionsNotNull
     DEF Commit, Goto, CommitBody, database, process, TypeOK, LocationInv,
     Migrating, Awaits, Types, Locations
<1>16. ASSUME NEW m \in Migrators, CommitRaises(m)
      PROVE  LocationInv'
  BY <1>16, VersionsNotNull
     DEF CommitRaises, Throw, CommitFails, CommitBody, database, process,
     TypeOK, LocationInv, Migrating, Awaits, Types, Locations
<1>17. ASSUME NEW m \in Migrators, Backoff(m)
      PROVE  LocationInv'
  BY <1>17, VersionsNotNull
     DEF Backoff, Goto, database, process, TypeOK, LocationInv, Migrating,
     Awaits, Types, Locations
<1>18. ASSUME NEW m \in Migrators, BackoffInterrupted(m)
      PROVE  LocationInv'
  BY <1>18, VersionsNotNull
     DEF BackoffInterrupted, Goto, database, process, TypeOK, LocationInv,
     Migrating, Awaits, Types, Locations
<1>19. ASSUME NEW m \in Migrators, GiveUp(m)
      PROVE  LocationInv'
  BY <1>19, VersionsNotNull
     DEF GiveUp, Goto, Forget, database, process, TypeOK, LocationInv,
     Migrating, Awaits, Types, Locations
<1>20. ASSUME NEW m \in Migrators, Reconcile(m)
      PROVE  LocationInv'
  BY <1>20, VersionsNotNull
     DEF Reconcile, AfterLock, Goto, Forget, database, process, TypeOK,
     LocationInv, Migrating, Awaits, Types, Locations
<1>21. ASSUME NEW m \in Migrators, ReconcileFails(m)
      PROVE  LocationInv'
  BY <1>21, VersionsNotNull
     DEF ReconcileFails, AfterLock, Goto, Forget, database, process, TypeOK,
     LocationInv, Migrating, Awaits, Types, Locations
<1>22. ASSUME NEW m \in Migrators, Crash(m)
      PROVE  LocationInv'
  BY <1>22, VersionsNotNull
     DEF Crash, Goto, Forget, database, process, TypeOK, LocationInv, Migrating,
     Awaits, Types, Locations
<1>23. ASSUME NEW v \in Versions, IndexBuilt(v) \/ DropInvalidIndex(v)
      PROVE  LocationInv'
  BY <1>23, VersionsNotNull
     DEF IndexBuilt, DropInvalidIndex, process, TypeOK, LocationInv, Migrating,
     Awaits, Types, Locations
<1>24. ASSUME NEW v \in Versions, RepairDeleted(v)
      PROVE  LocationInv'
  BY <1>24, VersionsNotNull
     DEF RepairDeleted, process, TypeOK, LocationInv, Migrating, Awaits, Types,
     Locations
<1>25. CASE RepairFailed
  BY <1>25, VersionsNotNull
     DEF RepairFailed, process, TypeOK, LocationInv, Migrating, Awaits, Types,
     Locations
<1>26. CASE UNCHANGED vars
  BY <1>26, VersionsNotNull
     DEF vars, database, process, TypeOK, LocationInv, Migrating, Awaits, Types,
     Locations
<1> QED  BY <1>1, <1>2, <1>3, <1>4, <1>5, <1>6, <1>7, <1>8, <1>9, <1>10,
            <1>11, <1>12, <1>13, <1>14, <1>15, <1>16, <1>17, <1>18, <1>19,
            <1>20, <1>21, <1>22, <1>23, <1>24, <1>25, <1>26
            DEF Next, Migrate, Environment

\* Without the wait, no step leaves a committed body to be replayed.
LEMMA ReplayStep ==
  ASSUME TypeOK, LocationInv, ReplayInv, [Next]_vars
  PROVE  ReplayInv'
<1>1. ASSUME NEW m \in Migrators, StartMigrate(m)
      PROVE  ReplayInv'
  BY <1>1
     DEF StartMigrate, Goto, database, process, TypeOK, LocationInv, ReplayInv,
     Migrating, Awaits
<1>2. ASSUME NEW m \in Migrators, LockOverFailure(m)
      PROVE  ReplayInv'
  BY <1>2
     DEF LockOverFailure, Goto, database, process, TypeOK, LocationInv,
     ReplayInv, Migrating, Awaits
<1>3. ASSUME NEW m \in Migrators, LockPending(m)
      PROVE  ReplayInv'
  BY <1>3
     DEF LockPending, Goto, database, process, TypeOK, LocationInv, ReplayInv,
     Migrating, Awaits
<1>4. ASSUME NEW m \in Migrators, LockIdle(m)
      PROVE  ReplayInv'
  BY <1>4
     DEF LockIdle, Goto, database, process, TypeOK, LocationInv, ReplayInv,
     Migrating, Awaits
<1>5. ASSUME NEW m \in Migrators, RunBody(m)
      PROVE  ReplayInv'
  BY <1>5
     DEF RunBody, Goto, database, process, TypeOK, LocationInv, ReplayInv,
     Migrating, Awaits
<1>6. ASSUME NEW m \in Migrators, FailBody(m)
      PROVE  ReplayInv'
  BY <1>6
     DEF FailBody, Throw, database, process, TypeOK, LocationInv, ReplayInv,
     Migrating, Awaits
<1>7. ASSUME NEW m \in Migrators, WaitCommit(m)
      PROVE  ReplayInv'
  BY <1>7
     DEF WaitCommit, Goto, CommitBody, database, process, TypeOK, LocationInv,
     ReplayInv, Migrating, Awaits
<1>8. ASSUME NEW m \in Migrators, WaitCommitFails(m)
      PROVE  ReplayInv'
  BY <1>8
     DEF WaitCommitFails, Throw, CommitFails, CommitBody, database, process,
     TypeOK, LocationInv, ReplayInv, Migrating, Awaits
<1>9. ASSUME NEW m \in Migrators, AwaitJob(m)
      PROVE  ReplayInv'
  BY <1>9
     DEF AwaitJob, Goto, database, process, TypeOK, LocationInv, ReplayInv,
     Migrating, Awaits
<1>10. ASSUME NEW m \in Migrators, RestoreAutoCommit(m)
      PROVE  ReplayInv'
  BY <1>10
     DEF RestoreAutoCommit, Goto, Throw, database, process, TypeOK, LocationInv,
     ReplayInv, Migrating, Awaits
<1>11. ASSUME NEW m \in Migrators, RestoreFails(m)
      PROVE  ReplayInv'
  BY <1>11
     DEF RestoreFails, Throw, database, process, TypeOK, LocationInv, ReplayInv,
     Migrating, Awaits
<1>12. ASSUME NEW m \in Migrators, ReadRank(m)
      PROVE  ReplayInv'
  BY <1>12
     DEF ReadRank, Goto, database, process, TypeOK, LocationInv, ReplayInv,
     Migrating, Awaits
<1>13. ASSUME NEW m \in Migrators, InsertRow(m)
      PROVE  ReplayInv'
  BY <1>13
     DEF InsertRow, Goto, database, process, TypeOK, LocationInv, ReplayInv,
     Migrating, Awaits
<1>14. ASSUME NEW m \in Migrators, InsertFails(m)
      PROVE  ReplayInv'
  BY <1>14
     DEF InsertFails, Throw, database, process, TypeOK, LocationInv, ReplayInv,
     Migrating, Awaits
<1>15. ASSUME NEW m \in Migrators, Commit(m)
      PROVE  ReplayInv'
  BY <1>15
     DEF Commit, Goto, CommitBody, database, process, TypeOK, LocationInv,
     ReplayInv, Migrating, Awaits
<1>16. ASSUME NEW m \in Migrators, CommitRaises(m)
      PROVE  ReplayInv'
  <2> SUFFICES ASSUME ~AwaitAsync
               PROVE  ReplayInv'
    BY DEF ReplayInv
  <2>1. PICK e \in Errors : CommitFails(m, e) /\ Throw(m, e)
    BY <1>16 DEF CommitRaises, Awaits
  <2>2. CASE UNCHANGED <<applied, index, committed>>
    BY <1>16, <2>1, <2>2 DEF CommitRaises, Throw, TypeOK, ReplayInv
  <2>3. CASE e = "other"
    <3>1. pc' = [pc EXCEPT ![m] = "giveup"]
      BY <2>1, <2>3 DEF Throw, Retries
    <3>2. \A p \in Migrators : p # m => committed'[p] = committed[p]
      BY <2>1 DEF CommitFails, CommitBody, TypeOK
    <3> QED  BY <3>1, <3>2 DEF TypeOK, ReplayInv
  <2> QED  BY <2>1, <2>2, <2>3 DEF CommitFails
<1>17. ASSUME NEW m \in Migrators, Backoff(m)
      PROVE  ReplayInv'
  BY <1>17
     DEF Backoff, Goto, database, process, TypeOK, LocationInv, ReplayInv,
     Migrating, Awaits
<1>18. ASSUME NEW m \in Migrators, BackoffInterrupted(m)
      PROVE  ReplayInv'
  BY <1>18
     DEF BackoffInterrupted, Goto, database, process, TypeOK, LocationInv,
     ReplayInv, Migrating, Awaits
<1>19. ASSUME NEW m \in Migrators, GiveUp(m)
      PROVE  ReplayInv'
  BY <1>19
     DEF GiveUp, Goto, Forget, database, process, TypeOK, LocationInv,
     ReplayInv, Migrating, Awaits
<1>20. ASSUME NEW m \in Migrators, Reconcile(m)
      PROVE  ReplayInv'
  BY <1>20
     DEF Reconcile, AfterLock, Goto, Forget, database, process, TypeOK,
     LocationInv, ReplayInv, Migrating, Awaits
<1>21. ASSUME NEW m \in Migrators, ReconcileFails(m)
      PROVE  ReplayInv'
  BY <1>21
     DEF ReconcileFails, AfterLock, Goto, Forget, database, process, TypeOK,
     LocationInv, ReplayInv, Migrating, Awaits
<1>22. ASSUME NEW m \in Migrators, Crash(m)
      PROVE  ReplayInv'
  BY <1>22
     DEF Crash, Goto, Forget, database, process, TypeOK, LocationInv, ReplayInv,
     Migrating, Awaits
<1>23. ASSUME NEW v \in Versions, IndexBuilt(v) \/ DropInvalidIndex(v)
      PROVE  ReplayInv'
  BY <1>23
     DEF IndexBuilt, DropInvalidIndex, process, TypeOK, LocationInv, ReplayInv,
     Migrating, Awaits
<1>24. ASSUME NEW v \in Versions, RepairDeleted(v)
      PROVE  ReplayInv'
  BY <1>24
     DEF RepairDeleted, process, TypeOK, LocationInv, ReplayInv, Migrating,
     Awaits
<1>25. CASE RepairFailed
  BY <1>25
     DEF RepairFailed, process, TypeOK, LocationInv, ReplayInv, Migrating,
     Awaits
<1>26. CASE UNCHANGED vars
  BY <1>26
     DEF vars, database, process, TypeOK, LocationInv, ReplayInv, Migrating,
     Awaits
<1> QED  BY <1>1, <1>2, <1>3, <1>4, <1>5, <1>6, <1>7, <1>8, <1>9, <1>10,
            <1>11, <1>12, <1>13, <1>14, <1>15, <1>16, <1>17, <1>18, <1>19,
            <1>20, <1>21, <1>22, <1>23, <1>24, <1>25, <1>26
            DEF Next, Migrate, Environment

\* No step goes on to record a migration on an auto-commit connection.
LEMMA RollbackStep ==
  ASSUME TypeOK, RollbackNeverDefeated, [Next]_vars
  PROVE  RollbackNeverDefeated'
<1>1. ASSUME NEW m \in Migrators, StartMigrate(m)
      PROVE  RollbackNeverDefeated'
  BY <1>1 DEF StartMigrate, Goto, database, process, TypeOK, RollbackNeverDefeated
<1>2. ASSUME NEW m \in Migrators, LockOverFailure(m)
      PROVE  RollbackNeverDefeated'
  BY <1>2
     DEF LockOverFailure, Goto, database, process, TypeOK, RollbackNeverDefeated
<1>3. ASSUME NEW m \in Migrators, LockPending(m)
      PROVE  RollbackNeverDefeated'
  BY <1>3 DEF LockPending, Goto, database, process, TypeOK, RollbackNeverDefeated
<1>4. ASSUME NEW m \in Migrators, LockIdle(m)
      PROVE  RollbackNeverDefeated'
  BY <1>4 DEF LockIdle, Goto, database, process, TypeOK, RollbackNeverDefeated
<1>5. ASSUME NEW m \in Migrators, RunBody(m)
      PROVE  RollbackNeverDefeated'
  BY <1>5 DEF RunBody, Goto, database, process, TypeOK, RollbackNeverDefeated
<1>6. ASSUME NEW m \in Migrators, FailBody(m)
      PROVE  RollbackNeverDefeated'
  BY <1>6 DEF FailBody, Throw, database, process, TypeOK, RollbackNeverDefeated
<1>7. ASSUME NEW m \in Migrators, WaitCommit(m)
      PROVE  RollbackNeverDefeated'
  BY <1>7
     DEF WaitCommit, Goto, CommitBody, database, process, TypeOK,
     RollbackNeverDefeated
<1>8. ASSUME NEW m \in Migrators, WaitCommitFails(m)
      PROVE  RollbackNeverDefeated'
  BY <1>8
     DEF WaitCommitFails, Throw, CommitFails, CommitBody, database, process,
     TypeOK, RollbackNeverDefeated
<1>9. ASSUME NEW m \in Migrators, AwaitJob(m)
      PROVE  RollbackNeverDefeated'
  BY <1>9 DEF AwaitJob, Goto, database, process, TypeOK, RollbackNeverDefeated
<1>10. ASSUME NEW m \in Migrators, RestoreAutoCommit(m)
      PROVE  RollbackNeverDefeated'
  BY <1>10
     DEF RestoreAutoCommit, Goto, Throw, database, process, TypeOK,
     RollbackNeverDefeated
<1>11. ASSUME NEW m \in Migrators, RestoreFails(m)
      PROVE  RollbackNeverDefeated'
  BY <1>11 DEF RestoreFails, Throw, database, process, TypeOK, RollbackNeverDefeated
<1>12. ASSUME NEW m \in Migrators, ReadRank(m)
      PROVE  RollbackNeverDefeated'
  BY <1>12 DEF ReadRank, Goto, database, process, TypeOK, RollbackNeverDefeated
<1>13. ASSUME NEW m \in Migrators, InsertRow(m)
      PROVE  RollbackNeverDefeated'
  BY <1>13 DEF InsertRow, Goto, database, process, TypeOK, RollbackNeverDefeated
<1>14. ASSUME NEW m \in Migrators, InsertFails(m)
      PROVE  RollbackNeverDefeated'
  BY <1>14 DEF InsertFails, Throw, database, process, TypeOK, RollbackNeverDefeated
<1>15. ASSUME NEW m \in Migrators, Commit(m)
      PROVE  RollbackNeverDefeated'
  BY <1>15
     DEF Commit, Goto, CommitBody, database, process, TypeOK,
     RollbackNeverDefeated
<1>16. ASSUME NEW m \in Migrators, CommitRaises(m)
      PROVE  RollbackNeverDefeated'
  BY <1>16
     DEF CommitRaises, Throw, CommitFails, CommitBody, database, process,
     TypeOK, RollbackNeverDefeated
<1>17. ASSUME NEW m \in Migrators, Backoff(m)
      PROVE  RollbackNeverDefeated'
  BY <1>17 DEF Backoff, Goto, database, process, TypeOK, RollbackNeverDefeated
<1>18. ASSUME NEW m \in Migrators, BackoffInterrupted(m)
      PROVE  RollbackNeverDefeated'
  BY <1>18
     DEF BackoffInterrupted, Goto, database, process, TypeOK,
     RollbackNeverDefeated
<1>19. ASSUME NEW m \in Migrators, GiveUp(m)
      PROVE  RollbackNeverDefeated'
  BY <1>19
     DEF GiveUp, Goto, Forget, database, process, TypeOK, RollbackNeverDefeated
<1>20. ASSUME NEW m \in Migrators, Reconcile(m)
      PROVE  RollbackNeverDefeated'
  BY <1>20
     DEF Reconcile, AfterLock, Goto, Forget, database, process, TypeOK,
     RollbackNeverDefeated
<1>21. ASSUME NEW m \in Migrators, ReconcileFails(m)
      PROVE  RollbackNeverDefeated'
  BY <1>21
     DEF ReconcileFails, AfterLock, Goto, Forget, database, process, TypeOK,
     RollbackNeverDefeated
<1>22. ASSUME NEW m \in Migrators, Crash(m)
      PROVE  RollbackNeverDefeated'
  BY <1>22 DEF Crash, Goto, Forget, database, process, TypeOK, RollbackNeverDefeated
<1>23. ASSUME NEW v \in Versions, IndexBuilt(v) \/ DropInvalidIndex(v)
      PROVE  RollbackNeverDefeated'
  BY <1>23 DEF IndexBuilt, DropInvalidIndex, process, TypeOK, RollbackNeverDefeated
<1>24. ASSUME NEW v \in Versions, RepairDeleted(v)
      PROVE  RollbackNeverDefeated'
  BY <1>24 DEF RepairDeleted, process, TypeOK, RollbackNeverDefeated
<1>25. CASE RepairFailed
  BY <1>25 DEF RepairFailed, process, TypeOK, RollbackNeverDefeated
<1>26. CASE UNCHANGED vars
  BY <1>26 DEF vars, database, process, TypeOK, RollbackNeverDefeated
<1> QED  BY <1>1, <1>2, <1>3, <1>4, <1>5, <1>6, <1>7, <1>8, <1>9, <1>10,
            <1>11, <1>12, <1>13, <1>14, <1>15, <1>16, <1>17, <1>18, <1>19,
            <1>20, <1>21, <1>22, <1>23, <1>24, <1>25, <1>26
            DEF Next, Migrate, Environment

------------------------------------------------------------------------------
(* Which actions change what.                                              *)

\* The actions that write the schema history.
LEMMA HistoryWriters ==
  ASSUME [Next]_vars
  PROVE  \/ UNCHANGED history
         \/ \E m \in Migrators :
              StartMigrate(m) \/ InsertRow(m) \/ GiveUp(m) \/ Reconcile(m)
         \/ \E v \in Versions : RepairDeleted(v)
         \/ RepairFailed
<1>1. CASE UNCHANGED vars
  BY <1>1 DEF vars, database
<1>2. ASSUME NEW m \in Migrators, Migrate(m)
      PROVE  \/ UNCHANGED history
             \/ StartMigrate(m) \/ InsertRow(m) \/ GiveUp(m) \/ Reconcile(m)
  BY <1>2 DEF Migrate, database, LockOverFailure, LockPending, LockIdle, RunBody,
     FailBody, WaitCommit, WaitCommitFails, AwaitJob, RestoreAutoCommit,
     RestoreFails, ReadRank, InsertFails, Commit, CommitRaises, Backoff,
     BackoffInterrupted, ReconcileFails
<1>3. CASE Environment
  BY <1>3 DEF Environment, Crash, IndexBuilt, DropInvalidIndex, database
<1> QED  BY <1>1, <1>2, <1>3 DEF Next

\* Transactions take effect only by commits without a conflict of open transactions
\* that did something.
Takes(m) == Open(m) /\ ~Conflicts(m) /\ seen[m] # Skipped /\ CommitBody(m)

LEMMA Committers ==
  ASSUME [Next]_vars
  PROVE  \/ UNCHANGED <<applied, index>>
         \/ \E m \in Migrators : Takes(m)
         \/ \E v \in Versions : IndexBuilt(v) \/ DropInvalidIndex(v)
<1>1. CASE UNCHANGED vars
  BY <1>1 DEF vars, database
<1>2. ASSUME NEW m \in Migrators, Migrate(m)
      PROVE  UNCHANGED <<applied, index>> \/ Takes(m)
  <2>1. CASE WaitCommit(m) \/ WaitCommitFails(m) \/ Commit(m) \/ CommitRaises(m)
    <3>1. \/ UNCHANGED <<applied, index>>
          \/ Open(m) /\ ~Conflicts(m) /\ CommitBody(m)
      BY <2>1 DEF WaitCommit, WaitCommitFails, Commit, CommitRaises, CommitFails, Open
    <3> QED  BY <3>1 DEF CommitBody, Takes
  <2> QED  BY <1>2, <2>1 DEF Migrate, database, StartMigrate, LockOverFailure,
           LockPending, LockIdle, RunBody, FailBody, AwaitJob, RestoreAutoCommit,
           RestoreFails, ReadRank, InsertRow, InsertFails, Backoff,
           BackoffInterrupted, GiveUp, Reconcile, ReconcileFails
<1>3. CASE Environment
  BY <1>3 DEF Environment, Crash, RepairDeleted, RepairFailed, database
<1> QED  BY <1>1, <1>2, <1>3 DEF Next

\* An index is accepted by the wait of a statement that was let pass.
LEMMA Accepters ==
  ASSUME [Next]_vars
  PROVE  \/ UNCHANGED accepted
         \/ \E m \in Migrators : /\ pc[m] = "await" /\ seen[m] = Skipped
                                 /\ accepted' = accepted \cup {ver[m]}
<1>1. CASE UNCHANGED vars
  BY <1>1 DEF vars, database
<1>2. ASSUME NEW m \in Migrators, Migrate(m)
      PROVE  \/ UNCHANGED accepted
             \/ /\ pc[m] = "await" /\ seen[m] = Skipped
                /\ accepted' = accepted \cup {ver[m]}
  BY <1>2 DEF Migrate, database, StartMigrate, LockOverFailure, LockPending,
     LockIdle, RunBody, FailBody, WaitCommit, WaitCommitFails, AwaitJob,
     RestoreAutoCommit, RestoreFails, ReadRank, InsertRow, InsertFails, Commit,
     CommitRaises, Backoff, BackoffInterrupted, GiveUp, Reconcile, ReconcileFails
<1>3. CASE Environment
  BY <1>3 DEF Environment, Crash, IndexBuilt, DropInvalidIndex, RepairDeleted,
     RepairFailed, database
<1> QED  BY <1>1, <1>2, <1>3 DEF Next

\* What a step does to the snapshot of a process: the body takes it, the end of the
\* migration forgets it, and no other step opens a transaction.
LEMMA Snapshots ==
  ASSUME TypeOK, LocationInv, [Next]_vars, NEW m \in Migrators
  PROVE  \/ RunBody(m)
         \/ pc[m] = "group" /\ pc'[m] = "body" /\ seen'[m] = seen[m]
         \/ pc'[m] \in {"idle", "group"} /\ seen'[m] = 0
         \/ seen'[m] = seen[m] /\ ver'[m] = ver[m] /\ (Open(m)' => Open(m))
<1> DEFINE Goal == \/ RunBody(m)
                   \/ pc[m] = "group" /\ pc'[m] = "body" /\ seen'[m] = seen[m]
                   \/ pc'[m] \in {"idle", "group"} /\ seen'[m] = 0
                   \/ seen'[m] = seen[m] /\ ver'[m] = ver[m] /\ (Open(m)' => Open(m))
<1>1. ASSUME pc'[m] = pc[m], seen'[m] = seen[m], ver'[m] = ver[m]
      PROVE  Goal
  BY <1>1 DEF Open, Awaits
<1>2. ASSUME NEW p \in Migrators \ {m}, Migrate(p) \/ Crash(p)
      PROVE  Goal
  <2>1. pc'[m] = pc[m] /\ seen'[m] = seen[m] /\ ver'[m] = ver[m]
    BY <1>2 DEF Migrate, StartMigrate, LockOverFailure, LockPending, LockIdle,
       RunBody, FailBody, WaitCommit, WaitCommitFails, AwaitJob, RestoreAutoCommit,
       RestoreFails, ReadRank, InsertRow, InsertFails, Commit, CommitRaises,
       Backoff, BackoffInterrupted, GiveUp, Reconcile, ReconcileFails, AfterLock,
       Crash, Goto, Throw, Forget, TypeOK
  <2> QED  BY <1>1, <2>1
<1>3. CASE StartMigrate(m) \/ LockOverFailure(m) \/ LockIdle(m) \/ LockPending(m)
  BY <1>3 DEF StartMigrate, LockOverFailure, LockIdle, LockPending, Goto, TypeOK, Open
<1>4. CASE \/ FailBody(m) \/ WaitCommitFails(m) \/ RestoreFails(m) \/ InsertFails(m)
           \/ CommitRaises(m)
  BY <1>4 DEF FailBody, WaitCommitFails, RestoreFails, InsertFails, CommitRaises,
     Throw, TypeOK, Open
<1>5. CASE \/ WaitCommit(m) \/ AwaitJob(m) \/ Commit(m) \/ Backoff(m)
           \/ BackoffInterrupted(m)
  BY <1>5 DEF WaitCommit, AwaitJob, Commit, Backoff, BackoffInterrupted, Goto,
     TypeOK, Open
<1>6. CASE RestoreAutoCommit(m)
  BY <1>6 DEF RestoreAutoCommit, Throw, Goto, TypeOK, LocationInv, Open, Awaits
<1>7. CASE ReadRank(m) \/ InsertRow(m)
  BY <1>7 DEF ReadRank, InsertRow, Goto, TypeOK, Open, Awaits
<1>8. CASE GiveUp(m) \/ Reconcile(m) \/ ReconcileFails(m) \/ Crash(m)
  BY <1>8 DEF GiveUp, Reconcile, ReconcileFails, Crash, AfterLock, Forget, Goto, TypeOK
<1>9. ASSUME UNCHANGED <<pc, seen, ver>>
      PROVE  Goal
  BY <1>1, <1>9
<1>10. CASE Environment /\ ~\E p \in Migrators : Crash(p)
  BY <1>9, <1>10 DEF Environment, IndexBuilt, DropInvalidIndex, RepairDeleted,
     RepairFailed, process
<1>11. CASE UNCHANGED vars
  BY <1>9, <1>11 DEF vars, process
<1> QED  BY <1>2, <1>3, <1>4, <1>5, <1>6, <1>7, <1>8, <1>10, <1>11
         DEF Next, Migrate, Environment

\* A version is reported when lock returns.
LEMMA Reporters ==
  ASSUME [Next]_vars
  PROVE  \/ UNCHANGED reported
         \/ \E m \in Migrators :
              /\ pc[m] = "reconcile"
              /\ reported' = reported \cup ({ver[m]} \ {NoVersion})
<1>1. CASE UNCHANGED vars
  BY <1>1 DEF vars, process
<1>2. ASSUME NEW m \in Migrators, Migrate(m)
      PROVE  \/ UNCHANGED reported
             \/ /\ pc[m] = "reconcile"
                /\ reported' = reported \cup ({ver[m]} \ {NoVersion})
  BY <1>2 DEF Migrate, StartMigrate, LockOverFailure, LockPending, LockIdle,
     RunBody, FailBody, WaitCommit, WaitCommitFails, AwaitJob, RestoreAutoCommit,
     RestoreFails, ReadRank, InsertRow, InsertFails, Commit, CommitRaises,
     Backoff, BackoffInterrupted, GiveUp, Reconcile, ReconcileFails, AfterLock
<1>3. CASE Environment
  BY <1>3 DEF Environment, Crash, IndexBuilt, DropInvalidIndex, RepairDeleted,
     RepairFailed, process
<1> QED  BY <1>1, <1>2, <1>3 DEF Next

------------------------------------------------------------------------------
(* The schema history.                                                     *)

\* Adding a row whose rank is free keeps installed_rank a key.
LEMMA FreeRank ==
  ASSUME KeyInv, NEW row, history' = history \cup {row}, ~RankTaken(row.rank),
         row.type = "SQL" => row.version \in Versions
  PROVE  KeyInv'
BY DEF KeyInv, RankTaken

\* The next rank is free.
LEMMA NextRankFree ==
  ASSUME TypeOK, NEW n \in Ranks, NextRank(n)
  PROVE  ~RankTaken(n)
<1>1. \A r \in history : r.rank \in Nat /\ r.rank < n
  BY MigrateAssumption DEF TypeOK, Row, Ranks, NextRank
<1> QED  BY <1>1 DEF RankTaken

\* Every step keeps installed_rank a key.
LEMMA KeyStep ==
  ASSUME TypeOK, LocationInv, KeyInv, [Next]_vars
  PROVE  KeyInv'
<1>1. CASE UNCHANGED history
  BY <1>1 DEF KeyInv
<1>2. ASSUME NEW m \in Migrators, StartMigrate(m)
      PROVE  KeyInv'
  <2>1. CASE history = {}
    BY <1>2, <2>1 DEF StartMigrate, KeyInv
  <2>2. CASE history # {}
    BY <1>2, <2>2 DEF StartMigrate, KeyInv
  <2> QED  BY <2>1, <2>2
<1>3. ASSUME NEW m \in Migrators, InsertRow(m)
      PROVE  KeyInv'
  <2> DEFINE row ==
        [rank |-> rank[m], version |-> ver[m], type |-> "SQL", success |-> TRUE]
  <2>1. history' = history \cup {row} /\ ~RankTaken(row.rank)
    BY <1>3 DEF InsertRow
  <2>2. row.version \in Versions
    BY <1>3 DEF InsertRow, LocationInv, Migrating
  <2> QED  BY <2>1, <2>2, FreeRank
<1>4. ASSUME NEW m \in Migrators, GiveUp(m)
      PROVE  KeyInv'
  <2>1. CASE UNCHANGED history
    BY <2>1 DEF KeyInv
  <2>2. ASSUME NEW n \in Ranks, NextRank(n),
               history' = history \cup {[rank |-> n, version |-> ver[m],
                                         type |-> "SQL", success |-> FALSE]}
        PROVE  KeyInv'
    <3> DEFINE row ==
          [rank |-> n, version |-> ver[m], type |-> "SQL", success |-> FALSE]
    <3>1. ~RankTaken(row.rank)
      BY <2>2, NextRankFree
    <3>2. row.version \in Versions
      BY <1>4 DEF GiveUp, LocationInv, Migrating
    <3> QED  BY <2>2, <3>1, <3>2, FreeRank
  <2> QED  BY <1>4, <2>1, <2>2 DEF GiveUp
<1>5. ASSUME NEW m \in Migrators, Reconcile(m)
      PROVE  KeyInv'
  BY <1>5, ReconcileShrinks DEF Reconcile, KeyInv
<1>6. ASSUME NEW v \in Versions, RepairDeleted(v)
      PROVE  KeyInv'
  <2>1. PICK n \in Ranks :
          /\ NextRank(n)
          /\ history' = history \cup {[rank |-> n, version |-> v,
                                       type |-> "DELETE", success |-> TRUE]}
    BY <1>6 DEF RepairDeleted
  <2> DEFINE row == [rank |-> n, version |-> v, type |-> "DELETE", success |-> TRUE]
  <2>2. ~RankTaken(row.rank)
    BY <2>1, NextRankFree
  <2> QED  BY <2>1, <2>2, FreeRank
<1>7. CASE RepairFailed
  BY <1>7 DEF RepairFailed, KeyInv
<1> QED  BY <1>1, <1>2, <1>3, <1>4, <1>5, <1>6, <1>7, HistoryWriters

\* No step takes a success record away.
LEMMA RecordsStay ==
  ASSUME TypeOK, NEW w, NEW t, Successes(history, w, t) # {}, [Next]_vars
  PROVE  Successes(history', w, t) # {}
<1>1. CASE UNCHANGED history
  BY <1>1
<1>2. ASSUME NEW m \in Migrators, StartMigrate(m)
      PROVE  Successes(history', w, t) # {}
  BY <1>2 DEF StartMigrate, Successes
<1>3. ASSUME NEW m \in Migrators, InsertRow(m)
      PROVE  Successes(history', w, t) # {}
  BY <1>3 DEF InsertRow, Successes
<1>4. ASSUME NEW m \in Migrators, GiveUp(m)
      PROVE  Successes(history', w, t) # {}
  BY <1>4 DEF GiveUp, Successes
<1>5. ASSUME NEW m \in Migrators, Reconcile(m)
      PROVE  Successes(history', w, t) # {}
  BY <1>5, ReconcileKeepsRecords DEF Reconcile, TypeOK
<1>6. ASSUME NEW v \in Versions, RepairDeleted(v)
      PROVE  Successes(history', w, t) # {}
  BY <1>6 DEF RepairDeleted, Successes
<1>7. CASE RepairFailed
  BY <1>7 DEF RepairFailed, Successes, Failed
<1> QED  BY <1>1, <1>2, <1>3, <1>4, <1>5, <1>6, <1>7, HistoryWriters

------------------------------------------------------------------------------
(* Transactions and indexes.                                               *)

\* A commit applies its version, and takes no other back.
LEMMA CommitBodyApplied ==
  ASSUME TypeOK, NEW m \in Migrators, ver[m] \in Versions, seen[m] # Skipped, CommitBody(m)
  PROVE  /\ \A v \in Versions : applied[v] > 0 => applied'[v] > 0
         /\ applied'[ver[m]] > 0
<1>1. \A v \in Versions : applied[v] \in Nat
  BY DEF TypeOK
<1> QED  BY <1>1 DEF TypeOK, CommitBody

\* What has been applied stays applied.
LEMMA AppliedPositive ==
  ASSUME TypeOK, LocationInv, NEW v \in Versions, applied[v] > 0, [Next]_vars
  PROVE  applied'[v] > 0
<1>1. CASE UNCHANGED <<applied, index>>
  BY <1>1
<1>2. ASSUME NEW m \in Migrators, Takes(m)
      PROVE  applied'[v] > 0
  <2>1. ver[m] \in Versions /\ seen[m] # Skipped /\ CommitBody(m)
    BY <1>2 DEF Takes, Open, LocationInv, Migrating
  <2> QED  BY <2>1, CommitBodyApplied DEF TypeOK
<1>3. ASSUME NEW u \in Versions, IndexBuilt(u) \/ DropInvalidIndex(u)
      PROVE  applied'[v] > 0
  BY <1>3 DEF IndexBuilt, DropInvalidIndex
<1> QED  BY <1>1, <1>2, <1>3, Committers

\* After a commit too, a version with an index has been applied.
LEMMA CommitBodySnapshot ==
  ASSUME TypeOK, IndexApplied, NEW m \in Migrators, ver[m] \in Versions,
         seen[m] # Skipped, CommitBody(m)
  PROVE  IndexApplied'
<1> SUFFICES ASSUME NEW v \in IndexVersions, index'[v] # "none"
             PROVE  applied'[v] > 0
  BY DEF IndexApplied
<1>1. CASE v = ver[m]
  BY <1>1, CommitBodyApplied
<1>2. CASE v # ver[m]
  <2>1. v \in Versions
    BY IndexVersionsNotNull
  <2>2. index'[v] = index[v] /\ applied'[v] = applied[v]
    BY <1>2, <2>1 DEF CommitBody, TypeOK
  <2> QED  BY <2>2 DEF IndexApplied
<1> QED  BY <1>1, <1>2

\* Every step keeps that an index comes from a committed body.
LEMMA IndexAppliedStep ==
  ASSUME TypeOK, LocationInv, IndexApplied, [Next]_vars
  PROVE  IndexApplied'
<1>1. CASE UNCHANGED <<applied, index>>
  BY <1>1 DEF IndexApplied
<1>2. ASSUME NEW m \in Migrators, Takes(m)
      PROVE  IndexApplied'
  <2>1. ver[m] \in Versions /\ seen[m] # Skipped /\ CommitBody(m)
    BY <1>2 DEF Takes, Open, LocationInv, Migrating
  <2> QED  BY <2>1, CommitBodySnapshot
<1>3. ASSUME NEW u \in Versions, IndexBuilt(u) \/ DropInvalidIndex(u)
      PROVE  IndexApplied'
  BY <1>3, IndexVersionsNotNull DEF IndexBuilt, DropInvalidIndex, IndexApplied, TypeOK
<1> QED  BY <1>1, <1>2, <1>3, Committers

\* Every step keeps that an open transaction that creates an index saw none.
LEMMA SeenStep ==
  ASSUME TypeOK, LocationInv, SeenNothing, [Next]_vars
  PROVE  SeenNothing'
<1> SUFFICES ASSUME NEW m \in Migrators,
                    Open(m)', seen'[m] # Skipped, ver'[m] \in IndexVersions
             PROVE  /\ seen'[m] <= applied'[ver'[m]]
                    /\ seen'[m] = applied'[ver'[m]] => index'[ver'[m]] = "none"
  BY DEF SeenNothing
<1>1. CASE RunBody(m)
  <2>1. ver'[m] = ver[m] /\ ver[m] \in Versions /\ applied' = applied /\ index' = index
    BY <1>1, IndexVersionsNotNull DEF RunBody, database
  <2>2. seen'[m] = applied[ver[m]] /\ ~AlreadyApplied(m)
    BY <1>1 DEF RunBody, TypeOK
  <2>3. ver[m] \in DdlVersions /\ index[ver[m]] = "none"
    BY <2>1, <2>2, MigrateAssumption DEF AlreadyApplied
  <2>4. applied[ver[m]] \in Nat
    BY <2>1 DEF TypeOK
  <2> QED  BY <2>1, <2>2, <2>3, <2>4
<1>2. CASE pc'[m] \in {"body", "idle", "group"}
  BY <1>2 DEF Open
<1>3. CASE seen'[m] = seen[m] /\ ver'[m] = ver[m] /\ Open(m)
  <2> DEFINE v == ver[m]
  <2>1. /\ seen[m] <= applied[v]
        /\ seen[m] = applied[v] => index[v] = "none"
    BY <1>3 DEF SeenNothing
  <2>2. v \in Versions /\ v \in IndexVersions
    BY <1>3, IndexVersionsNotNull
  <2>3. seen[m] \in Nat /\ applied[v] \in Nat
    BY <1>3, <2>2 DEF TypeOK
  <2>4. CASE UNCHANGED <<applied, index>>
    BY <1>3, <2>1, <2>4
  <2>5. ASSUME NEW p \in Migrators, Takes(p)
        PROVE  /\ seen[m] <= applied'[v]
               /\ seen[m] = applied'[v] => index'[v] = "none"
    <3>1. \/ applied'[v] = applied[v] + 1
          \/ applied'[v] = applied[v] /\ index'[v] = index[v]
      BY <2>2, <2>5 DEF Takes, CommitBody, TypeOK
    <3> QED  BY <2>1, <2>3, <3>1
  <2>6. ASSUME NEW u \in Versions, IndexBuilt(u) \/ DropInvalidIndex(u)
        PROVE  /\ seen[m] <= applied'[v]
               /\ seen[m] = applied'[v] => index'[v] = "none"
    <3>1. applied' = applied /\ (index[v] = "none" => index'[v] = "none")
      BY <2>2, <2>6 DEF IndexBuilt, DropInvalidIndex, TypeOK
    <3> QED  BY <2>1, <3>1
  <2> QED  BY <1>3, <2>4, <2>5, <2>6, Committers
<1> QED  BY <1>1, <1>2, <1>3, Snapshots

\* Every step keeps that what was let pass was there.
LEMMA SkippedStep ==
  ASSUME TypeOK, LocationInv, SkippedApplied, IndexApplied, [Next]_vars
  PROVE  SkippedApplied'
<1>1. IfNotExists \subseteq Versions /\ Skipped # 0
  BY MigrateAssumption DEF Versions, Skipped
<1>2. ASSUME NEW m \in Migrators, seen'[m] = Skipped
      PROVE  ver'[m] \in IfNotExists /\ applied'[ver'[m]] > 0
  <2>1. CASE RunBody(m)
    <3>1. ver[m] \in Versions /\ ver' = ver /\ applied' = applied
      BY <2>1 DEF RunBody, database, LocationInv, Migrating
    <3>2. AlreadyApplied(m)
      <4>1. applied[ver[m]] # Skipped
        BY <3>1 DEF TypeOK, Skipped
      <4> QED  BY <1>2, <2>1, <4>1 DEF RunBody, TypeOK
    <3>3. ver[m] \in IfNotExists
      BY <2>1, <3>2 DEF RunBody
    <3>4. applied[ver[m]] > 0
      BY <3>2 DEF AlreadyApplied, IndexApplied
    <3> QED  BY <3>1, <3>3, <3>4
  <2>2. CASE pc[m] = "group" /\ seen'[m] = seen[m]
    <3>1. ver[m] = NoVersion /\ ver[m] \in IfNotExists
      BY <1>2, <2>2 DEF LocationInv, SkippedApplied
    <3> QED  BY <1>1, <3>1, VersionsNotNull
  <2>3. CASE seen'[m] = 0
    BY <1>1, <1>2, <2>3
  <2>4. CASE seen'[m] = seen[m] /\ ver'[m] = ver[m]
    BY <1>1, <1>2, <2>4, AppliedPositive DEF SkippedApplied
  <2> QED  BY <2>1, <2>2, <2>3, <2>4, Snapshots
<1>3. \A v \in accepted' : v \in IfNotExists /\ applied[v] > 0
  BY Accepters DEF SkippedApplied
<1>4. \A v \in accepted' : v \in IfNotExists /\ applied'[v] > 0
  BY <1>1, <1>3, AppliedPositive
<1> QED  BY <1>2, <1>4 DEF SkippedApplied

\* Every step keeps the snapshot invariant.
LEMMA SnapshotStep ==
  ASSUME TypeOK, LocationInv, SnapshotInv, [Next]_vars
  PROVE  SnapshotInv'
BY IndexAppliedStep, SeenStep, SkippedStep DEF SnapshotInv

\* A committing transaction that creates an index found none, and meanwhile none has
\* appeared, so no index of the version was valid.
LEMMA CommitBodyIndex ==
  ASSUME TypeOK, SnapshotInv, NEW m \in Migrators, ver[m] \in Versions, Takes(m),
         NEW v \in Versions, index[v] = "valid"
  PROVE  index'[v] = "valid"
<1>1. CASE v = ver[m] /\ v \in IndexVersions
  <2>1. v \in DdlVersions
    BY <1>1, MigrateAssumption
  <2>2. seen[m] = applied[v]
    BY <1>1, <2>1 DEF Takes, Conflicts
  <2> QED  BY <1>1, <2>2 DEF Takes, SnapshotInv, SeenNothing
<1>2. CASE ~(v = ver[m] /\ v \in IndexVersions)
  BY <1>2 DEF Takes, CommitBody, TypeOK
<1> QED  BY <1>1, <1>2

\* A valid index stays valid: nobody can create it again, and only an invalid one is
\* dropped.
LEMMA IndexStaysValid ==
  ASSUME TypeOK, LocationInv, SnapshotInv,
         NEW v \in Versions, index[v] = "valid", [Next]_vars
  PROVE  index'[v] = "valid"
<1>1. CASE UNCHANGED <<applied, index>>
  BY <1>1
<1>2. ASSUME NEW m \in Migrators, Takes(m)
      PROVE  index'[v] = "valid"
  <2>1. ver[m] \in Versions
    BY <1>2 DEF Takes, Open, LocationInv, Migrating
  <2> QED  BY <1>2, <2>1, CommitBodyIndex
<1>3. ASSUME NEW u \in Versions, IndexBuilt(u) \/ DropInvalidIndex(u)
      PROVE  index'[v] = "valid"
  BY <1>3 DEF IndexBuilt, DropInvalidIndex, TypeOK
<1> QED  BY <1>1, <1>2, <1>3, Committers

\* What passes for a built index goes on passing for one.
LEMMA UsableStays ==
  ASSUME TypeOK, LocationInv, SnapshotInv,
         NEW v \in Versions, index[v] = "valid" \/ v \in accepted, [Next]_vars
  PROVE  index'[v] = "valid" \/ v \in accepted'
<1>1. accepted \subseteq accepted'
  BY Accepters
<1> QED  BY <1>1, IndexStaysValid

\* Every step keeps that what is past the wait has its index.
LEMMA WaitStep ==
  ASSUME TypeOK, LocationInv, SnapshotInv, WaitInv, [Next]_vars
  PROVE  WaitInv'
<1>1. ASSUME NEW m \in Migrators, StartMigrate(m)
      PROVE  WaitInv'
  BY <1>1, UsableStays, IndexVersionsNotNull
     DEF StartMigrate, Goto, database, process, TypeOK, LocationInv, WaitInv,
     Migrating, Awaits
<1>2. ASSUME NEW m \in Migrators, LockOverFailure(m)
      PROVE  WaitInv'
  BY <1>2, UsableStays, IndexVersionsNotNull
     DEF LockOverFailure, Goto, database, process, TypeOK, LocationInv, WaitInv,
     Migrating, Awaits
<1>3. ASSUME NEW m \in Migrators, LockPending(m)
      PROVE  WaitInv'
  BY <1>3, UsableStays, IndexVersionsNotNull
     DEF LockPending, Goto, database, process, TypeOK, LocationInv, WaitInv,
     Migrating, Awaits
<1>4. ASSUME NEW m \in Migrators, LockIdle(m)
      PROVE  WaitInv'
  BY <1>4, UsableStays, IndexVersionsNotNull
     DEF LockIdle, Goto, database, process, TypeOK, LocationInv, WaitInv,
     Migrating, Awaits
<1>5. ASSUME NEW m \in Migrators, RunBody(m)
      PROVE  WaitInv'
  BY <1>5, UsableStays, IndexVersionsNotNull
     DEF RunBody, Goto, database, process, TypeOK, LocationInv, WaitInv,
     Migrating, Awaits
<1>6. ASSUME NEW m \in Migrators, FailBody(m)
      PROVE  WaitInv'
  BY <1>6, UsableStays, IndexVersionsNotNull
     DEF FailBody, Throw, database, process, TypeOK, LocationInv, WaitInv,
     Migrating, Awaits
<1>7. ASSUME NEW m \in Migrators, WaitCommit(m)
      PROVE  WaitInv'
  BY <1>7, UsableStays, IndexVersionsNotNull
     DEF WaitCommit, Goto, CommitBody, database, process, TypeOK, LocationInv,
     WaitInv, Migrating, Awaits
<1>8. ASSUME NEW m \in Migrators, WaitCommitFails(m)
      PROVE  WaitInv'
  <2>1. pc'[m] \in {"backoff", "giveup"}
    BY <1>8 DEF WaitCommitFails, Throw, TypeOK
  <2>2. /\ ver' = ver
        /\ \A p \in Migrators \ {m} : pc'[p] = pc[p] /\ error'[p] = error[p]
    BY <1>8 DEF WaitCommitFails, Throw, TypeOK
  <2> QED  BY <2>1, <2>2, UsableStays, IndexVersionsNotNull DEF WaitInv, Awaits
<1>9. ASSUME NEW m \in Migrators, AwaitJob(m)
      PROVE  WaitInv'
  BY <1>9, UsableStays, IndexVersionsNotNull
     DEF AwaitJob, Goto, database, process, TypeOK, LocationInv, WaitInv,
     Migrating, Awaits
<1>10. ASSUME NEW m \in Migrators, RestoreAutoCommit(m)
      PROVE  WaitInv'
  BY <1>10, UsableStays, IndexVersionsNotNull
     DEF RestoreAutoCommit, Goto, Throw, database, process, TypeOK, LocationInv,
     WaitInv, Migrating, Awaits
<1>11. ASSUME NEW m \in Migrators, RestoreFails(m)
      PROVE  WaitInv'
  BY <1>11, UsableStays, IndexVersionsNotNull
     DEF RestoreFails, Throw, database, process, TypeOK, LocationInv, WaitInv,
     Migrating, Awaits
<1>12. ASSUME NEW m \in Migrators, ReadRank(m)
      PROVE  WaitInv'
  BY <1>12, UsableStays, IndexVersionsNotNull
     DEF ReadRank, Goto, database, process, TypeOK, LocationInv, WaitInv,
     Migrating, Awaits
<1>13. ASSUME NEW m \in Migrators, InsertRow(m)
      PROVE  WaitInv'
  BY <1>13, UsableStays, IndexVersionsNotNull
     DEF InsertRow, Goto, database, process, TypeOK, LocationInv, WaitInv,
     Migrating, Awaits
<1>14. ASSUME NEW m \in Migrators, InsertFails(m)
      PROVE  WaitInv'
  BY <1>14, UsableStays, IndexVersionsNotNull
     DEF InsertFails, Throw, database, process, TypeOK, LocationInv, WaitInv,
     Migrating, Awaits
<1>15. ASSUME NEW m \in Migrators, Commit(m)
      PROVE  WaitInv'
  BY <1>15, UsableStays, IndexVersionsNotNull
     DEF Commit, Goto, CommitBody, database, process, TypeOK, LocationInv,
     WaitInv, Migrating, Awaits
<1>16. ASSUME NEW m \in Migrators, CommitRaises(m)
      PROVE  WaitInv'
  <2>1. pc'[m] \in {"backoff", "giveup"}
    BY <1>16 DEF CommitRaises, Throw, TypeOK
  <2>2. /\ ver' = ver
        /\ \A p \in Migrators \ {m} : pc'[p] = pc[p] /\ error'[p] = error[p]
    BY <1>16 DEF CommitRaises, Throw, TypeOK
  <2> QED  BY <2>1, <2>2, UsableStays, IndexVersionsNotNull DEF WaitInv, Awaits
<1>17. ASSUME NEW m \in Migrators, Backoff(m)
      PROVE  WaitInv'
  BY <1>17, UsableStays, IndexVersionsNotNull
     DEF Backoff, Goto, database, process, TypeOK, LocationInv, WaitInv,
     Migrating, Awaits
<1>18. ASSUME NEW m \in Migrators, BackoffInterrupted(m)
      PROVE  WaitInv'
  BY <1>18, UsableStays, IndexVersionsNotNull
     DEF BackoffInterrupted, Goto, database, process, TypeOK, LocationInv,
     WaitInv, Migrating, Awaits
<1>19. ASSUME NEW m \in Migrators, GiveUp(m)
      PROVE  WaitInv'
  BY <1>19, UsableStays, IndexVersionsNotNull
     DEF GiveUp, Goto, Forget, database, process, TypeOK, LocationInv, WaitInv,
     Migrating, Awaits
<1>20. ASSUME NEW m \in Migrators, Reconcile(m)
      PROVE  WaitInv'
  BY <1>20, UsableStays, IndexVersionsNotNull
     DEF Reconcile, AfterLock, Goto, Forget, database, process, TypeOK,
     LocationInv, WaitInv, Migrating, Awaits
<1>21. ASSUME NEW m \in Migrators, ReconcileFails(m)
      PROVE  WaitInv'
  BY <1>21, UsableStays, IndexVersionsNotNull
     DEF ReconcileFails, AfterLock, Goto, Forget, database, process, TypeOK,
     LocationInv, WaitInv, Migrating, Awaits
<1>22. ASSUME NEW m \in Migrators, Crash(m)
      PROVE  WaitInv'
  BY <1>22, UsableStays, IndexVersionsNotNull
     DEF Crash, Goto, Forget, database, process, TypeOK, LocationInv, WaitInv,
     Migrating, Awaits
<1>23. ASSUME NEW v \in Versions, IndexBuilt(v) \/ DropInvalidIndex(v)
      PROVE  WaitInv'
  BY <1>23, UsableStays, IndexVersionsNotNull
     DEF IndexBuilt, DropInvalidIndex, process, TypeOK, LocationInv, WaitInv,
     Migrating, Awaits
<1>24. ASSUME NEW v \in Versions, RepairDeleted(v)
      PROVE  WaitInv'
  BY <1>24, UsableStays, IndexVersionsNotNull
     DEF RepairDeleted, process, TypeOK, LocationInv, WaitInv, Migrating, Awaits
<1>25. CASE RepairFailed
  BY <1>25, UsableStays, IndexVersionsNotNull
     DEF RepairFailed, process, TypeOK, LocationInv, WaitInv, Migrating, Awaits
<1>26. CASE UNCHANGED vars
  BY <1>26, UsableStays, IndexVersionsNotNull
     DEF vars, database, process, TypeOK, LocationInv, WaitInv, Migrating,
     Awaits
<1> QED  BY <1>1, <1>2, <1>3, <1>4, <1>5, <1>6, <1>7, <1>8, <1>9, <1>10,
            <1>11, <1>12, <1>13, <1>14, <1>15, <1>16, <1>17, <1>18, <1>19,
            <1>20, <1>21, <1>22, <1>23, <1>24, <1>25, <1>26
            DEF Next, Migrate, Environment

------------------------------------------------------------------------------
(* What is recorded and reported.                                          *)

\* Every step keeps that what is past the insert is recorded.
LEMMA RecordStep ==
  ASSUME TypeOK, LocationInv, SnapshotInv, WaitInv, RecordInv, [Next]_vars
  PROVE  RecordInv'
<1>1. ASSUME NEW m \in Migrators, StartMigrate(m)
      PROVE  RecordInv'
  BY <1>1, RecordsStay, AppliedPositive
     DEF StartMigrate, Goto, database, process, TypeOK, LocationInv, RecordInv,
     Migrating
<1>2. ASSUME NEW m \in Migrators, LockOverFailure(m)
      PROVE  RecordInv'
  BY <1>2, RecordsStay, AppliedPositive
     DEF LockOverFailure, Goto, database, process, TypeOK, LocationInv,
     RecordInv, Migrating
<1>3. ASSUME NEW m \in Migrators, LockPending(m)
      PROVE  RecordInv'
  BY <1>3, RecordsStay, AppliedPositive
     DEF LockPending, Goto, database, process, TypeOK, LocationInv, RecordInv,
     Migrating
<1>4. ASSUME NEW m \in Migrators, LockIdle(m)
      PROVE  RecordInv'
  BY <1>4, RecordsStay, AppliedPositive
     DEF LockIdle, Goto, database, process, TypeOK, LocationInv, RecordInv,
     Migrating
<1>5. ASSUME NEW m \in Migrators, RunBody(m)
      PROVE  RecordInv'
  BY <1>5, RecordsStay, AppliedPositive
     DEF RunBody, Goto, database, process, TypeOK, LocationInv, RecordInv,
     Migrating
<1>6. ASSUME NEW m \in Migrators, FailBody(m)
      PROVE  RecordInv'
  BY <1>6, RecordsStay, AppliedPositive
     DEF FailBody, Throw, database, process, TypeOK, LocationInv, RecordInv,
     Migrating
<1>7. ASSUME NEW m \in Migrators, WaitCommit(m)
      PROVE  RecordInv'
  BY <1>7, RecordsStay, AppliedPositive
     DEF WaitCommit, Goto, CommitBody, database, process, TypeOK, LocationInv,
     RecordInv, Migrating
<1>8. ASSUME NEW m \in Migrators, WaitCommitFails(m)
      PROVE  RecordInv'
  BY <1>8, RecordsStay, AppliedPositive
     DEF WaitCommitFails, Throw, CommitFails, CommitBody, database, process,
     TypeOK, LocationInv, RecordInv, Migrating
<1>9. ASSUME NEW m \in Migrators, AwaitJob(m)
      PROVE  RecordInv'
  BY <1>9, RecordsStay, AppliedPositive
     DEF AwaitJob, Goto, database, process, TypeOK, LocationInv, RecordInv,
     Migrating
<1>10. ASSUME NEW m \in Migrators, RestoreAutoCommit(m)
      PROVE  RecordInv'
  BY <1>10, RecordsStay, AppliedPositive
     DEF RestoreAutoCommit, Goto, Throw, database, process, TypeOK, LocationInv,
     RecordInv, Migrating
<1>11. ASSUME NEW m \in Migrators, RestoreFails(m)
      PROVE  RecordInv'
  BY <1>11, RecordsStay, AppliedPositive
     DEF RestoreFails, Throw, database, process, TypeOK, LocationInv, RecordInv,
     Migrating
<1>12. ASSUME NEW m \in Migrators, ReadRank(m)
      PROVE  RecordInv'
  BY <1>12, RecordsStay, AppliedPositive
     DEF ReadRank, Goto, database, process, TypeOK, LocationInv, RecordInv,
     Migrating
<1>13. ASSUME NEW m \in Migrators, InsertRow(m)
      PROVE  RecordInv'
  <2> DEFINE row ==
        [rank |-> rank[m], version |-> ver[m], type |-> "SQL", success |-> TRUE]
  <2>1. row \in history'
    BY <1>13 DEF InsertRow
  <2>2. Successes(history', ver[m], "SQL") # {}
    BY <2>1 DEF Successes
  <2>3. /\ pc' = [pc EXCEPT ![m] = "commit"] /\ ver' = ver /\ applied' = applied
    BY <1>13 DEF InsertRow, Goto
  <2> QED  BY <2>2, <2>3, RecordsStay DEF RecordInv, TypeOK
<1>14. ASSUME NEW m \in Migrators, InsertFails(m)
      PROVE  RecordInv'
  BY <1>14, RecordsStay, AppliedPositive
     DEF InsertFails, Throw, database, process, TypeOK, LocationInv, RecordInv,
     Migrating
<1>15. ASSUME NEW m \in Migrators, Commit(m)
      PROVE  RecordInv'
  <2>1. ver[m] \in Versions
    BY <1>15 DEF Commit, LocationInv, Migrating
  <2>2. applied'[ver[m]] > 0
    <3>1. CASE Awaits(m)
      <4>1. /\ index[ver[m]] = "valid" \/ ver[m] \in accepted
            /\ ver[m] \in IndexVersions
        BY <1>15, <3>1 DEF Commit, WaitInv, Awaits
      <4> QED  BY <1>15, <3>1, <4>1
               DEF Commit, SnapshotInv, IndexApplied, SkippedApplied
    <3>2. CASE ~Awaits(m) /\ seen[m] = Skipped
      BY <1>15, <3>2 DEF Commit, CommitBody, SnapshotInv, SkippedApplied
    <3>3. CASE ~Awaits(m) /\ seen[m] # Skipped
      BY <1>15, <2>1, <3>3, CommitBodyApplied DEF Commit
    <3> QED  BY <3>1, <3>2, <3>3
  <2>3. /\ pc' = [pc EXCEPT ![m] = "reconcile"] /\ ver' = ver /\ history' = history
    BY <1>15 DEF Commit, Goto
  <2>4. \A v \in Versions : applied[v] > 0 => applied'[v] > 0
    BY AppliedPositive
  <2>5. pc[m] = "commit"
    BY <1>15 DEF Commit
  <2> QED  BY <2>1, <2>2, <2>3, <2>4, <2>5 DEF RecordInv, TypeOK
<1>16. ASSUME NEW m \in Migrators, CommitRaises(m)
      PROVE  RecordInv'
  BY <1>16, RecordsStay, AppliedPositive
     DEF CommitRaises, Throw, CommitFails, CommitBody, database, process,
     TypeOK, LocationInv, RecordInv, Migrating
<1>17. ASSUME NEW m \in Migrators, Backoff(m)
      PROVE  RecordInv'
  BY <1>17, RecordsStay, AppliedPositive
     DEF Backoff, Goto, database, process, TypeOK, LocationInv, RecordInv,
     Migrating
<1>18. ASSUME NEW m \in Migrators, BackoffInterrupted(m)
      PROVE  RecordInv'
  BY <1>18, RecordsStay, AppliedPositive
     DEF BackoffInterrupted, Goto, database, process, TypeOK, LocationInv,
     RecordInv, Migrating
<1>19. ASSUME NEW m \in Migrators, GiveUp(m)
      PROVE  RecordInv'
  BY <1>19, RecordsStay, AppliedPositive
     DEF GiveUp, Goto, Forget, database, process, TypeOK, LocationInv,
     RecordInv, Migrating
<1>20. ASSUME NEW m \in Migrators, Reconcile(m)
      PROVE  RecordInv'
  BY <1>20, RecordsStay, AppliedPositive
     DEF Reconcile, AfterLock, Goto, Forget, database, process, TypeOK,
     LocationInv, RecordInv, Migrating
<1>21. ASSUME NEW m \in Migrators, ReconcileFails(m)
      PROVE  RecordInv'
  BY <1>21, RecordsStay, AppliedPositive
     DEF ReconcileFails, AfterLock, Goto, Forget, database, process, TypeOK,
     LocationInv, RecordInv, Migrating
<1>22. ASSUME NEW m \in Migrators, Crash(m)
      PROVE  RecordInv'
  BY <1>22, RecordsStay, AppliedPositive
     DEF Crash, Goto, Forget, database, process, TypeOK, LocationInv, RecordInv,
     Migrating
<1>23. ASSUME NEW v \in Versions, IndexBuilt(v) \/ DropInvalidIndex(v)
      PROVE  RecordInv'
  BY <1>23, RecordsStay, AppliedPositive
     DEF IndexBuilt, DropInvalidIndex, process, TypeOK, LocationInv, RecordInv,
     Migrating
<1>24. ASSUME NEW v \in Versions, RepairDeleted(v)
      PROVE  RecordInv'
  BY <1>24, RecordsStay, AppliedPositive
     DEF RepairDeleted, process, TypeOK, LocationInv, RecordInv, Migrating
<1>25. CASE RepairFailed
  BY <1>25, RecordsStay, AppliedPositive
     DEF RepairFailed, process, TypeOK, LocationInv, RecordInv, Migrating
<1>26. CASE UNCHANGED vars
  BY <1>26, RecordsStay, AppliedPositive
     DEF vars, database, process, TypeOK, LocationInv, RecordInv, Migrating
<1> QED  BY <1>1, <1>2, <1>3, <1>4, <1>5, <1>6, <1>7, <1>8, <1>9, <1>10,
            <1>11, <1>12, <1>13, <1>14, <1>15, <1>16, <1>17, <1>18, <1>19,
            <1>20, <1>21, <1>22, <1>23, <1>24, <1>25, <1>26
            DEF Next, Migrate, Environment

\* Every step keeps what was reported applied and recorded.
LEMMA ReportedStep ==
  ASSUME TypeOK, LocationInv, RecordInv, ReportedVersionsStick, [Next]_vars
  PROVE  ReportedVersionsStick'
<1>1. CASE UNCHANGED reported
  BY <1>1, RecordsStay, AppliedPositive DEF TypeOK, ReportedVersionsStick
<1>2. ASSUME NEW m \in Migrators, pc[m] = "reconcile",
             reported' = reported \cup ({ver[m]} \ {NoVersion})
      PROVE  ReportedVersionsStick'
  <2>1. ver[m] # NoVersion =>
          applied[ver[m]] > 0 /\ Successes(history, ver[m], "SQL") # {}
    BY <1>2 DEF RecordInv
  <2> QED  BY <1>2, <2>1, RecordsStay, AppliedPositive
           DEF TypeOK, ReportedVersionsStick
<1> QED  BY <1>1, <1>2, Reporters

\* Every step keeps the indexes of what was reported usable.
LEMMA AwaitedStep ==
  ASSUME TypeOK, LocationInv, SnapshotInv, WaitInv, AwaitedIndexValid, [Next]_vars
  PROVE  AwaitedIndexValid'
<1>0. accepted' \subseteq IfNotExists
  BY SnapshotStep DEF SnapshotInv, SkippedApplied
<1>1. CASE UNCHANGED reported
  BY <1>0, <1>1, UsableStays, IndexVersionsNotNull DEF AwaitedIndexValid
<1>2. ASSUME NEW m \in Migrators, pc[m] = "reconcile",
             reported' = reported \cup ({ver[m]} \ {NoVersion})
      PROVE  AwaitedIndexValid'
  <2>1. AwaitAsync /\ ver[m] \in IndexVersions
          => index[ver[m]] = "valid" \/ ver[m] \in accepted
    BY <1>2 DEF WaitInv, Awaits
  <2> QED  BY <1>0, <1>2, <2>1, UsableStays, IndexVersionsNotNull
           DEF AwaitedIndexValid
<1> QED  BY <1>1, <1>2, Reporters

\* Of two success rows of one version and type, reconciliation removes one.
LEMMA ReconcileRemovesDuplicates ==
  ASSUME TypeOK, KeyInv,
         NEW r \in reconcileStatement(history), NEW s \in reconcileStatement(history),
         r.success, s.success, r.type = s.type, r.version = s.version,
         r.version # NoVersion
  PROVE  r = s
<1>1. r \in history /\ s \in history
  BY DEF reconcileStatement
<1>2. r.rank \in Nat /\ s.rank \in Nat
  BY <1>1, MigrateAssumption DEF TypeOK, Row, Ranks
<1>3. ~(r.rank < s.rank) /\ ~(s.rank < r.rank)
  BY <1>1 DEF reconcileStatement, Superseded, Successes
<1>4. r.rank = s.rank
  BY <1>2, <1>3
<1> QED  BY <1>1, <1>4 DEF KeyInv

\* Every step that ends in a quiet history leaves no duplicate in it.
LEMMA QuietStep ==
  ASSUME TypeOK, KeyInv, QuietHistoryHasNoDuplicates, [Next]_vars
  PROVE  QuietHistoryHasNoDuplicates'
<1>1. ASSUME NEW m \in Migrators, Migrate(m) \/ Crash(m), ~Reconcile(m)
      PROVE  pc'[m] # "idle" \/ outcome'[m] \notin {"none", "ok"}
  BY <1>1 DEF Migrate, StartMigrate, LockOverFailure, LockPending, LockIdle,
     RunBody, FailBody, WaitCommit, WaitCommitFails, AwaitJob, RestoreAutoCommit,
     RestoreFails, ReadRank, InsertRow, InsertFails, Commit, CommitRaises,
     Backoff, BackoffInterrupted, GiveUp, ReconcileFails, AfterLock, Crash,
     Goto, Throw, TypeOK
<1>2. ASSUME NEW m \in Migrators, Migrate(m) \/ Crash(m), ~Reconcile(m)
      PROVE  QuietHistoryHasNoDuplicates'
  BY <1>1, <1>2 DEF QuietHistoryHasNoDuplicates
<1>3. ASSUME NEW m \in Migrators, Reconcile(m)
      PROVE  QuietHistoryHasNoDuplicates'
  <2>1. history' = reconcileStatement(history)
    BY <1>3 DEF Reconcile
  <2>2. \A r \in history' : r \in history /\ (r.type = "SQL" => r.version # NoVersion)
    BY <2>1, ReconcileShrinks, VersionsNotNull DEF KeyInv
  <2> QED  BY <2>1, <2>2, ReconcileRemovesDuplicates DEF QuietHistoryHasNoDuplicates
<1>4. ASSUME NEW v \in Versions, IndexBuilt(v) \/ DropInvalidIndex(v) \/ RepairDeleted(v)
      PROVE  QuietHistoryHasNoDuplicates'
  BY <1>4 DEF IndexBuilt, DropInvalidIndex, RepairDeleted, process,
     QuietHistoryHasNoDuplicates
<1>5. CASE RepairFailed
  BY <1>5 DEF RepairFailed, process, QuietHistoryHasNoDuplicates
<1>6. CASE UNCHANGED vars
  BY <1>6 DEF vars, database, process, QuietHistoryHasNoDuplicates
<1> QED  BY <1>2, <1>3, <1>4, <1>5, <1>6 DEF Next, Environment

------------------------------------------------------------------------------
(* The schema history implements the ledger.                               *)

\* A success row of a known version and type is recorded under its key.
LEMMA RecordedIff ==
  ASSUME TypeOK, NEW k
  PROVE  k \in Recorded <=>
           \E v \in Versions \cup {NoVersion}, t \in Types :
             k = <<v, t>> /\ Successes(history, v, t) # {}
BY DEF TypeOK, Row, Recorded, Failed, Successes

\* The step of the ledger a step of the system stands for, if it is not a stutter.
LedgerStep == \/ \E k \in (Versions \cup {NoVersion}) \X Types :
                   Recorded' = Recorded \cup {k} /\ Blocked' = Blocked
              \/ \E v \in Versions :
                   Blocked' = Blocked \cup {v} /\ Recorded' = Recorded
              \/ Blocked' = {} /\ Recorded' = Recorded
              \/ Recorded' = Recorded /\ Blocked' = Blocked

\* Adding a success row records its key; adding a failed row blocks.
LEMMA AddSuccess ==
  ASSUME TypeOK, NEW row \in Row, row.success, history' = history \cup {row}
  PROVE  LedgerStep
<1>1. Recorded' = Recorded \cup {<<row.version, row.type>>}
  BY DEF Recorded, Failed
<1>2. Blocked' = Blocked
  BY DEF Blocked, Failed
<1>3. <<row.version, row.type>> \in (Versions \cup {NoVersion}) \X Types
  BY DEF Row
<1> QED  BY <1>1, <1>2, <1>3 DEF LedgerStep

LEMMA AddFailure ==
  ASSUME TypeOK, NEW row \in Row, ~row.success, row.version \in Versions,
         history' = history \cup {row}
  PROVE  LedgerStep
<1>1. Recorded' = Recorded
  BY DEF Recorded, Failed
<1>2. Blocked' = Blocked \cup {row.version}
  BY DEF Blocked, Failed
<1> QED  BY <1>1, <1>2 DEF LedgerStep

\* Every step of the system is a step of the ledger.
LEMMA LedgerStepHolds ==
  ASSUME TypeOK, LocationInv, [Next]_vars
  PROVE  LedgerStep
<1>1. CASE UNCHANGED history
  BY <1>1 DEF LedgerStep, Recorded, Blocked
<1>2. ASSUME NEW m \in Migrators, StartMigrate(m)
      PROVE  LedgerStep
  <2>1. CASE history = {}
    <3> DEFINE row ==
          [rank |-> 0, version |-> NoVersion, type |-> "SCHEMA", success |-> TRUE]
    <3>1. row \in Row /\ row.success
      BY MigrateAssumption DEF Row, Ranks, Types
    <3>2. history' = history \cup {row}
      BY <1>2, <2>1 DEF StartMigrate
    <3> QED  BY <3>1, <3>2, AddSuccess
  <2>2. CASE history # {}
    BY <1>2, <2>2 DEF StartMigrate, LedgerStep, Recorded, Blocked
  <2> QED  BY <2>1, <2>2
<1>3. ASSUME NEW m \in Migrators, InsertRow(m)
      PROVE  LedgerStep
  <2> DEFINE row ==
        [rank |-> rank[m], version |-> ver[m], type |-> "SQL", success |-> TRUE]
  <2>1. row \in Row
    BY RowType DEF TypeOK, Types
  <2>2. history' = history \cup {row} /\ row.success
    BY <1>3 DEF InsertRow
  <2> QED  BY <2>1, <2>2, AddSuccess
<1>4. ASSUME NEW m \in Migrators, GiveUp(m)
      PROVE  LedgerStep
  <2>1. CASE UNCHANGED history
    BY <2>1 DEF LedgerStep, Recorded, Blocked
  <2>2. ASSUME NEW n \in Ranks,
               history' = history \cup {[rank |-> n, version |-> ver[m],
                                         type |-> "SQL", success |-> FALSE]}
        PROVE  LedgerStep
    <3> DEFINE row ==
          [rank |-> n, version |-> ver[m], type |-> "SQL", success |-> FALSE]
    <3>1. row \in Row
      BY RowType DEF TypeOK, Types
    <3>2. ~row.success /\ history' = history \cup {row} /\ row.version \in Versions
      BY <1>4, <2>2 DEF GiveUp, LocationInv, Migrating
    <3> QED  BY <3>1, <3>2, AddFailure
  <2> QED  BY <1>4, <2>1, <2>2 DEF GiveUp
<1>5. ASSUME NEW m \in Migrators, Reconcile(m)
      PROVE  LedgerStep
  <2>1. history' = reconcileStatement(history) /\ history' \in SUBSET Row
    BY <1>5, ReconcileShrinks DEF Reconcile, TypeOK
  <2>2. ASSUME NEW v, NEW t
        PROVE  Successes(history', v, t) # {} <=> Successes(history, v, t) # {}
    <3>1. Successes(history, v, t) # {} => Successes(history', v, t) # {}
      BY <2>1, ReconcileKeepsRecords DEF TypeOK
    <3>2. history' \subseteq history
      BY <2>1, ReconcileShrinks
    <3> QED  BY <3>1, <3>2 DEF Successes
  <2>3. Recorded' = Recorded
    <3>1. ASSUME NEW k
          PROVE  k \in Recorded' <=> k \in Recorded
      <4>1. k \in Recorded' <=>
              \E v \in Versions \cup {NoVersion}, t \in Types :
                k = <<v, t>> /\ Successes(history', v, t) # {}
        BY <2>1 DEF Row, Recorded, Failed, Successes
      <4> QED  BY <2>2, <4>1, RecordedIff
    <3> QED  BY <3>1 DEF Recorded
  <2>4. Blocked' = Blocked
    BY <2>1, ReconcileKeepsFailures DEF Blocked
  <2> QED  BY <2>3, <2>4 DEF LedgerStep
<1>6. ASSUME NEW v \in Versions, RepairDeleted(v)
      PROVE  LedgerStep
  <2>1. PICK n \in Ranks :
          history' = history \cup {[rank |-> n, version |-> v,
                                    type |-> "DELETE", success |-> TRUE]}
    BY <1>6 DEF RepairDeleted
  <2> DEFINE row == [rank |-> n, version |-> v, type |-> "DELETE", success |-> TRUE]
  <2>2. row \in Row /\ row.success
    BY RowType DEF Types
  <2>3. history' = history \cup {row}
    BY <2>1
  <2> QED  BY <2>2, <2>3, AddSuccess
<1>7. CASE RepairFailed
  BY <1>7 DEF RepairFailed, LedgerStep, Recorded, Blocked, Failed
<1> QED  BY <1>1, <1>2, <1>3, <1>4, <1>5, <1>6, <1>7, HistoryWriters

------------------------------------------------------------------------------
(* The theorems.                                                           *)

\* The initial states satisfy the invariant.
LEMMA InitIInv == Init => IInv
<1> SUFFICES ASSUME Init
             PROVE  IInv
  OBVIOUS
<1>1. TypeOK
  <2>1. 0 \in Nat /\ 0 \in Ranks
    BY MigrateAssumption DEF Ranks
  <2>2. /\ history \in SUBSET Row /\ reported \in SUBSET Versions
        /\ accepted \in SUBSET Versions /\ repairs \in Nat
    BY DEF Init
  <2>3. /\ applied \in [Versions -> Nat]
        /\ index \in [Versions -> {"none", "building", "valid", "invalid"}]
    BY <2>1 DEF Init
  <2> QED  BY <2>1, <2>2, <2>3 DEF Init, TypeOK, Locations
<1>2. LocationInv /\ ReplayInv /\ KeyInv /\ SnapshotInv /\ WaitInv /\ RecordInv
  BY IndexVersionsNotNull
     DEF Init, LocationInv, ReplayInv, KeyInv, SnapshotInv, SeenNothing,
     SkippedApplied, Open, Skipped, IndexApplied, WaitInv, RecordInv, Migrating, TypeOK
<1>3. /\ RollbackNeverDefeated /\ ReportedVersionsStick /\ AwaitedIndexValid
      /\ QuietHistoryHasNoDuplicates
  BY DEF Init, RollbackNeverDefeated, ReportedVersionsStick, AwaitedIndexValid,
         QuietHistoryHasNoDuplicates
<1> QED  BY <1>1, <1>2, <1>3 DEF IInv

\* Every step keeps the invariant.
LEMMA StepIInv == IInv /\ [Next]_vars => IInv'
BY TypeStep, LocationStep, ReplayStep, KeyStep, SnapshotStep, WaitStep, RecordStep,
   RollbackStep, ReportedStep, AwaitedStep, QuietStep
   DEF IInv

\* The inductive invariant holds: types, locations, keys, snapshots and waits are
\* what the code relies on, and the safety properties are among its conjuncts.
THEOREM Invariance == Spec => []IInv
BY InitIInv, StepIInv, PTL DEF Spec

\* Every variable keeps its type, whatever the processes, DSQL and repair do.
THEOREM TypeCorrect == Spec => []TypeOK
BY Invariance, PTL DEF IInv

\* With awaitAsyncIndexes off, DSQLExecutionTemplate replays a callback only when
\* its transaction did not commit, however many processes conflict with it.
THEOREM NothingReplayed ==
  ASSUME ~AwaitAsync
  PROVE  Spec => []NothingCommittedToReplay
<1>1. IInv => NothingCommittedToReplay
  BY DEF IInv, ReplayInv, NothingCommittedToReplay
<1> QED  BY <1>1, Invariance, PTL

\* What a process reported as migrated is applied and recorded for good: no
\* process's DSQLConnection.reconcileDuplicateHistoryRows deletes the last row.
THEOREM ReportedStick == Spec => []ReportedVersionsStick
BY Invariance, PTL DEF IInv

\* The reconciliation of the last process leaves one success row per version.
THEOREM QuietNoDuplicates == Spec => []QuietHistoryHasNoDuplicates
BY Invariance, PTL DEF IInv

\* With awaitAsyncIndexes on, a reported CREATE INDEX ASYNC has a valid index, unless
\* it said IF NOT EXISTS, found an index that was not built and was told that its job
\* succeeded: reruns over an INVALID index, and drops of one, are among the steps.
THEOREM AwaitedValid == Spec => []AwaitedIndexValid
BY Invariance, PTL DEF IInv

\* A migration is never recorded on a connection that waitForJob left in
\* auto-commit mode.
THEOREM RollbackHolds == Spec => []RollbackNeverDefeated
BY Invariance, PTL DEF IInv

\* The schema history implements the ledger: retries, reconciliations, repairs
\* and crashes never take a record away.
THEOREM LedgerImplemented == Spec => LedgerSpec
<1>1. Init => Ledger!Init
  BY DEF Init, Ledger!Init, Recorded, Blocked, Failed
<1>2. IInv /\ [Next]_vars => [Ledger!Next]_(Ledger!ledgerVars)
  <2>1. IInv /\ [Next]_vars => LedgerStep
    BY LedgerStepHolds DEF IInv
  <2>2. LedgerStep => [Ledger!Next]_(Ledger!ledgerVars)
    <3> SUFFICES ASSUME LedgerStep
                 PROVE  Ledger!Next \/ UNCHANGED Ledger!ledgerVars
      OBVIOUS
    <3>1. ASSUME NEW k \in (Versions \cup {NoVersion}) \X Types,
                 Recorded' = Recorded \cup {k}, Blocked' = Blocked
          PROVE  Ledger!Next
      BY <3>1 DEF Ledger!Next, Ledger!Record
    <3>2. ASSUME NEW v \in Versions,
                 Blocked' = Blocked \cup {v}, Recorded' = Recorded
          PROVE  Ledger!Next
      BY <3>2 DEF Ledger!Next, Ledger!Block
    <3>3. CASE Blocked' = {} /\ Recorded' = Recorded
      BY <3>3 DEF Ledger!Next, Ledger!Unblock
    <3>4. CASE Recorded' = Recorded /\ Blocked' = Blocked
      BY <3>4 DEF Ledger!ledgerVars
    <3> QED  BY <3>1, <3>2, <3>3, <3>4 DEF LedgerStep
  <2> QED  BY <2>1, <2>2
<1> QED  BY <1>1, <1>2, Invariance, PTL DEF Spec, LedgerSpec, Ledger!Spec
==============================================================================
