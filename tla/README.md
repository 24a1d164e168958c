# Verification of aurora-dsql-tools

TLA+ models of the tools in this repository, the TLC runs that check them on small
instances, and theorems about them that TLAPS checks for every instance. Paths are
relative to the repository root.

## 1. The system

Aurora DSQL is a PostgreSQL-compatible database with optimistic concurrency control,
no advisory locks, one DDL statement per transaction (and no DML beside it), index
builds in the background, and a small set of accepted session parameters. Each tool
bridges one of these differences; the tools share no state and talk to DSQL only.

| Part | State it keeps | Operations | What is hard |
|---|---|---|---|
| `flyway/`: OCC retry and history (`DSQLExecutionTemplate`, `DSQLConnection`, `DSQLDatabaseType`) | the retry count of a callback; the history table and the migrated objects in DSQL | `execute`, `lock`, `reconcileDuplicateHistoryRows`, knobs per connection | processes without a lock, two connections that commit apart, commit conflicts, lost answers, crashes, replayed callbacks |
| `flyway/`: index wait (`DSQLSqlScriptExecutor`) | the auto-commit mode of the migration connection, the error in flight | `execute`, `waitForJob` | a commit in the middle of a callback, failures in the `finally` block |
| `flyway/`: clean, overrides (`DSQLSchema`, `DSQLDatabase`) | auto-commit mode during clean | `doClean`, constant answers | drop order, a failure half-way |
| `pgdump-proxy/` | per connection: two sockets, `client_lock`, `prepared_queries`, two threads | `handle`, `client_to_server`, `server_to_client`, recognition of setup statements | two writers to one socket, replies invented by the proxy, drops and closes at any point, threads blocked in `recv` or `sendall` |
| `dsql-lint/src/lint.rs`: transaction passes | the list of statements being rewritten, the block being scanned | `check_ddl_transactions`, `fix_ddl_transactions` | a loop over a list it splices, two algorithms that must agree |
| `dsql-lint/src/lint.rs`, `rules/errors.rs`: splitter, per-statement rules | none between statements | `split_statements`, `check_statement`, `lint_sql`, `fix_sql` | lint and fix must agree, a fix must not need a fix |
| `dsql-lint/src/rules/*_idiom.rs`, `constraint_collapse.rs`, `name_match.rs` | the list of statements | `check_*` / `fix_*` pairs | passes that remove and rewrite each other's statements, name matching, boundary of a sequence start |
| `dsql-lint/src/mysql.rs` | none | `fix_sql_mysql` | which constructs are kept, dropped or reported |
| `dsql-lint/src/main.rs` | the files written so far, the tally | `run_lint`, `run_fix`, `atomic_write`, rendering | several inputs and outputs that may be one file, errors half-way, exit codes |
| `dsql-lint/src/grammar/`, `bin/grammar_diff.rs` | memo table of a recogniser | test oracle | termination |
| `vscode/sqltools-driver/` | the pool promise, checked-out clients, the completions cache | `open`, `close`, `query`, `testConnection`, `getStaticCompletions` | calls that interleave at every `await`, a pool with a limit |
| npm, NuGet, PyPI wrappers; `.github/workflows` | none | start the binary; CI | not modelled |

How the parts interact:

* Flyway's core calls `DSQLConnection.lock` around each group of migrations, the
  template returned by `createTransactionalExecutionTemplate` around each migration's
  transaction, and `DSQLSqlScriptExecutor.execute` for the script inside it. The
  template and the executor work on the *migration* connection; the history rows are
  inserted and reconciled on the *main* connection, which is in auto-commit mode.
* The proxy's two threads share `client_lock`, the two sockets and nothing else; each
  wakes the other by shutting its socket down.
* `fix_statements` runs the idiom passes, the per-statement rules and
  `fix_ddl_transactions` in this order over one list; `lint_sql` runs the `check_*`
  halves of the same passes.

What makes each part correct:

* *Flyway*: what was reported as migrated is applied and recorded, whatever other
  processes, retries, reconciliations and repairs do; nothing committed is replayed;
  duplicates go away; an awaited index is valid, unless IF NOT EXISTS took one that was
  not built; no step runs outside a transaction that it believes to be in; every
  invocation ends.
* *Proxy*: every query is answered at most once, in order, with its own result; nobody
  waits for ever; a drop looks like a drop.
* *Transaction passes*: the fixed script is accepted, holds the same statements in
  the same order inside and outside transactions, needs no second fix, and lint finds
  what fix fixes.
* *Idioms*: a dump that is fixed builds the same schema, up to what the user is told;
  lint and fix agree; a fix is idempotent; nothing is dropped without a diagnostic.
* *Rules, MySQL*: lint and fix agree; a fix needs no fix; what is dropped is reported.
* *Command line*: no file is ever torn, the source is kept, the exit code and the
  summary tell of every failure.
* *Driver*: no client is leaked or released twice; no pool is leaked or ended twice;
  completions are not served before they are loaded.

`PROJECT.json` lists every hazard of this code at its line, with the properties that
cover it or the reason why none does.

## 2. Modules and plan

| Module | Models | Status |
|---|---|---|
| `HistoryLedger` | abstract: what the Flyway support promises about the history table | done |
| `FlywayMigrate`, `MCFlywayMigrate` | retries, history, reconciliation, index wait | done |
| `FlywayMigrateProofs` | the invariants and the refinement, for all parameters | done |
| `Dialogue` | abstract: what pg_dump relies on | done |
| `PgDumpProxy`, `MCPgDumpProxy` | one proxied connection | done |
| `TxnSplit`, `MCTxnSplit` | lint and fix of transaction blocks | done |
| `FixCli`, `MCFixCli` | one command over several inputs: outputs, failures, crashes, exit codes | done |
| `SqlScript` | what the passes of `fix_sql` share: parts, diagnostics, name matching | done |
| `Idioms` | SERIAL, UNIQUE / PRIMARY KEY and identity passes over one list | done |
| `StatementRules` | the rules of `errors.rs` over one statement, primary-key removals | done |
| `MySqlDialect` | the translation of a mysqldump | done |
| `Catalog` | reference: what PostgreSQL makes of a script, what DSQL takes of it | done |
| `FixSql`, `MCFixSql` | the pipeline of `fix_sql` and `fix_sql_mysql`, `lint_sql`, a second run | done |
| `SqlToolsDriver`, `MCSqlToolsDriver` | the VS Code driver's asynchronous calls over its pools | done |
| `SqlToolsDriverProofs` | its safety properties, for all parameters | done |
| `SequenceLemmas` | folds, concatenations, finite sets as sequences, maxima | done |
| `TxnSplitProofs` | the transaction passes, for scripts of any length | done |
| `FixSqlProofs` | lines and kept statements of the whole pipeline, for scripts of any length | done |
| `FixCliProofs` | files, source, exit code and summary, for all parameters | done |
| `FixSqlOutputProofs` | a second fix changes nothing, and a fix without an error is in DSQL's dialect, for scripts of any length | done |
| `PgDumpProxyProofs` | types, and the refinement of `Dialogue`, for all parameters | done |
| `SchemaClean` | `DSQLSchema.doClean` | left out, see section 11 |

The modules compose along the tools: `FlywayMigrate` holds the retry template, the
connection and the script executor, since they share two connections; `FlywayMigrate`
and `PgDumpProxy` each implement an abstract module; `FixSql` runs the passes of
`Idioms`, `StatementRules` and `MySqlDialect` over one list and judges them by
`Catalog`. `TxnSplit`, the pipeline's last pass, stays apart: its properties are about
kinds of statement, and a script of five statements of seven kinds times the alphabets
of `FixSql` is out of reach. Each part gets one run for its properties, and one more
only for a disagreement with a statement of the repository.

What is proved, and along which argument, is in section 9.

## 3. Flyway: `FlywayMigrate`

One process (`m \in Migrators`) is one `flyway migrate`. `pc[m]` is where it is:

| `pc` | code | actions |
|---|---|---|
| `idle` | no invocation | `StartMigrate` |
| `group` | `DSQLConnection.lock` runs its callable | `LockOverFailure`, `LockPending`, `LockIdle` |
| `body` | `DSQLExecutionTemplate.execute` called its delegate; the script runs | `RunBody`, `FailBody` |
| `wait` | `waitForJob`, before `setAutoCommit(true)` | `WaitCommit`, `WaitCommitFails` |
| `await` | in `CALL sys.wait_for_job` | `AwaitJob` |
| `restore` | the `finally` block | `RestoreAutoCommit`, `RestoreFails` |
| `rank`, `insert` | Flyway's history insert on the main connection | `ReadRank`, `InsertRow`, `InsertFails` |
| `commit` | the delegate commits | `Commit`, `CommitRaises` |
| `backoff` | the decorator sleeps | `Backoff`, `BackoffInterrupted` |
| `giveup` | the exception reaches Flyway | `GiveUp` |
| `reconcile` | `reconcileDuplicateHistoryRows` | `Reconcile`, `ReconcileFails` |

The environment crashes processes, ends index builds, drops an index that a failed build
left INVALID (as `flyway/README.md` tells the operator to before a rerun) and runs
`flyway repair`. The steps of Flyway's core and of DSQL are not in this repository
(`external` in the map): they are what its comments and code rely on. In particular a
DDL migration whose object has appeared since its snapshot cannot commit, a DML
migration can; a commit whose connection is lost may have taken effect; a commit that
conflicts has not. A DDL migration whose object is there fails, or, if it says IF NOT
EXISTS (`IfNotExists`), does nothing and goes on (`seen = Skipped`): it has no conflict to
lose, and what `sys.wait_for_job` answers of an index that it did not create is left
open. A version whose wait then took an index that was not built is in `accepted`.

Not in the model: the length of a backoff, the recognition of `CREATE INDEX ASYNC` in
a text, Java migrations, migrations outside a transaction, connections that get no
retry knobs because Flyway did not open them directly.

`HistoryLedger` is the abstract specification: the set of (version, type) pairs
recorded as a success only grows, failures come one by one and go together.
`LedgerSpec` says that `FlywayMigrate` implements it when the rows of the table are
mapped to the pairs they stand for; duplicates and their deletion are stutters.

Runs:

* `flyway_migrate` (wait off): two processes, one DDL and one DML version, one retry,
  one invocation each, one repair; 1.1 million states. The three parts of every race
  are there: another process, a retry, and a repair that makes the version pending
  again. Ranks are bounded by 10, more than the rows that two invocations with one
  retry each can insert, so the bound cuts nothing. Its DDL does not say IF NOT EXISTS,
  which leaves in the body that must fail on an object that another process created; the
  theorems cover both. Safety only, hence symmetric.
* `flyway_await` (wait on): two processes, one invocation each, of an index migration
  that says IF NOT EXISTS; 141 thousand states. The second invocation runs beside the
  first, or after it, over the index that the first left: valid, being built, INVALID,
  or dropped by the operator. `AwaitedIndexValid` says that a reported version has a
  valid index and names the one exception, of which the javadoc of
  `DSQLSqlScriptExecutor` warns: IF NOT EXISTS met an index that was not built, and the
  wait for its job was answered TRUE. Fairness: a process that runs keeps running (JDBC
  calls return or throw, `sys.wait_for_job` times out server-side, sleeps end) and a
  background build ends. Crashes, repairs, drops and new invocations are never forced.
  `RunsTerminate` then says that retries and waits are bounded.
* `flyway_replay` (expected violation): see findings.

## 4. Proxy: `PgDumpProxy`

One connection: `handle`, the threads `c2s` and `s2c` with what each is about to
write, the lock, both sockets, and the four streams between client, proxy and DSQL.
A query is a sequence of statements; a server message is one piece, and `S2cRecv`
takes any number of pieces, so replies are cut at piece boundaries. `sendall` to the
client is one step per piece under the lock, since other threads run in between.
`half_close` of the TLS socket leaves the reader with ciphertext; the model gives it
`junk`. The client is libpq (one query at a time, reads until ReadyForQuery) and may
close at any time; DSQL runs queries, may fail any, and may drop the connection.

`Dialogue` is the abstract specification: ask, answer with one of the allowed
answers, lose. `DialogueSpec` is its refinement: what is allowed for an EXECUTE is the
rows of the PREPARE it refers to, for its own OID, or an error. `QueriesEnd` and
`ConnectionsEnd` need fairness of the two threads (they are OS threads), of a DSQL
that answers or drops, and of a client that reads what it waits for. Nothing forces a
client to ask or to close.

Runs: `proxy` asks up to three queries out of pg_dump's kinds (two PREPAREs of one
name, EXECUTEs with an OID inside and outside the range, swallowed SET, LOCK,
set_config, BEGIN, a rejected batch) with sockets that buffer two messages. Three
queries are enough for a PREPARE, its replacement and an EXECUTE; two buffered pieces
are enough for a thread to block in `sendall` with a reply half-written.
`proxy_status` is an expected violation.

Not in the model: the SQL scanner (whether a PREPARE has pg_dump's shape is a flag of
the statement), messages cut by the end of a connection (they are no message, as in
`recv_exact`), the accept loop, whose connections share nothing, and two threads in
one TLS object at once.

## 5. Transaction passes: `TxnSplit`

A script is a sequence of parts (line, kind). `check_ddl_transactions` is a fold with
the state of its loop; `fix_ddl_transactions` is a state machine with one action per
branch of its outer loop, on the list it rewrites. A block that is split is replaced by
`Blocks`, which the inner loop builds statement by statement (`AddToBlocks`): the code
keeps the statements of a run apart (`pending_non_ddl`) until a DDL statement or the end
of the block flushes them, the model keeps the run at the end of what is built, with
its BEGIN and COMMIT around it. After the first pass it is run again
on its own output. The run takes every script of up to five statements over all seven
kinds (begin, commit, rollback, DDL, DML, other, unparsable): 222 thousand states. Five
statements hold a nested block, two blocks side by side, a block with all three kinds
of content, and a block that is rolled back or never ends.
The properties refer to an independent definition of the transactions of a script
(`Transactions`), by positions, not to the passes' own scan. Fairness: the program
runs its loop.

## 6. Command line: `FixCli`

One invocation of `dsql-lint` with its arguments, over a disk of files and symbolic
links. `RejectUsage` and `Start` are `run`, `LintOne` and `ReadFails` are `lint_one`;
`FixRefused`, `FixToStdout` and `FixToFile` are `fix_one`, and `WriteTemp`,
`SyncTemp`, `PersistTemp` and `WriteFails` the steps of `atomic_write`; `Finish`,
`Render` and what fails in it are the rendering. The environment may fail each call,
kill the process between any two steps, and cut the power: then a file that was
renamed into place without a sync may keep its name and not its data.

`fix_cli` starts every command over at most two inputs (files, links to them, an
output of an earlier fix, stdin), every mode and every explicit output: 965 thousand
states. Two inputs are enough for one to be written and the other to fail, and for the
output of one to be the other. `SuccessIsWritten` and `SummaryTellsFailure` relate the
exit code and the JSON summary, which the code computes apart, to what is on disk.
`SingleSourceKept` holds for a command with one input; with two it does not hold
(`fix_cli_sources`). Safety only: no fairness is used.

Seen on the way: an output that is a symbolic link is replaced by a file, its target
is kept; when stderr is gone, `eprintln!` panics after the files are written.

## 7. Rewriting scripts: `FixSql`

`fix_statements` is a list of statements that ten passes rewrite in turn, and `FixSql`
has one action for each: `FixSerialIdioms`, `FixAlterAddUnique`,
`FixAlterAddPrimaryKey`, `CheckIdentityAlterTargets`, `FixIdentityAdds`,
`FixSetCompression`, `CheckPrimaryKeyRemovals`, `CheckStatements` and, for a MySQL dump,
`Translate` before and `SortDiagnostics` after them. `Rerun` feeds the output to the
program again. `lint_sql` is the same list of checks on the script as it came.

*Statements.* A name is a schema and the words that `_` joins, folded and unquoted, so
that `{table}_{column}_seq` and `{table}_{name}` are longer lists of words. A column is
what the rules look at: type, NOT NULL, default, identity with its cache and whether
its other options are the default ones, collation, inline references, and inline UNIQUE,
PRIMARY KEY and CHECK with their names. A cache is a number, missing (in an identity
idiom, whose parser defaults it, 1), or an expression. A query and a view say what
collation their expressions have; those of the expressions in a CHECK, an index or a
default are left out. A statement that no rule looks into is its kind.
`ScriptsAssumption` is what the parser gives of a statement (`IsStatement`): the fields of
its kind, for a table finitely many columns and constraints, for an ALTER TABLE a sequence
of operations that is not empty; the words that the rules and `Catalog` tell apart for
kinds, types, constraints, operations and clauses; and a MySQL CREATE TABLE that does not
parse begins with its keywords.

*Idioms* (`Idioms`). The passes that fold have one shape: `FoundAt` lists the idioms, at
most one for each ALTER, `Rewritten` folds them into their tables (`FoldSequences`,
`FoldConstraints`, `FoldIdentities`), and `drop_parts` drops what was folded.

*Rules* (`StatementRules`). Each rule `F` that rewrites has a companion `FFound`, the
reports that it makes. All rules of `errors.rs` are there, also those that only
report. The search for the line inside a statement, messages, and the order of reports
among the columns of one table are left out: a report has its statement's line.

*MySQL* (`MySqlDialect`). Names are bare, quoted or, where the program can do neither,
left in backticks, which PostgreSQL does not read; types, defaults (a form and a value),
AUTO_INCREMENT with its seed, KEYs and UNIQUEs, noise and data statements follow
`normalize_statement` arm by arm. Column names are plain in the model.

*Catalog.* What a script means is given by `Run`, an interpreter of PostgreSQL's catalog
that is written independently of the passes: it refuses what PostgreSQL refuses (a
table that exists or is missing, a name that another relation has, a sequence used
before it exists, a second primary key, an identity on a nullable column or beside a
default, a default that its type cannot read). `DsqlAccepts` says what DSQL takes of
that, as the rules and the tests of the repository speak of it: `DsqlStatement` of a
statement as it is written, `DsqlTarget` of the table that an ALTER finds. Neither is code of this
repository; both are marked external in the map, and what the properties below show is
relative to them. Names are not cut at 63 bytes.

`fix_sql` runs, over 13 thousand scripts and 238 thousand states:

* every accepted script of at most five statements over a SERIAL alphabet (two tables,
  two sequences, ownership changes, uses, one sequence for two columns, an ALTER with
  two operations): five hold a table, its sequence, default, ownership and a use, or one
  sequence with two defaults;
* every accepted script of at most four over an alphabet of constraints, identities and
  columns with a table's name written in three ways: two tables and two ALTERs;
* each rule: caches on both sides of each bound (0, 1, 2, 65535, 65536, none, an
  expression) in the four statements that have one, every type, collation, reference and
  clause (up to three clauses), every pair of ALTER operations, ADD COLUMN with inline
  constraints among them, over tables with and without keys, every index option, every
  statement that DSQL has no place for;
* MySQL dumps: every pair of types with each default that MySQL takes for its type,
  AUTO_INCREMENT with and without a seed, sets of keys on tables with plain, mixed-case,
  reserved and unquotable names, a referring table, with noise, data and unparsable
  statements in between.

What it shows:

* `SchemaKept`, with `DumpShaped`, and `FixedIsEquivalent` (false, see findings): a script
  that is fixed without a warning beyond SERIAL's builds the same tables, columns, keys,
  defaults and indexes. `DumpShaped` names what the passes rely on in a dump and do not
  check; TLC violates the property without any of its parts: `UniqueNames` (two tables
  of one name in different schemas, named without a schema), `TableBeforeUse` (a
  sequence is used before the CREATE TABLE whose identity replaces it) and
  `ColumnsFromTheStart` (a key on a column that ADD COLUMN adds is folded into the
  CREATE TABLE, which lacks it, and reported as fixed).
* `FixedIsAccepted`: a dump that is fixed without an error runs, and DSQL takes each
  statement of it, in the database that the statements before it have left. Its premise
  `AddedBare` is that no ADD COLUMN has an inline constraint, as in every dump.
* `EachIsAccepted`: of any script, a dump or not, in either dialect and in a second run as
  well, each statement that a fix without an error writes is in DSQL's dialect, but for
  one thing that the code lets through (section 10): inline UNIQUE, PRIMARY KEY and CHECK
  of an ADD COLUMN, and these only at a line where the input has them. What else DSQL
  does not take has to be met by a rule that rewrites all of it or reports it: a column
  in CREATE TABLE and in ADD COLUMN, a cache in four statements, a constraint inline, in
  a table and added, each clause, operation and kind.
* `FixIsIdempotent`: what one rule leaves is not reported, or rewritten, by another one
  in a second run, whichever dialect the first one read.
* `ModesAgree`, `StatementsKept`: lint and fix report the same idioms and errors but for
  the named cases; nothing is dropped silently.
* `TranslationKeepsTables`: the tables of a MySQL dump that is translated without an
  error are there under their names, with keys, foreign keys, indexes, identities and
  seeds, types that hold every value, and the default where one is left.
* `DroppedIsTold`: what the database does not have of a dump's table (a counter, a list
  of values, a default, an ON UPDATE, a key's name, a key's prefix) is told at the table's
  line, each loss by the rule that is about it, and nothing is told that was not lost.

`fix_lossy` (false, see findings) asks the same of types: `LossyIsTold` counts the columns
whose new type takes values that MySQL's kept out (`Restricts`: unsigned integers, YEAR,
value lists). TINYINT(1), a boolean by convention, is not among them.

No fairness is used: the pipeline has no loop but over its list.

## 8. The SQLTools driver: `SqlToolsDriver`

Calls of `open`, `query`, `testConnection`, `getStaticCompletions` and `close` interleave
at every `await`. A call is where it waits (`Open` for its pool's first connection,
`RequestClient` for a client, `QuerySucceeds` or `QueryFails` for the answer,
`MapSucceeds` or `MapFails` for what it makes of the rows, `Close` for the pool's end);
pools are node-postgres pools with a limited number of clients, given out in the order
of requests (external). Queries and connections may fail.

`sqltools` runs three calls with two pools of one client each, and `CallsEnd` under
fairness of the event loop (each pending promise settles: node-postgres ends a query
with a result or an error). The properties name the cases in which the code leaks: a
failed `testConnection` keeps its client, so calls may wait for ever behind it; an `open`
or `close` beside another `open` leaves a live pool that nothing refers to; rows that
cannot be shown release a client twice. Outside of them clients, pools and completions
are accounted for.

## 9. Proofs

`FlywayMigrateProofs` proves, for any set of processes and any values of the other
constants that satisfy `MigrateAssumption`:

* `TypeCorrect`, `ReportedStick`, `QuietNoDuplicates`, `AwaitedValid`, `RollbackHolds`:
  the invariants of the runs as `Spec => []Inv`;
* `NothingReplayed`: with the wait off, nothing committed is replayed (with it on the
  property is false: `flyway_replay`);
* `LedgerImplemented`: `Spec => LedgerSpec`.

No invariant is inductive as it stands. `IInv` (theorem `Invariance`) adds

* `LocationInv`: a process that migrates has a version, one outside has none, and only
  a migration that awaits its index is at `wait`, `await` or `restore`;
* `ReplayInv`: with the wait off, only the commit at the end of the callback commits
  the body, and no retry follows it;
* `KeyInv`: `installed_rank` is a key of the history, so the `MAX` of the DELETE names
  one row;
* `SnapshotInv`: a DDL body that runs saw no object of its own (`SeenNothing`), or IF NOT
  EXISTS let it pass over one that a committed body had created, and so with what a wait
  accepted (`SkippedApplied`); an index exists only for a version that is applied
  (`IndexApplied`). A skipped body therefore never stands for one that did not run;
* `WaitInv`: past a successful wait the index is valid, or accepted as it was;
* `RecordInv`: a process at `commit` or `reconcile` has a success row of its version in
  the history, its own or a newer one, and at `reconcile` the version is applied.

The argument for `ReportedStick` is that a reconciliation never removes the highest
success row of a (version, type). The history is finite, so among the success rows of
a (version, type) there is one of highest rank, and nothing supersedes it. Lemmas
about `reconcileStatement` state this once; every step that deletes rows cites them.
Each conjunct of `IInv` has a step for every action that can disturb it.

`SqlToolsDriverProofs` proves `TypeCorrect`, `ClientsAccountedFor`, `PoolsAccountedFor`
and `CompletionsFilled` for any number of calls, pools and clients. `IInv` adds two parts
to the properties: `PoolInv` says what the pools of calls that open or close are, and
which of them are in `raced` (two opens under way are; a connection beside an open is);
`CacheInv` says that only a close closes, and that nobody fills a cache that is missing.

`FixCliProofs` proves `TypeCorrect`, `FilesWhole`, `SourceKept`, `SuccessWritten` and
`SummaryTells` for any commands, files and links. `IInv` adds to `TypeOK`

* `RunInv`: an input is processed while there is one left, and what each `pc` means for
  the outcomes so far;
* `WriteInv`: what is renamed into place is a fix whose data is on disk;
* `WholeInv`: no name holds a torn file, nor may a power loss leave one under it;
* `KeepInv`: the disk is as it was until the first outcome; the first fix goes to another
  file than the one that it was read from; a single source survives a power loss;
* `OutcomeInv`: an input that counts as processed has its fix where it was to go;
* `CodeInv`: the exit code and stdout of a run that ended are those of its outcomes.

The code computes the summary's count and the exit code from different fields:
`SummaryTells` relates both to the outcomes, which are finitely many.

`PgDumpProxyProofs` proves `TypeCorrect` for any queries, names and bounds, with what a
thread holds at each point (`ThreadInv`) and that nothing comes from DSQL before the
threads run (`HandlerInv`). The same module proves `DialogueImplemented`,
`Spec => DialogueSpec`. Nothing in the proxy numbers the answers, so the invariant has to
say why they cannot be confused:

* `MessageInv`: at most one message of the client's is under way, in one place: its
  stream, the first thread, or the stream to DSQL; and a query that DSQL is about to run
  returns what the client's query allows (`Serves`);
* `FlowInv`: `Flow` is what the client has yet to read: what has reached it, what the
  proxy is about to write itself, and what comes from DSQL. Up to where the connection
  is lost it begins with what is left of the one answer that is owed, and of nothing
  while a message is under way. Losing the end of it (a drop, `junk`, a thread that ends)
  keeps this true, which is the reason why it speaks of a beginning;
* `Alone`: while the proxy answers itself, nothing from DSQL is read, so the order in
  which two threads write to the client does not matter;
* `PreparedInv`: `prepared_queries` holds the last PREPARE of each name among the queries
  that the first thread has seen, so an inlined EXECUTE has the rows of its own;
* `CountInv`: a client that waits has asked one query more than it has answers.

All of it is about a client that has not given up; after that, answers do not change.
A step of the client's maps to `Ask`, `Answer` or `Lose`, every other to a stutter.

`TxnSplitProofs` proves `TypeCorrect`, `StatementsStay`, `FixedAccepted`,
`RerunChangesNothing` and `LintAndFixAgree`: the five invariants of `txn_split`, for
scripts of any length. Both modes are folds, and a property of a fold over every script
needs an induction that the library states with operators, so `SequenceLemmas` states it
with sets and functions:

* `RecursionExists`, `RecursionByPrefix`: `FoldLeft` is a CHOOSE of a function on sets of
  indices; there is one such function, and its values on the prefixes of a sequence are
  the states of the loop (`BlocksByPrefix`, `LintByPrefix`). What each step of the loop
  keeps, the set of prefixes for which it holds has 0 and is closed under successor;
* `SpliceAt`: which part is at which index after `parts.splice`;
* `LeastNatural`: a scan that stops somewhere stops first at one place.

`Inv` is inductive, and TLC finds it true in every state of the run. Its parts are

* `TypeOK` and `StatementsKept`, which alone is about the whole list: a split keeps the
  statements of its block, which lines order (`AddToBlocksKeepsStatements`), and what is
  in a transaction after a block is there before it, because the block ends in a COMMIT
  either way;
* `AcceptedInv`: up to index `i`, every BEGIN that a COMMIT ends without an unparsable
  statement in between has statements that DSQL takes together. This is about every BEGIN
  and not only one that opens a transaction, because the loop goes on inside a block
  that it skips; and a BEGIN before `i` whose block is not closed at `i` is never
  committed from there on, or the loop would have gone past its end. In a rerun the
  whole list has this shape already, so no block is split, and `parts` stays `input`;
* `DiagnosticsInv`, for the first pass over a script that parses: what is left of the
  list is a suffix of the input, no block that began before it ends in it, and the
  diagnostics are the ones of the committed transactions before it.

For lint an invariant of the fold (`LintInv`) says that its counts are those of the open
transaction and its reports those of the closed ones. `ModesAgree` then compares two sets
that are both described by positions in the input (`ReportOf`).

`FixSqlProofs` proves `TypeCorrect` and `NothingLost`: the invariants `TypeOK` and
`StatementsKept` of `fix_sql`, for scripts of any length in either dialect. That no
statement is lost is about every pass at once: each works with indices into the list that
it was given, drops some of them, may list one twice, and the next one sees what is left.

* A pass that rewrites does two things: `Rewrites`, the parts that are left are the old
  ones, with their lines and kinds, in their order (there is an increasing function from
  their indices to the old ones, which misses nothing but what was dropped), and
  `DiagnosticsOf`, each report is at the line of a part. `DropPartsIs` says so of
  `drop_parts`, which removes from the end, so that an index stays what it was until its
  turn (`RetainsEnd`). `FixSerialIs`, `FixConstraintsIs`, `FixIdentityAddsIs`,
  `FixSetCompressionIs` and `CheckStatementsIs` say it of each pass, from what it detects:
  what a fold drops is an ALTER that it has reported.
* `CheckIs`: a rule keeps a statement's kind, and leaves a statement that the next pass
  can work on. In particular no rule empties an ALTER TABLE, so the arm of
  `fix_statements` that leaves out such a statement (`lint.rs:757`) is never taken, and the
  model has none.
* `TranslationIs`: a translation drops noise and data statements only, the latter with an
  error, and keeps the order of what is left; `SortedByLineIs`: the sort at the end loses
  and adds nothing. `MySqlDialect` is an instance, whose copies of library operators are
  shown to be the ones of `FixSql` first (`SameFlattenSeq`, `SameSetToSeq`, `SameRecords`).

`Inv` is inductive, and TLC finds it true in every state of the run. It says that the
parts and diagnostics come from lines of the source, parts in order (`From`, `Ordered`);
that every part of the input is still there, or is the sequence, default or ownership of
a SERIAL idiom of the *input* (`OfSerial`), or is of a kind that is folded and has a report
(`Accounted`); and for a dump that an unreadable table, which `Translate` leaves among the
parts without a word, stays there until `CheckStatements` reports it (`Translation`,
`TablesTold`). The SERIAL pass is the first, so its idioms are the input's; what the later
ones drop is related to the input through the lines and kinds that every pass keeps.

`FixSqlOutputProofs` proves `Idempotent` and `EachAccepted`. The first: in a second run no
pass changes a statement, and what is reported is only what the tool cannot repair. The property is about the end of a
second run and the reason lies in the first, so the invariant `RunInv` says how far the
list has come in each of them: after pass `p` of the first run it is `Cleaned` up to `p`,
and before pass `p` of the second the whole list is, and still is the input.

* `Leaves`: the output of a pass has nothing that the same pass would find. A fold leaves no
  candidate because what it drops is all that it found with a table, and a folded table
  offers nothing to fold again (`SerialLeaves`, `ConstraintsLeave`, `IdentityAddsLeave`).
* `RestingParts`: what later passes do brings no idiom back. They drop parts, keep the
  order of the others and change a statement only in ways that no earlier pass looks for
  (`Rewrites`, `Alike`): a `detect` that finds something in the output has its witnesses in
  the list that the earlier pass left.
* `RetainsAll`, `NothingNew`, `DroppedNothing`, `RewrittenNothing`: over a list with no
  idiom a pass is the identity, because `drop_parts` of nothing and a fold over nothing are.
* `StatementsSettle`: each rule, applied to what the rules made of a statement, changes
  nothing and reports only what it cannot fix. Rules of `errors.rs` that rewrite undo each
  other's grounds in one round; the proof goes rule by rule over the fields they touch.

That a MySQL translation is not idempotent does not matter: a second run is a plain one.

`EachAccepted` is `EachIsAccepted` for every script. `AcceptInv`: once `CheckStatements`,
which is the last pass to rewrite anything, has been through without an error, every part
is one of DSQL's. A pass reports a concatenation of what each rule finds in each column,
constraint, operation and statement; it has no error if none of these has
(`ErrorlessConcat`, `ErrorlessFlattened`, `ErrorlessReport`), and each rule that was
silent, or that only warned, is then a fact about the statement (`ErrorlessColumn`,
`ErrorlessCache`, `ForeignKeyAccepted`). Together with what the rule makes of it that is
`DsqlButForInline`, kind by kind (`CreateTableAccepted`, `OperationAccepted`, ...): all of
DSQL's dialect but the inline constraints of an added column. That these stand where the
input has them (`InlineIsInput`) comes from what every pass keeps of the operations of an
ALTER TABLE (`Accounted`, `Alike`). Here
`ScriptsAssumption` matters, whose words `CheckIs` keeps through every pass and
`NormalizedType` through the translation: a kind, a type or an operation that neither a
rule nor `Catalog` names is outside the theorem, as it is outside the linter's rules.

Only model-checked:

* liveness (`RunsTerminate`, `QueriesEnd`, `ConnectionsEnd`, `FixEnds`, `CallsEnd`),
  which the prover cannot take because of fairness and ENABLED;
* of `FixSql`: `SchemaKept`, `FixedIsAccepted` (the half of it that is not `EachIsAccepted`),
  `TranslationKeepsTables` and `DroppedIsTold` compare a whole script with what `Catalog`
  makes of it, a fold over its statements, for dumps of a certain shape; `ModesAgree`
  compares what a pass finds in two lists, one of which the passes before it have rewritten, and half of it is about errors that only the
  alphabets of the runs cannot mix up.

## 10. Findings

Five runs are expected to violate a statement of the repository:

* `flyway_replay`: with `awaitAsyncIndexes` on, `waitForJob` commits the migration; a
  conflict on the history insert after it is retried, and replays a committed body
  (`DSQLExecutionTemplate.java:37`).
* `proxy_status`: a swallowed SET answers status `I` inside a transaction
  (`dsql_pgdump_proxy.py:551` against the docstring at line 453).
* `fix_cli_sources`: `--fix a.sql a-fixed.sql` overwrites its second input with the fix
  of the first (`main.rs:563` against the comment at line 501).
* `fix_identity`: an identity that is folded into its column keeps its cache and loses
  its start, increment, bounds and cycle, and the report is a plain `Fixed`
  (`identity_idiom.rs:548` against `dsql-lint/README.md:108`).
* `fix_lossy`: `TINYINT UNSIGNED`, `MEDIUMINT UNSIGNED` and `YEAR` become types that take
  what MySQL keeps out, without a diagnostic (`mysql.rs:709`, `:711`, `:737` against
  `dsql-lint/README.md:159` and the comment at `mysql.rs:701`).

Divergences met on the way that have no run of their own; the properties name them as
preconditions or exceptions, or the model follows the code:

* A transaction block that is reported as skipped is split from a nested BEGIN on
  (`lint.rs:503` against the message at line 498).
* An ALTER of an unqualified table is folded into an earlier table of that name in
  another schema (`name_match.rs:127` against `constraint_collapse.rs:51`; `DumpShaped`).
* `{table}_{name}`, the name that a MySQL key gets to stay unique, may be that of another
  relation (`mysql.rs`; `NamesStayUnique`).
* An `ADD COLUMN` with an inline UNIQUE, PRIMARY KEY or CHECK is neither rewritten nor
  reported (`errors.rs:614` against the comment at line 130: "DSQL does not allow
  constraints on ALTER TABLE ADD COLUMN"). `EachIsAccepted` and the theorem
  `EachAccepted` name it as their exception; TLC violates the property without it.
* A batch is recognised by its first statement: one that begins with a rejected SET is
  swallowed as a whole and answered with success (`dsql_pgdump_proxy.py:548` against
  line 32).
* `CREATE INDEX ASYNC IF NOT EXISTS` over an INVALID or unfinished index may be accepted;
  the javadoc (`DSQLSqlScriptExecutor.java:52-55`) and `flyway/README.md:181-183` say so
  (`AwaitedIndexValid` names it).
* `REAL UNSIGNED`, a double in MySQL, becomes the single `REAL`, and a MySQL `TIME` beyond
  a day does not load (`mysql.rs:792`, `:700`).
* Lint and fix differ for a primary key that is folded in and then removed again, and
  for an identity on a nullable column (`ModesAgree` names both).
* A collation `other."C"` counts as equivalent to `C`.
* A mysqldump's foreign key to a table that comes later, a standalone `CREATE INDEX` or
  `ALTER` with backticks, and a bit default on a numeric column come out as statements
  that do not run or do not parse.
* `ROLLBACK TO SAVEPOINT` and `COMMIT AND CHAIN` count as the end of a transaction.
* Flyway's retry knobs are looked up by the identity of the connection: a wrapped
  connection has the defaults.

## 11. Not modelled

* *Texts*: splitting a script into statements (a script that cannot be split is one
  ParseError), tokens, quoting, the line inside a statement, the proxy's scanner, the
  recognition of `CREATE INDEX ASYNC`, messages and layout. They are conversions without
  state; the models take what they tell apart as the alternatives of an input.
* *`DSQLSchema.doClean`*: it drops views and then tables in auto-commit mode. What can go
  wrong is the order in which `information_schema` lists views that depend on each other,
  and DSQL's checks, of which nothing in this repository speaks. The dialect's other
  overrides return constants.
* *`main` of the proxy*: the accept loop starts connections that share nothing.
* *Grammar oracle*: a test tool (`grammar/`, `bin/grammar_diff.rs`) that nothing else uses.
* *Wrappers, workflows*: they start the binary, or run in a hosted service.
