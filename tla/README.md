# A verification development for pgsql-mcp

TLA+ models of the parts of pgsql-mcp that change state under concurrency,
failure and timeouts, TLC configurations that check them on small instances, and
proofs checked by TLAPS for every value of their constants. Paths below are
relative to `src/src/postgres_mcp/`.

## 1. The system

pgsql-mcp is an asyncio MCP server. A client calls tools; a tool runs in a task
of one event loop, takes a connection from a lazily opened psycopg pool, and talks
to PostgreSQL in one transaction, or, for maintenance commands, in autocommit mode.
Durable state is in PostgreSQL: the data, a migration ledger and a maintenance
ledger. Process state is small: the pool and its validity flag, and a metrics
registry.

| component | source | state | operations | hard behaviour | status |
|---|---|---|---|---|---|
| Reviewed maintenance | `maintenance/` | ledger row per operation name, session advisory lock per target | plan, `inspect`, `apply`, `reconcile`, `status` | not transactional: the command, the ledger writes and the lock are separate steps, each of which can be cancelled or lose its reply | modelled: `apply`, `reconcile`, the plan and its digest |
| Reviewed migrations | `migrations/` | ledger (a stack of applied plans), schema | plan, `inspect`, `apply`, `rollback`, `status` | SERIALIZABLE snapshot older than the lock, lost COMMIT, LIFO order; classification of statements by their first words | modelled: `apply`, `rollback`, the planner and its digests |
| Atomic transactions | `sql/sql_driver.py`, `sql/transaction.py` | one transaction | `execute_transaction` | guards checked after execution, failed COMMIT, failed rollback | modelled: execution, scanner |
| Structured data operations | `data_ops/` | one transaction | select, insert, update, delete, upsert | the same, and a timeout that cancels COMMIT; pages read while the data changes; updates on a condition | modelled |
| Connection pool | `sql/sql_driver.py` | pool, validity flag, lifecycle lock | `pool_connect`, `mark_invalid`, `close` | cancellation at every await, replacement of a pool in use | modelled |
| SQL policy | `sql/safe_sql.py`, `sql/query_guard.py`, `sql/transaction.py` | none | classify, validate, scan placeholders | a hand-written scanner | scanner modelled; the policy is a tree walk |
| Bind parameters, results | `sql/bind_params.py`, `sql/results.py` | cached server version | visitors, encoding | | not modelled: no state, tree walks |
| Index advisor | `index/` | search state, cost cache, hypothetical indexes of sessions | candidates, greedy search, LLM search, report | time and storage budgets; session state that outlives the call | modelled |
| Explain, top queries | `explain/`, `top_queries/` | hypothetical indexes of sessions | query text | the same session state | hypothetical EXPLAIN modelled |
| Database health | `database_health/` | none | independent read-only checks | which of two equal indexes is redundant | duplicate index check modelled |
| Replication status | `replication/` | one read-only transaction | capture, assessment | hidden catalogs, a node that changes meanwhile, a rollback that fails | modelled |
| Catalog, extensions, provider | `catalog*.py`, `extension_objects.py`, `provider_profiles.py` | none | bounded catalog pages | | not modelled: read-only queries |
| Observability | `observability.py`, `observed_server.py` | counts per tool | begin, finish, snapshot, exporter | exactly-once finish, cardinality cap, outcomes read from answers | registry and call boundary modelled |
| MCP servers | `server.py`, `lite_server.py`, `ha_server.py` | the driver, the access mode | tools, shutdown | what a handler tells of a refusal, a failure, a doubt | tools by class of answer; shutdown in `Pool` |
| Schema pull | `migrations/schema_pull.py` | none | catalog queries as text | | not modelled: read-only |
| Artifacts | `artifacts.py` | none | text | | not modelled: formatting |

How they interact: every tool goes through `SqlDriver._connection`, hence through the
pool. A connection-level error of a query (`execute_query`, `execute_bounded_query`,
`execute_transaction`) invalidates the pool for all of them. The users of
`connection()`, which are the data operations, the migrations and the replication
status, report no error at all, and maintenance reports only a session that it could not
clean up: after an error of theirs the pool stays valid. Maintenance and migrations
exclude each other's concurrent calls with PostgreSQL advisory locks, of the session in
the first and of the transaction in the second. A session that goes back to the pool in
a bad state is the next call's problem; the models keep sessions apart from calls for
that reason. HypoPG's hypothetical indexes are such a state: they belong to the session,
whoever asked for them. Every tool is called through one boundary, which counts it by
what its answer looks like.

What makes each part correct:

- maintenance: a command that took effect is never run again without an operator's
  decision; two commands never run on one target; what the ledger records as settled
  is what happened; a reported success is durable;
- migrations: ledger and schema change together and in stack order; a report of a
  change is true, and a report that nothing was committed stays true;
- guarded writes: all or nothing, and within the guards; no transaction is inherited
  with a session; a reported success is committed;
- pool: a pool of which a failure was reported is not taken again; a pool is never lost
  unclosed; initialization is exclusive; every way out of it releases the lock;
- data operations: pages are together an exact reading of what did not change, when the
  values of their order return from a cursor as they were; updates on a condition lose
  nothing that was acknowledged;
- plans: a plan that comes back from the ledger, or that is sent to apply under the hash
  of a review, is the one that was reviewed. That what apply accepts runs in one
  transaction is what the documentation says, and not so: a comment between two words and
  a CREATE SCHEMA with a statement inside get past the planner (section 3);
- advisor: a cost belongs to its configuration; recommendations pay and fit the budget;
- replication: "ready" only when all was seen and nothing was wrong;
- metrics: calls in flight and labels are what happened, and so are outcomes, but for
  failures told in a text and errors that repeat the wording of a refusal;
- scanner: what is validated is what runs, but for four kinds of text (section 3).

## 2. Modules

| module | models | composes |
|---|---|---|
| `Maintenance` | `maintenance/postgres.py`: `apply`, `reconcile`, cleanup, with sessions, locks, ledger | `ReviewedOperation` as its abstraction |
| `ReviewedOperation` | what maintenance promises of each name | |
| `MaintenanceProofs` | theorems about `Maintenance` | |
| `Migration` | `migrations/postgres_backend.py`: `apply`, `rollback` | `MigrationLedger` as its abstraction |
| `MigrationLedger` | what migrations promise: a stack of plans and the schema it makes | |
| `MigrationProofs` | theorems about `Migration` | |
| `AtomicWrite` | `execute_transaction` and the data operations' `_transaction` on pooled sessions | |
| `AtomicWriteProofs` | theorems about `AtomicWrite` | |
| `Pool` | `DbConnPool` and the tasks that use it | |
| `PoolProofs` | theorems about `Pool` | |
| `Observability` | `MetricsRegistry`: labels, calls in flight, outcomes, histogram | |
| `Server` | the tools of `server.py` by access mode, `classify_tool_result`, the observed call | extends `Observability` |
| `ServerProofs` | theorems about `Server` and the registry | |
| `DataOps` | `data_ops/`: pages and guarded writes, with clients that count | |
| `Advisor` | `index/`, `explain/`: candidates, HypoPG on sessions, both searches, the report | |
| `Replication` | `replication/`: capture and assessment | |
| `Plans` | `migrations/planner.py`, the plans of `migrations/domain.py` and `maintenance/domain.py` | |
| `SqlScan` | `sql_for_validation` of `sql/transaction.py`, and the lexical rules of PostgreSQL | |
| `ScanProofs` | theorems about `SqlScan` | |
| `IndexHealth` | the duplicate index check | |
| `ServerMC` | one instance, part by part, of `Server`, `DataOps`, `Advisor`, `Replication`, `Plans`, `SqlScan` and `IndexHealth`, which share no state | all of them |
| `PartsProofs` | theorems about `Advisor`, `Replication`, `DataOps`, `IndexHealth`, `Plans`, and what they and `ScanProofs` say of `ServerMC` | |
| `SumTheorems` | sums over finite sets, induction over the subsets of a finite set | |
| other `*MC` | constants and symmetry of the TLC instances | |

### Conventions

- **Steps.** One action is what a task does from one await to the next: it sends
  one statement and handles its reply. An action `A(t, r)` has the reply `r` as a
  parameter: `ok`, `refused` (an error of the server, a statement or lock timeout),
  `cancelled` and `cancelled_done` (asyncio.timeout cancels the task; the statement
  had, or had not, taken effect), `lost` and `lost_done` (the connection is lost).
  The handler of the reply, with its `except` and `finally` clauses up to the next
  await, belongs to the same action.
- **Program counters.** `pc[t]` names the statement that call `t` executes next,
  after the helper that executes it: `lock`, `read`, `inspect`, `record`, `execute`,
  ... `idle` is the tool before and after a call. `report[t]` is the outcome the
  call is going to return.
- **PostgreSQL and psycopg are external**: advisory locks (re-entrant per session),
  transactions, the end of a backend whose client is gone, the pool's rollback of
  returned connections. Actions for them say so in the comment and in the map.
- **Crash.** `Crash` ends the process: calls go back to `idle`, their backends run
  on without a client (`zombies`, `orphan`) until `BackendExit`.
- An operator introduced by "Wrong on purpose" is a plausible bug in the operator
  that follows it. Nothing uses it. Substituting it shows that the property named
  in `PROJECT.json` notices that bug.

### Maintenance

`ledger` is the table `_postgres_mcp_maintenance`, keyed by operation name; a plan
stands for its review hash. `locks[s][o]` counts how often session `s` holds the
advisory lock of target `o`. `running[s]` is the plan whose command the backend of
`s` executes; it goes on when the client is gone. `executed[n]` records whether the
command of the latest attempt of `n` took effect. `suspect` are sessions of a pool
that was marked invalid: they end when they come back.

| action | code |
|---|---|
| `Begin`, `AcquireLock`, `ReadRow`, `InspectTarget`, `RecordRunning` | `apply` before `operation_started` |
| `SendCommand`, `CommandReturns`, `FinishRecord` | the command and the success write |
| `RecordFailure`, `RecordCancelled` | the `except` clauses of `apply` |
| `ReadStored`, `AcquireLock`, `Decide`, `Resolve` | `reconcile`, which reads before it locks |
| `Cleanup`, `CloseSuspect` | `_cleanup_session`, `_mark_connection_invalid` |

### Migration

A call stands for its transaction too. `saw[t]` is its snapshot, taken in `Begin`
by the `set_config` statements, BEFORE `AcquireLock`. `Serializable` is the part of
serializable snapshot isolation that the code relies on: a transaction that read
the ledger and writes it cannot commit after another one changed what it read.
`schema` is the sequence of effects in force; a compensation undoes its step when
that is the last effect, so that compensating out of order shows.

### AtomicWrite

One module for two handlers, because they share sessions and differ in what they
report (`mode`). `writes[s]` is the open transaction of session `s`, whoever began
it; `store` what is committed. `limbo` are the backends that may still execute a
COMMIT whose client is gone.

### Pool

`current`, `valid` and `lifecycle` are `self.pool`, `self._is_valid` and the holder
of `self._lifecycle_lock`. A task works with `got[t]`. `pool_connect` is `Request`,
`Connect`, `CloseOld`, `Open`, `Verify`, `CloseFailed`, in this order; `mark_invalid`
is `MarkInvalid`, which does not say WHICH pool failed, as in the code. An error of a
checkout or of a connection in use is reported or not (`Fail`): that depends on the
caller, as section 1 says. `reported` is a history variable, the pools of which a
failure was reported.

### Server and Observability

`metrics`, `token` are the registry and the tokens of the calls in flight; `countedAs`
and `did` are history variables: the label a name first got, and what really happened to
the calls that ended. `Call` takes the token; `Return` and `Cancel` finish it with the
outcome that `ClassifyToolResult` reads from the answer. A handler is the set of pairs
of what happened and what it says of it. An error text is the set of the wordings that
`classify_tool_result` looks for in its first 256 characters. The text of an error
repeats names that a client chose, so it may have any of them (`Errors`): such a failure
is `echoed`. `told` is a failure in a text that is no error response, `again` a failed
operation that is reconciled as failed once more, whose answer has the status `failed`.
There is one handler for each class of tools: `list_schemas` stands for the inspection
tools, `search_catalog` for the bounded listings, `insert_rows` for the four mutations,
and so on.

### DataOps

A transaction is one step. `SelectPage` takes the next page of one reader, whose
`cursor` carries the values of the last row; `Insert`, `Upsert`, `Update`, `Delete` go
through `_guarded_mutation`. `Read` and `Increment` are a client, external to the code,
that relies on the concurrency filter. Its update is acknowledged, refused
(`RefuseIncrement`), or in doubt (`IncrementInDoubt`): `commit outcome is unknown`, or a
timeout or a cancellation while COMMIT is awaited, with or without effect. What a cursor
does to the values of an order is a matter of their types: `Encodable` says of the
values of a row whether a cursor takes them (`CursorSize`, with `Nothing` for an
interval or a float that is not finite), and `Bound` what they are when they come back
as parameters. A value of one of the `InexactTypes` comes back as another one
(`Compared`), a float4 as the double next to it, or makes PostgreSQL refuse the
comparison. Values are integers and `Null`; a filter has SQL's three values; the values
that `like` matches are given as a set. RETURNING is left out: it only adds a limit
after the write.

### Advisor

`hypo[s]` are the hypothetical indexes of session `s`; every explained batch picks a
session. `ExplainElsewhere` is any other call. The greedy search is `Evaluate` for
each candidate, in any order as in a set, and `NextIteration`, where the time may be
up; the LLM search is `PlanIndexes`, `TryAlternative`, `NextRound`. log(time) + 2
log(space) is compared as time * space^2.

### Replication

One action for each of the five catalogs, `OptionalRows`, which shows or hides it;
`NodeChanges` between any two of them, promotion included. `was` is what the catalogs
were when they were read.

### Plans, SqlScan, IndexHealth

Operators without state. A statement is its kind and its words, those of comments too,
from which the planner guesses how it behaves. A digest is a pair of domain and
payload, equal only for equal ones. The indexes of `IndexHealth` have any columns,
expressions and access methods, and may belong to an exclusion constraint. `SqlScan` has
the scanner step by step, and `Lexed`, a definition of the same from PostgreSQL's
lexical rules that does not scan. A placeholder is its two symbols for both, so that
what follows it has the letter of the placeholder before it, as in the code; for the
rules, what psycopg writes in its place stands apart from what follows. psycopg also
replaces placeholders within quotes and comments, and leaves `%%` alone in a statement
without parameters; both are outside `sql/transaction.py` and are not modelled.
`ServerMC` asks each of them once, with every input of its instance.

## 3. What TLC checks

Every run finishes. Two calls interleave in most runs: the hazards listed in
`PROJECT.json` need two actors and a failure, and every reply is possible at every
statement, so nothing bounds how many failures a behaviour has.

| run | instance | shows |
|---|---|---|
| `MaintenanceReconcile` | 2 calls of either tool, 2 sessions, 1 plan | the ledger is never silent about a command that may have run (`ExecutionIsRecorded`), what it says is true (`RecordedOutcomeIsTrue`), a row changes only under the lock of its own target (`WritesUnderLock`), nothing is run twice without a resolution (`RetryOnlyAfterResolution`) |
| `MaintenanceApply` | 2 applies, one name, 2 targets, hence no common lock | `OneCommandPerTarget`, `ReportedSuccessIsDurable`, implements `ReviewedOperation` |
| `MaintenanceSerial` | 1 call of either tool at a time, with crashes and orphaned backends between | implements `ReviewedOperation`, `CallsEnd` |
| `MigrationStack` | 2 calls, 3 plans of 2 steps, two of them with one name | `BatchesFollowIds`, `ReportIsTrue`, `OnlyLatestRollsBack`, implements `MigrationLedger` |
| `MigrationLive` | 2 calls, 2 plans | `CallsEnd` |
| `AtomicWriteGuarded` | 2 calls of either handler, 2 sessions, 2 statements | `AllOrNothingGuarded`, `SuccessIsCommitted`, `CommitsOwnWorkOnly` |
| `PoolLifecycle` | 3 tasks, 4 pools | `NoReportIsLost`, `NoPoolIsLost`, `OneLifecycleAtATime`, `RequestsAreServed` |
| `Server` | 2 clients, 4 tool names of which one is none, 3 calls | calls: `ActiveIsInFlight`, `LabelsAreBoundedAndKept`, `HistogramIsCumulative`, `OutcomesAreWhatHappened` |
| | 2 sessions, indexes over 2 columns, 4 cost tables, with and without a budget | advisor: `CostsAreOfTheirConfiguration`, `RecommendationsPayWithinBudget` |
| | 4 relations, one with a float4 column, 3 rows, pages of 1 and 2 rows, 2 counting clients, 2 writes that commit or end in doubt | data: `PagesAreExact`, `NoUpdateIsLost` |
| | 11 nodes, all catalogs granted or one hidden, one change during the capture | replication: `AssessmentIsHonest` |
| | texts of up to 6 symbols, drafts of up to 2 steps, 22 relations, tables of up to 3 indexes | answers: `ScannedTextsAgree`, `StoredMigrationsAreAsReviewed`, `StoredMaintenanceIsReviewed`, `DuplicatesAreDroppable` |

The runs of maintenance do not check refinement with two concurrent calls of which
one is `reconcile`, because it does not hold there: see the first finding. It holds when
nobody else is at work while an operator reconciles, which section 4 proves.

`ServerMC` has five parts that share no variable. `Init` chooses the one that runs and
the others stay where they are. Nothing is lost by that: each property
is about the variables of one part, and a behaviour of all parts together is, seen
from one of them, a behaviour of that part with stuttering. The sum of the parts is
checked instead of their product.

**Bounds.** `MaxHold` limits how often a session piles up one re-entrant lock; two is
enough for a lock that is left over and taken again. `MaxId` limits the ledger ids
handed out, two or three: apply, roll back and reapply, with one more row below. Two
steps are enough to tell an order from its reverse. `MaxAffected = 1` has counts below,
at and above the limit and an unreliable one. A pool identity is used again when no task
works with it, so that one more than there are tasks is enough. The names of calls are
used again too: any number of calls follow each other. In `Server`: two
labels (`MaxTools`) and three calls (`MaxCalls`) fill the registry and overflow it, with
names before and after; two boundaries (`Buckets`) have calls below, between and beyond
them. `MaxIndexWidth` of two has a prefix and its extension. A budget of 3 fits one
index but no two; one of the cost tables makes an index worthless without another one
that does not fit beside it. `MaxNoProgress` and `MaxAlternatives` of one give the LLM
search a round with and a round without progress. `MaxResult`, 5 bytes, cuts a page of
two rows of three columns within the limit of two rows. `MaxCursor` of two leaves no
room for a third value. `MaxPages` of four bounds a reading that does not end: of three
rows, the pages of one row each and one that comes again. Two writes
(`MaxWrites`) are enough to remove and reinsert, or to move, a row between two pages; a
counter is raced by one write, or by an increment in doubt. `MaxChanges` of one changes
the node between any two catalogs. Texts of 5 symbols nest comments and continue an
escape string on another line, 6 close a dollar quote with a tag and leave a symbol in
it, or put an escape string behind a dollar sign or a placeholder. `MaxSteps` of two
tells the order of steps. Three indexes make a chain of prefixes and a pair of equals
with a third.

**Symmetry** is used for calls, clients, sessions and tasks, and only where a run
checks no liveness property.

**Fairness.** `CallsEnd` and `RequestsAreServed` are checked under `FairSpec`. In
maintenance and migrations, weak fairness of a call's own step: every
statement is bounded by `asyncio.timeout`, `statement_timeout` and `lock_timeout`. In
`Pool`, weak fairness of what `psycopg_pool` bounds (`BoundedAwait`): `close()` waits
5 s, `open()` does not wait, and the wait for a connection ends with `PoolTimeout`. There
is none of the SELECT 1 of `Verify`, which has no timeout and runs under the lifecycle
lock, and none of the use of a connection, since a query of the unrestricted mode has no
timeout. So `RequestsAreServed` says that nobody waits for ever for the lock or a
connection unless some verification is never answered, and it says nothing of when a
query ends. Weak fairness of `BackendExit`:
`idle_in_transaction_session_timeout` and the server noticing that its client is
gone. Strong fairness of `Lock(t)` in `Pool`: `asyncio.Lock` serves its waiters first
in, first out, and a waiter that is cancelled leaves the queue.

**Deadlock** is checked in every run but those of `ServerMC`: elsewhere the systems
never stop, new calls begin. The parts of `ServerMC` do stop: the calls and writes are
counted, a reading, an analysis and a capture end, and a question is answered once.

### Findings

Runs with `expect: violation` state what a comment or a document says, and TLC shows
a behaviour of the code that contradicts it.

| run | the code |
|---|---|
| `MaintenanceStale` | `reconcile` reads the row before it holds the lock and can overwrite `succeeded` with `reconciled_failed` |
| `MigrationReplay` | a concurrent exact replay waits for the lock with an old snapshot and fails instead of being idempotent |
| `AtomicWriteDoubt` | a COMMIT that fails for the client but took effect is reported as rolled back; in the data operations, as not committed |
| `PoolBound` | a pool wait that times out replaces a healthy pool in use: more than `max_size` connections |

The repair that the models suggest for the first is to read the row again under the
lock; for the second, to take the lock before the first statement that needs a
snapshot; for the third, to treat every exception of `commit()` as unknown; for the
fourth, to say which pool failed and to tell a full pool from a broken one.

Seen while modelling, in the models but without a run of their own:

- a call cancelled between the grant of the lock and `lock_acquired = True`
  (`maintenance/postgres.py:134`, `:308`) returns a session to the pool that
  still holds the lock: calls on other sessions find the target busy until it ends;
- a running row whose INSERT took effect and lost its reply (`:166-170`) is left
  behind a report of `failed` in phase `prepare`;
- a migration that times out reports its rollback as confirmed without looking at
  the result (`migrations/postgres_backend.py:128-134`, `:214-220`);
- the payload of an unknown migration outcome has `committed: false`
  (`migrations/domain.py:93`) and the status `failed`, so that the call counts as an
  error, not as unknown;
- an order over a float4 column is taken for a stable one. The value in its cursor is
  compared as a double, which is not the row's (`data_ops/domain.py:222`): 0.1 is after
  its own cursor, so that its row comes again, on every page of one row; of two rows with
  0.7 the second one never comes. With the premise of `PagesAreExact` left out, TLC
  finds such a reading. A cast of the parameters to the types of their columns would repair it;
- `CREATE INDEX /**/ CONCURRENTLY`, and a CREATE SCHEMA with a CREATE INDEX CONCURRENTLY
  inside, pass as transactional (`migrations/planner.py:159`, `:179`), although
  `docs/migrations.md:17` says that such operations are rejected. PostgreSQL refuses them
  when they run, and the migration is rolled back;
- errors of data operations, migrations and replication never invalidate the pool, so
  that a dead pool stays valid for them until a query fails on it (`sql_driver.py:190`);
- an error that names a relation such as `requires.unrestricted` counts as a denial
  (`observability.py:249`, `data_ops/postgres.py:237`), and to reconcile a failed
  operation as failed again counts as an error, though it did what it was asked
  (`maintenance/postgres.py:319`);
- `analyze_db_health` and `get_top_queries` tell a failure in a text that does not
  start with `Error:`, which counts as a success; a payload of more than 65,536
  characters is not looked into, so that its truncation is not counted;
- hypothetical indexes stay on pooled sessions after `explain_query` and after the
  advisor, whose final reset reaches one session and comes before its last EXPLAINs
  (`index/index_opt_base.py:285`): a plain EXPLAIN on such a session sees them. The
  costs of the advisor are right nevertheless, because each batch begins with a reset;
- the advisor rebuilds its recommendations without `potential_problematic_reason`, so
  that the warning about long texts never appears; without an improvement the LLM
  search recommends the indexes that the plan uses already; it has no `budget_mb`
  unless a maximum size is given, and then fails; indexes left out for the budget are
  part of the progressive costs of those that follow;
- comments of `migrations/planner.py:92` and `:99` call ALTER DEFAULT PRIVILEGES and
  CREATE POLICY "handled below", but their kinds are in the list of the forbidden ones;
  ALTER TABLESPACE is taken for ALTER TABLE by its first letters;
- the scanner differs from the lexical rules in four kinds of text, which `ScannerAgrees`
  names: it takes a dollar sign within a name, as in `a$$`, for the start of a dollar
  quote, and digits for a dollar tag (`sql/transaction.py:257`); it takes the E of an
  escape string directly behind a digit, a dollar sign or a placeholder for the end of a
  name (`:230`), so that a quote escaped by a backslash ends it: `%sE'\''` is read as
  unterminated and `%sE'\'` as complete; and it takes a string that continues an escape
  string on a later line for a plain one. Few statements have a use for these, most of
  which put two constants in a row;
- a standby that feeds standbys of its own cannot be assessed: the statement of
  `replication/postgres.py:70` calls `pg_current_wal_lsn()`, an error in recovery; one
  standby with an empty application_name fails the whole capture; rows beyond the
  limit are not seen, and the assessment may still be "ready";
- views are admitted to selection, but have no unique key, so that no order is ever
  stable for them; columns of types that a cursor cannot hold fail at the first page
  that is cut off;
- an index of an exclusion constraint is reported as unneeded when another one covers its
  columns (`index_health_calc.py:35`), although it cannot be dropped without the
  constraint, which the other one does not enforce;
- a partial index is never reported as covered by a longer one, because its predicate
  stays in the text of its last column (a safe miss).

## 4. What is proved

The theorems hold for every value of the constants that the assumption of the module
they are about allows: any number of calls, sessions, plans, names, targets and steps.
In the modules of maintenance, migrations, writes and the pool the sets need not be
finite; their `ConstantsAssumption` says that names and targets are functions of
plans, that bounds are natural numbers and that "none" is not a member of what it
stands for.

**`MaintenanceProofs`**, in six layers.

1. `BaseInv` strengthens `TypeOK`, which is not inductive: an unlock lowers a lock
   count and must know that it is positive (`HoldsLock`), for which sessions must
   belong to one call (`OwnersDistinct`) that has not lost them (`OwnedIsLive`); a
   status write keeps the plan of a row and must know that there is one
   (`RowKnown`). Results: `TypeCorrect`, and `WritesAreLocked`: the writer has found its
   own plan in the row (`RowKnown`) and holds that plan's lock (`HoldsLock`).
2. `LockInv` says that a lock has at most one session, and that a backend that
   executes a command holds its target's lock, with or without a client, because
   the lock belongs to the session and goes with it. Result: `MutualExclusion`.
3. `RowInv` relates the ledger to what happened, for each call by its program
   counter, for each executing backend, and for each row. Two calls that may write
   one row have the same plan, hence the same target, hence the lock keeps them
   apart (`AloneLemma`); `reconcile` is the exception, which decides by a status it
   read before the lock, so nothing is claimed of what IT writes. Results:
   `LedgerIsTrue`, `ExecutionsAreRecorded`, `NoSilentRetry`.
4. `AckInv` says that the call that reports a success still holds the lock while its
   row says succeeded, and that a call past `RecordRunning` never has a name whose
   success was reported: it would have had to restart a row that says succeeded, or to
   insert one that exists. Of `reconcile` it says that what it read before it had the
   lock is still so (`Fresh`), which is true only when nobody writes the row meanwhile.
   Result: `ReportedSuccessStands`, of every behaviour in which no other call is at work
   while an operator reconciles (`ReconcilesUndisturbed`); in others it is false, as
   `MaintenanceStale` shows.
5. `SettleInv` says that a call that settles its attempt finds its row running, or, when
   a cancelled write took effect after all, succeeded; then every step of the detailed
   model is a step of `ReviewedOperation` for one name, or none. Result:
   `UndisturbedCallsAreReviewedOperations`, of the same behaviours, and what follows from
   it for the two runs: concurrent applies without reconcile
   (`AppliesAreReviewedOperations`), and calls of either tool one after the other
   (`SerialCallsAreReviewedOperations`).
6. What can be proved of `CallsEnd`: each step of a call takes it to a later statement
   (`Stage`) or ends it, and nobody else takes it back. Result: `NoStatementTwice`. That
   there is such a step, and that it is taken, is ENABLED and fairness.

**`MigrationProofs`** has one inductive invariant, `Inv`. Beyond types: a ledger and
every snapshot of it have one row per name and ids below the next one
(`LedgersOk`); what a call found in its snapshot still holds of the snapshot
(`Checked`); the row about to be committed is above everything in the snapshot, or
is its latest (`RowPrepared`); nobody claims an outcome before it is known
(`NothingClaimed`). At COMMIT, `Serializable` makes the snapshot equal to the
ledger, so that what is true of the one is true of the other. The advisory lock is
not used in this part: it spares the calls serialization failures, and the
isolation level alone carries the results. Results: `TypeCorrect`,
`BatchesInOrder`, `ReportsAreTrue`, `LastInFirstOut`.

The refinement needs `LedgerInv` as well: the schema is the steps of the rows, block by
block in the order of their ids (`SchemaFits`), and the work of a transaction is the
schema with the steps of its plan that were executed so far, or without those that were
compensated (`WorkFits`). Here the lock matters: a transaction that has looked at the
ledger holds it until its end (`LockHeld`), with or without its client, so nobody else
changes the schema that its work began with. A COMMIT is then a push or a pop of
`MigrationLedger`, and every other step a stutter. Result: `MigrationsAreAStack`.

Of `CallsEnd` two parts are proved: a call goes on from statement to statement and from
step to step of its plan (`NoStatementTwice`), and the lock that it may wait for belongs
to a transaction that has not ended (`LockIsGivenBack`).

**`AtomicWriteProofs`**: `Inv` says of each call at work that its transaction, on its
session and nowhere else, has exactly its first `step` writes, all within their guards
(`Works`), and of a transaction whose COMMIT lost its client that it is complete and
that its call never goes on with it (`LimboIsComplete`), so that whoever commits,
commits all or nothing. That idle sessions are clean (`IdleIsClean`) rests on the
pool's rollback in `Return` and on the end of backends without a client. Results:
`TypeCorrect`, `GuardedWritesAreAtomic`, `SessionsAreClean`, `SuccessesAreCommitted`.

**`ServerProofs`**: `Inv` says, beyond types, that the named labels are within
`MaxTools` (`Room`), and of each name that was counted that its label is there, or that
its label is not there, the overflow label is, and no room is left, which stays so
because labels are never removed (`Kept`). `ActiveIsInFlight` is inductive with the
type invariant: a finished call is in flight, so its label's gauge is above zero and the
`max(0, active - 1)` of the code never cuts. The answers of the handlers do not matter
to these: `FinishInv` holds for any outcome. Results: `TypeCorrect`,
`ActiveCallsAreCounted`, `LabelsAreBounded`, `HistogramsAreCumulative`, under
`RegistryAssumption`: finitely many clients and names, at least one label.

The outcomes are another matter. `AnswersTell` goes through every class of tools and
every answer of its handlers, with any wordings in its errors (`ErrorsTell`): what
`ClassifyToolResult` makes of it is what `OutcomesAreWhatHappened` says of what happened
(`RightOutcome`). The totals are sums over the labels that are there, which
change by one under one label (`TotalChange`); `OutcomesInv` is inductive with `Inv`.
Result: `OutcomesAreCounted`.

**`PartsProofs`**, one section for each part.

- *Index advisor.* `CostsAreOfTheirConfiguration` is inductive as it stands, because
  `Present`, a batch that begins with `hypopg_reset()`, does not depend on the session;
  the theorem `CostsAreTrue` is the reason why the leftovers above do no harm here.
  `AdvisorInv` says of the greedy search that its configuration, and the one with the
  best candidate so far, are `Worthwhile`: of candidates, within the budget, and a tenth
  cheaper than none (`Searching`); and of the report that it has all indexes so far,
  each compared with the ones before it (`Chained`). It leaves none out, because a part
  of what fits the budget fits it (sums of sizes are monotone). Result:
  `RecommendationsPay`, under `CandidatesAssumption`: each configuration of candidates
  has a cost and each candidate a size. It says nothing of the LLM search, which
  promises none of this.
- *Replication.* `ReplInv` says of each catalog that was read that the role may see it
  or that it is listed as unavailable, and that its rows, up to the limit, are in the
  snapshot as they were when it was read (`Captured`), which later reads and changes of
  the node leave alone; `Assess` then finds whatever is trouble in them
  (`NoFindingNoTrouble`). Result: `ReadyIsHonest`, for any nodes, rights, limits and
  thresholds.
- *Counts.* `CountInv` adds to `NoUpdateIsLost` that every row has a key of its own with
  a count (`KeyIdentifies`). An increment that affects its one row finds the counter as it
  was read, since the concurrency condition is part of WHERE; inserts and upserts start
  new keys at zero and leave counters alone; an increment in doubt raises the counter or
  leaves it, and its own count in either case. Result: `UpdatesAreKept`, under
  `CountersAssumption`: a key that is part of every unique key, a counter that starts at
  zero and that no other request writes.
- *Pages.* A stable order, of columns that are not null and include a unique key, is a
  strict total order on the rows (`BeforeIsTransitive`, `BeforeIsTotal`, `StableRows`),
  so that there is one listing of them (`ListingExists`, `RowsInOrder`) of which a page
  is a prefix (`SelectedIs`). `PagesInv` adds to `PagesAreExact` that the cursor is at
  or behind every row that was received, and that a row that lasts was received or is
  after the cursor (`CursorIsReached`), when the columns of the order return exactly
  (`BoundIs`); what is said of each page by itself needs no such premise. Every mutation
  keeps the rows typed, finite and unique (`Written`) and cannot make a row last that
  did not. Result: `PagesAreRight`, under `ValuesAssumption`: values are integers or
  `Null`, tables are finite, and the two brackets of an empty page fit into a result.
- *Duplicate indexes.* Of the indexes that cover a reported one, one is highest in the
  order by which the check prefers one of two (`UnneededIsLower`, `HighestExists`); it is
  not reported itself, and covering is transitive, so that it serves what the others did.
  Results: `DuplicatesAreSpare`, `ReportedIndexesAreSpare`.
- *Plans.* Hashing is injective (`HashedMigration`, `HashedMaintenance`), so that a
  plan restored under the digests of another is that one; the fields that are restored are
  those that were hashed. Results: `LedgerKeepsMigrations`, `LedgerKeepsMaintenance`,
  `StoredMigrationsAreVerified`, `StoredMaintenanceIsVerified`. There is no theorem that
  the planner's list of first words is conservative: it is not, as section 3 says.
- *Scanner.* `GivenTextsAreScannedRight`: the texts of `ServerMC` are texts, to which
  `ScannerIsRight` applies.

**`ScanProofs`** is about texts of any length over any symbols. The scanner goes from
symbol to symbol; the rules say where each lexeme ends. `ScanInv` relates the two: after
any number of steps the scanner is where a lexeme begins, or within one whose end the
rules put at or behind its place, and the placeholders it has found are those of the
lexemes before that place. `ScanStepKeeps` has a lemma for each kind of lexeme: in a
quote the quotes and backslashes so far have the parity that the rules count
(`QuoteGoesOn`), a comment of the depth that the scanner is in ends where the rules say
(`CommentGoesOn`), a dollar quote ends at the first of its tags (`DollarGoesOn`), a name
or a line at its last symbol (`NameEndIs`, `LineGoesOn`). Each step takes a symbol or
more, so that the scanner is at the end after as many steps as there are symbols
(`ScanEnds`). That the recursive functions of both sides are what their definitions say
(`ScanUnfolds`, `CommentEndsUnfold`, `LexemesUnfold`), and what holds of all places,
needs induction along the text; `Forwards` and `Backwards` give it for sets of places,
since the library's theorem takes a predicate. Result: `ScannerIsRight`, for every text
but the four kinds that `ScannerAgrees` leaves out, for which it is false.

**`SumTheorems`**: sums over finite sets, as `MapThenSumSet` computes them, exist, do
not depend on the order and change with one term. The recursion of a sum and a listing
of a set call for induction over finite sets. The library's theorem takes a predicate as
a parameter, which the provers cannot instantiate; `SubsetInduction` takes a set
instead, and is proved from the well-foundedness of the strict subset relation by a
minimal counterexample (`MinimalSubset`).

**`PoolProofs`**: `Inv` says that a task at work on the lifecycle of a pool has the lock
and that the flag is down meanwhile (`HoldsLock`), so that no request gets the candidate
into its hands (`Candidate`). That is why `mark_invalid`, which does not say which pool
failed, never leaves the flag up for a pool that was reported: while a candidate is
verified nobody else can report it, and afterwards any report lowers the flag. It says
nothing of failures that are not reported. Results: `TypeCorrect`,
`LifecycleIsExclusive`, `ReportsAreKept`, `PoolsAreKept`; and of `RequestsAreServed`,
that a task goes on from await to await (`NoAwaitTwice`) and that the lock it may wait
for belongs to a task at work (`LockIsGivenBack`).

The results about maintenance rest on the model of PostgreSQL's advisory locks, those
about migrations on its serializable isolation and, for the refinement, on its advisory
locks too, those about guarded writes on the atomicity of its COMMIT, those about pages
and counts on its unique keys and its ORDER BY, those about plans on digests without
collisions, and those about the pool on asyncio's lock, as the modules
state them. TLC evaluates each assumption on its instance in every run.

Every safety property and both refinements that the runs check are proved. Only
model-checked is liveness (`CallsEnd`, `RequestsAreServed`), which needs fairness and
ENABLED, beyond the theorems above on calls that go on and locks that are given back.
`IsReviewedOperation` is not proved for calls that disturb a `reconcile`: it is false of
them.

## 5. Not modelled

- The text of SQL, plans, hashes and error messages: a plan stands for its review
  hash, an error for the class its handler tells apart.
- DDL by others on a maintenance target between its verification and the command,
  and a REINDEX that gives the target a new oid (listed as hazards).
- Isolation between data writes: `AtomicWrite` is about the atomicity of each
  transaction and about certainty, not about serializability, which is PostgreSQL's.
- Two server processes share the database in `Maintenance` and `Migration` as two
  calls do; `Crash` ends all of them at once.
- The statement policy (`sql/safe_sql.py`, `sql/query_guard.py`), bind parameters and
  the column finder of the advisor: recursive walks over pglast's parse trees with long
  lists of node types and functions. A small set of trees would repeat the lists, and
  a faithful one is the parser's grammar.
- The encoding of values in results and requests; of cursors, whether a value has an
  encoding, its size, and whether it comes back as it was, each as a fact of its type.
- What a REINDEX CONCURRENTLY leaves when it fails late: a `refused` command is taken to
  have had no effect, though such an index may already be swapped.
- Trouble of the node as a whole in `AssessmentIsHonest`: a paused replay, the lag of the
  node itself and a missing synchronous standby are in `Assess`, but the property demands
  only that hidden or failed catalogs and troubled rows are not passed over.
- Requests that arrive while the server shuts down: a pool they open is not closed by
  anybody (`server.py:1395`); the process ends right after.
- The HTTP exporter of the metrics and the text format: reading without state.
- The catalog, extension, provider and schema tools: single read-only queries rendered
  as text; what `Server` says of them is how their answers are counted.

## 6. Plan

Done, in this order: `Maintenance` with its abstraction and its proofs; `Migration`
with its abstraction and its proofs; `AtomicWrite` and `Pool` with their proofs;
`Observability` and `Server` with their proofs, `DataOps`, `Advisor`, `Replication`,
`Plans`, `SqlScan`, `IndexHealth`; the two refinements, and the proofs of all parts.
Left:

1. `MaintenanceOverPool`: maintenance calls on the sessions of a pool that is
   invalidated and replaced.
2. A target of maintenance that is dropped, recreated or given a new oid between its
   verification and the command.
3. The statement policy of `sql/safe_sql.py` over small parse trees.
