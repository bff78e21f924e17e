# A verification of the AI voice agent backend

TLA+ specifications of the concurrent core of this repository and of the
process around it, the TLC configurations that check them on small instances, and TLAPS proofs of what
holds for any number of workers, keys, callers and attempts.

Contents

1. The system: parts, state, operations
2. What is hard, and what must hold
3. The modules
4. The runs, their bounds and what they show
5. Fairness
6. The proofs
7. Disagreements between the code and what it says of itself
8. What is not modelled
9. Plan

## 1. The system

The repository is the backend of a multi-tenant voice agent: it calls people
through a telephony provider, leads the conversation along a workflow graph,
and bills tenants. Its program is in two places. The Python of
`src/backend/voice_agent` holds the process: settings, logging, the database
engine and Redis client, the request transaction, the migration gate and the
health endpoints. The domain logic is in PL/pgSQL,
`src/docs/phase-05-database-design/5K/migrations/*.sql`: guarded functions
that alone may write the tables, each written to be right under concurrent
calls. The API documents in `src/docs/phase-06-api-design` state what these
functions promise and who calls them.

| Part | State | Operations | Module |
|---|---|---|---|
| Outbound call dispatch (`099_5C1.sql`) | `call_dispatch_keys`, `call_sessions`, audit events | initiate, claim, begin, record confirmed / ambiguous / failed, reconcile | `VoiceDispatch` |
| Side effects and checkpoints of a workflow execution (`100_5G1.sql` A, B) | `node_execution_claims`, `workflow_executions` | claim, begin, record, checkpoint, complete, fail | `NodeExecution` |
| Workflow definitions (`100_5G1.sql` C, E, F, `040_5G.sql`) | `workflow_definitions`, `workflow_versions`, `workflow_executions` | edit, publish, archive, start, end | `WorkflowLifecycle` |
| Infrastructure runtime (`runtime.py`, `redis`, `db/session.py`) | `_state`, `_database`, `_redis`, `_release_task` | start, stop, release, cancellation | `InfrastructureRuntime` |
| Request path (`apps/api`, `db/session.py`, `db/errors.py`, `error_handler.py`, `health.py`) | context variables, pooled connections, one transaction per request | correlate, route, acquire, commit, roll back, answer, probe | `RequestPath` on `DatabaseErrors`, `ErrorCatalog` |
| Migrations and start-up (`scripts/db_migrate.py`, `5K/alembic`, `migration_graph.py`, `schema_baseline.py`, `platform/config`) | the schema, `alembic_version`, extensions; the package on disk | graph, check, gate, upgrade, set a password, start | `Deployment` on `MigrationGraph`, `Settings` |
| Logging and redaction (`redaction.py`, `logging.py`) | the event produced last in a thread; budgets within a call | log, nest, reconfigure, sanitise, render | `LogPipeline` on `Tracebacks`, `Redaction`, `TextRules`, `JsonText`, `TextPairs` |
| Payment settlement (`102_5H2.sql`, `057_5H.sql`) | attempts, receipts, payments, invoices | link, receive, process, apply, refund | section 8 |
| Campaign dispatch (`098_5E1.sql`) | campaigns, contacts, reservations | enqueue, reserve, release, pause, stop | section 8 |
| Knowledge reindexing (`088_5F8.sql` and after) | knowledge bases, documents, versions | begin, complete, fail a reindex | section 8 |
| Agents and quota (`110_5C2.sql`), OAuth and webhooks (`101_5I1.sql`), CRM, support access, plans, analytics, audit | single rows | single guarded updates | section 8 |

How they interact. An API process or a Celery worker calls the functions in
short transactions of its own, and calls the provider, a tool or a webhook
*between* two transactions, never inside one. Two workers meet only in the
rows: a claim is `claimed_by` with `claim_expires_at`, ownership is a
predicate of an UPDATE, and a lock is `FOR UPDATE`, `FOR SHARE` or an advisory
lock held to the end of the transaction. Voice starts a workflow execution at
call set-up (`fn_start_workflow_execution`), evaluates one turn after another
with its state in Redis, and checkpoints each turn through a queue. A process
owns its connections through one `InfrastructureRuntime`. A deployment upgrades
the database, runs the gate against it and starts processes, each of which
verifies the database again; an operator may do any of it at the same time.
Every part logs, from every thread, through the one pipeline of `logging.py`,
with whatever handlers a library has added before the pipeline's own.

## 2. What is hard, and what must hold

`PROJECT.json` lists the hazards at their lines. They fall into these groups.

* A worker dies, or its lease lapses, between the commit that allows a call
  and the one that records it. The phone must not ring twice, a side effect
  must not be repeated, and the row must not be stuck in doubt.
* The answer of the provider is lost, late, or reconciled by somebody else
  while its worker is still writing.
* A check and the write that relies on it are two statements: a claim reads
  the execution, a start reads the definition, a publish reads the draft, a
  reconciliation reads the old state.
* `NOW()` is the start of a transaction, so a lease or an ETag may be compared
  with an instant that has passed by the time the row lock is granted.
* Checkpoints arrive late, twice and out of order, from evaluations that were
  abandoned and repeated.
* A request is answered before, or in spite of, what became of its
  transaction; it is cancelled with a connection in hand; a shutdown begins
  under a probe; the failure of one dependency is taken for another's.
* A migration is killed between two commits, or runs beside another one, or
  against a database that was not migrated by Alembic; a tool connects
  elsewhere than its URL says.
* A secret is in a text that one writer has quoted and another has quoted
  again; limits drop part of an event; another handler has changed the event
  that was sanitised; another thread has logged in between.
* `stop()` is called by several tasks, cancelled in the middle, or meets a
  close that fails or hangs.

What makes each part correct: one call per dispatch key, and a reported call
is a real one; a side effect of a turn happens once, and the stored history
names only what happened; a session runs one execution, of a version that was
published, and a version contains what its author saw; every connection the
process opened is closed by the time it says `STOPPED`; an answer says what
became of the transaction; the newest version row tells what the schema is; and a log
line shows no secret, hides no gap and has the server's own metadata.

## 3. The modules

    CallOnce                  what dispatch and side-effect claims promise
      ^            ^
      | implements | implements
    VoiceDispatch  NodeExecution   WorkflowLifecycle   InfrastructureRuntime

    RequestPath   extends   DatabaseErrors, ErrorCatalog
    Deployment    extends   MigrationGraph, Settings
    LogPipeline   extends   LogValues
    Tracebacks    extends   Redaction > TextRules, JsonText > TextPairs > LogValues

      MC*        the instances that TLC checks; MCLogPipeline extends LogPipeline
                 and Tracebacks, and gives the one what the other defines
      *_proofs   the theorems; NumberInduction holds the principle of induction
                 that Deployment_proofs and LogPipeline_proofs need

A table is a function per column, from the row's key; a table that only grows
is a set of records. A function of the migrations that is one guarded UPDATE
is one action: PostgreSQL evaluates the WHERE clause again on the row that it
has locked. A function that reads under a lock and writes later is two
actions, with the lock as a guard of everything that conflicts, because the
question is whether the lock is enough. A function that reads without a lock
is two actions with no guard between. What happens in no transaction, the call
to the provider for one, is an action of its own, and so is the crash of a
worker between any two of its steps. Tenant checks, and arguments that raise
before anything is written, are left out.

**`CallOnce`** is abstract. A key has outstanding, answered and confirmed
requests; at most one is outstanding, none follows one that rang, and only a
key that rang is confirmed.

**`VoiceDispatch`** is `099_5C1.sql` and its caller contract. `Initiate` is
`fn_initiate_outbound_call_idempotent` (the insert that wins, or the replay,
mismatch or refusal of one that loses); `Claim`, `Begin`, `RecordConfirmed`,
`RecordAmbiguous`, `RecordFailed` are the functions of these names;
`PlaceCall`, `CallReturns` and `ProviderAnswers` are the world between them;
`GatherEvidence`, `ReadOldState` and `ReconcileOutcome` are a reconciler,
whose function reads the old state without a lock. `requests` is what the
provider did with the request of each attempt: no row shows it, and the
properties are about it. A reference is the number of its attempt; an error
text is `null`, `blank` or `text`, which is all that the CHECK on it tells
apart. `LateVerdicts` says whether a verdict on one attempt may be recorded
after the row was settled and claimed again; nothing in the table prevents it.

**`NodeExecution`** is parts A and B of `100_5G1.sql`. The claim of a side
effect is identified by the turn and the node. `ReadExecution` and `Claim` are
`fn_claim_node_execution` with its `FOR SHARE` lock between; `RowFree` makes
checkpoints and the end of the execution wait for it. Redis (`hot`), the queue
(`jobs`) and the runtime that evaluates turns are external: the hot state may
be lost at any time, a job is delivered any number of times in any order, and
a worker may evaluate a turn that another one is evaluating. A worker that
mistakes a lost answer for a failure and reports it is included
(`RecordFailed` from `unknown`).

**`WorkflowLifecycle`** is parts C, E and F. `LockForPublish` and `Publish`
are `fn_publish_workflow` before and after its checks; `ShareDefinition`,
`LockSession` and `Start` are `fn_start_workflow_execution` with the row lock
and then the advisory lock; `Edit` and `Archive` are UPDATEs that wait for
either. `updated_at` is the ETag, and every write stamps it with the `NOW()` of
a transaction that began at some earlier time. A graph is named by the instant
of its edit. No two transactions of authors begin in one microsecond; an equal
instant is the one case in which an ETag cannot tell two drafts apart.

**`InfrastructureRuntime`** is `runtime.py` with `RedisClient.close` and
`Database.dispose`. It is asyncio, so an action is what a task does between
two awaits. Callers call `start()` and `stop()` again and again, are cancelled
while they wait, and join the release task; a start may fail before it owns
anything (`NothingCreated`) and goes through the release all the same. The
release task goes through
Redis and then the database, each of which closes, fails or times out; event
loop teardown may cancel the task. `retry` is a history variable that only
`StopRetries` reads.

**`RequestPath`** is a request from `CorrelationIdMiddleware` to its answer. An
action is what a task does between two awaits: it acquires a connection,
returns from the endpoint, commits, rolls back, raises, is answered by one of
the exception handlers or by `UnhandledErrorMiddleware`, or pings PostgreSQL
and Redis for `/health/ready`. Each may fail in every way that `db/errors.py`
tells apart (`DatabaseErrors`: an exception is the chain of links behind it)
and `ErrorCatalog` says what is answered. A request may be cancelled anywhere;
its session is then closed by a task of its own (`ConnectionClosed`). `Shutdown`
is `InfrastructureRuntime.stop` as a request sees it. `truth`, `tx` and `probed`
are history: what really went wrong, what PostgreSQL did, when a probe began.

**`Deployment`** is `db_migrate.py` command by command, with Alembic inside
`upgrade` (`AlembicStarts`, `_ensure_version_table`, `Apply`, `Record`,
`CommitRevision`) and the checks of a starting application. One action is one
statement or transaction; operators interleave, and each command may fail or be
killed at any point. A revision whose SQL file commits by itself is durable after
`Apply`, before its row is. Alembic reads the version table once, and what it then
writes is different for the root revision and for the others: the root's row is
inserted, whatever rows there are by then, and only the primary key of
`alembic_version` can refuse it; a later revision updates the row of the one before
it and fails unless exactly one row matches. No lock keeps two upgrades apart. So
an upgrade that read an empty table, and is delayed while another one migrates, may
run the root again (`001_5B.sql` can run twice: `Repeatable`) and leave its row
beside the newest one. Its CREATE OR REPLACE then puts back what a later revision
has redefined (`Redefining`, as `gen_uuid_v7` and `is_platform_admin` are);
`reverted` says of which revisions that is so. `Settings` is what `platform/config` accepts and where asyncpg, Redis
and libpq connect with it; `MigrationGraph` is `migration_graph.py`, with the
walk of `_walk_chain` as a recursive function. An environment, a URL and a
server are records of representatives: one of each kind the code tells apart.

**`LogPipeline`** is `logging.py`: a call becomes an event (first pipeline), the
event a record, the record a line (final pipeline). Between the two pipelines
another handler may change the event, log by itself or log that event again;
other threads log, and `configure_logging` may run again; a record in progress is
then written by the handler it was on its way to or by the new one. What each pipeline
does to an event is computed by operators. `TextPairs` is the key/value scanner
of `redaction.py`, `TextRules` its rules for bearer tokens, URLs and
authorities, `JsonText` Python's `json`, `Redaction` the sanitiser of values
and events with its one budget, `Tracebacks` the traceback builder. A text is a
sequence of symbols: a symbol is a character the scanner asks about, or a word
it reads as a whole, `s` a piece of a secret, `k` a word that names one. The
operators of the rules, the sanitiser and the tracebacks were compared with the
Python functions on random texts and values. `LogPipeline` knows of none of
this: it takes what it calls as constants that are functions, and
`MCLogPipeline` gives it `sanitize_event`, `sanitize`, `is_identifier`,
`traceback_text`, `stack_text`, `json.dumps` and `str` for them. `LogValues` has
the values that both sides speak of. So the pipeline can be reasoned about
without the recursion of the redaction, and TLC does not unfold the redaction at
each of its uses.

## 4. The runs

Each property has a mutant in `PROJECT.json`: a change to one definition that
a plausible mistake in the code would make, under which the same run fails.

**`voice_dispatch`** (`VoiceDispatch.cfg`). One key, two tenants, two request
payloads, two workers, two reconcilers, two attempts, timely verdicts. One key
is enough, for no statement joins two rows and sessions are the only shared
thing (fresh identifiers). Two workers and two attempts are the double dial:
one worker loses its claim, the other dials. Two reconcilers race for a row.
Checks the inductive invariant; `AtMostOneCall`, `RetryableIsQuiet`,
`ConfirmedIsReal`, `OneSessionPerKey`; the action property
`SettledByHolderOrAudited`; and `CallsOnce`, that the table implements
`CallOnce`.

**`voice_settled`** (`VoiceSettled.cfg`). Verdicts may be late, three
attempts, one reconciler, under fairness. `DoubtIsSettled`: no row stays
`SUBMITTING` or `AMBIGUOUS`. `SecondCallIsAudited`: what late verdicts can
break. A second ring is possible then, but never without an audit event that
says a reconciler declared the call failed; leases and crashes alone cannot
cause it. Three attempts allow a verdict to be late by two.

**`node_execution`** (`NodeExecution.cfg`). Two workers, one node, two turns,
two invocations. Two turns are a checkpoint that is late and one that is next;
two invocations are the repeated side effect. `EffectAtMostOnce`,
`ClaimsTellTheTruth`, `HistoryIsReal`, the action properties `ClaimsAreCurrent`
and `CheckpointedOnce`, and `EffectsOnce`, the same `CallOnce` with claims for
keys. The execution may end and the bounds may be spent, so it may stop.

**`workflow_lifecycle`** (`WorkflowLifecycle.cfg`). Two authors, two callers,
one definition, one session, three author transactions, two executions. Three
transactions are the least in which a publish, an edit with an older stamp and
a second publish meet; two callers race for the session; two executions are a
session that starts again. The clock is bounded, so it may stop.
`OneActivePerSession`, `VersionsInOrder`, and the action properties
`StartsArePublished` and `PublishesWhatWasRead`.

**`runtime_release`** (`Runtime.cfg`). Three callers and two release tasks,
under fairness: one that starts and two that stop, or the reverse; a second
task is what a retry after a failed release needs. `NoOrphan`,
`StateIsHonest`, `OneRelease`, `NothingSkipped`, the action property
`NotAbandoned`, and `CallersReturn`. Deadlock is checked.

**`request_path`** (`RequestPath.cfg`). Two tasks, two requests each, a pool of
one connection, under fairness. Two tasks and one connection are the request
that waits for another's connection; the second request of a task is the one
that may inherit a context. `HonestAnswer`: success means committed, an error
other than `DEPENDENCY_UNAVAILABLE` means not committed, ready means that both
probes answered and began before their dependency was closing.
`OutageMeansOutage`, `AnswersAreTraceable`, the invariant `Inductive` (the pool
is accounted for, the place of a request tells the state of its transaction)
and `RequestsEnd`. Tasks stop when their requests are spent.

**`deployment`** (`Deployment.cfg`). Two operators, three revisions (the second
creates an extension and redefines what the first defines, the third commits by
itself, the first can run twice),
every database those can leave behind and every package that deviates from the
frozen one in its wiring, its files or its bytes. Operators are symmetric: no
action names one. Two operators are two upgrades at once, or a gate beside an
upgrade; three revisions are a root, an ordinary one and a head. Among the states
reached are the late root: its row beside that of the second revision or of the
head, after a gate has passed, with the second revision's definitions undone, and
two transactions that each hold a row. `Inductive`
(the newest row and the objects agree, no row is written by two transactions, what
a command has read lasts, a second row is a late one, and where definitions are
undone there is one); `HeadIsTrue`; `ConnectsAsDeclared`; `ChainIsLinear`. A
package other than the frozen one is combined with an empty database only,
because no command that reads such a package reaches the database.

**`log_lines`** (`LogPipeline.cfg`). Some two thousand situations, each a short
script that TLC runs in every order: seven writers (JSON, JSON in JSON, JSON in
a string, libpq, a quoted pair, the `repr` of a dict and of a tuple) with 162
contents around the secret, 31 other grammars, at each of the seven places a
text can be (event, field, exception, argument, message, context variable,
assembled traceback); fields up to and past every limit, from the call, from
`bind` and from the context; reserved and identity names; chains, groups and
unprintable exceptions with stacks; format templates; shared, cyclic and broken
containers; two threads and two configurations; a handler that tampers, logs
and forwards, within a request, and outside one in a context that has an id
bound to it. The limits are small in the proportions of the code (3 items for
200, 40 nodes for 2048, 400 of output for 65536, 100 for 16384 of a string, 90
for the traceback), so that each is hit by some situation and a traceback still
fits in an event as it does there. `MaxNesting` is two records in progress in
one thread, and another handler disturbs a record once: a record that is
disturbed is promised only what holds for any event. `NothingSecretIsWritten`,
`LineTellsTheCall`, `MetadataIsEstablished`. A script comes to an end, and so
may the run. The scripts are literal, not drawn from a generator: what a writer
or a grammar outside them does is not covered.

**`voice_failure_report`, `node_equal_checkpoint`, `workflow_retry`,
`runtime_retry`** are expected to fail: section 7.

## 5. Fairness

Only `voice_settled`, `runtime_release` and `request_path` use it, and only their
liveness properties depend on it.

* `VoiceDispatch`: a worker that is running takes its next step or crashes;
  the provider answers what it was sent; the reconcilers, which are the
  callback handler and the periodic lookup job of the migration's cases B and
  C, keep running. No fairness on claims: nothing obliges a worker to retry.
* `InfrastructureRuntime`: the event loop runs what is ready. A step of the
  release task ends because each is under `RELEASE_TIMEOUT_SECONDS`: a close
  that never completes is the failed step, and no fairness says that one ever
  completes. Nobody need call again, and nothing need be cancelled.
* `RequestPath`: each await of a request ends, because the pool, the connect,
  the command and the probes have timeouts and the server has one for a
  response: the failing action is then the step that is taken. The task that
  closes a cancelled session ends as well. Nothing need arrive or be cancelled.

## 6. The proofs

Everything below is proved for all values of the constants, which the named
assumptions restrict only as far as the code does (bounds are naturals, NULL
is nobody's name). Of every module but `LogPipeline`, the run's `Inductive` is
a theorem, `Spec => []Inductive`, and the properties follow from it; the
invariants of `LogPipeline` are about its constant functions and stay in its
proofs. That every safety and action property was first checked by TLC is what
makes an invariant worth the proof; that it is proved is what makes the bounds
of the run harmless.

*`VoiceDispatch_proofs`* begins with what holds however late a verdict is.
`RecordsInv` says what every step keeps: a reservation, its session and the
answers to its callers agree; an attempt is audited once and makes one request;
what a worker knows is the answer to its own attempt, which is the row's current
one while the worker holds the row (`WorkerInStep`); evidence that a call was made
is of a call that was. From it `ConfirmationIsReal` and `SessionsAreOne`, and the
action property `SettledOnTheRecord`. A second ring needs more: `UntilFailed` says
that a key of which no verdict has ever been FAILED is in step (`KeyInStep`: only
the current attempt can be alive, and only in `SUBMITTING`, `AMBIGUOUS` or
`CONFIRMED`; a worker about to dial holds the row). So two rings need a
reconciliation to FAILED on the record, which is `SecondCallsAreAudited`.

It goes on with timely verdicts (`~LateVerdicts`, in the statements of the
theorems that need it). `AtMostOneCall` is not inductive: that the phone did not
ring twice says nothing of a request on its way. `CallInv` has every key in step
and `VerdictSound` (a verdict of failure on the current attempt means it can no
longer ring). A claim raises `attempt_count` only from states in which every
request is dead, so an older attempt is dead for ever. `CallsAtMostOnce` and
`RetryIsSafe` follow, and `ImplementsCallOnce` maps each step to a step of
`CallOnce` or a stutter.

*`NodeExecution_proofs`.* `NodeInv`: there is no invocation but the first,
because a worker past the boundary holds its claim in `SUBMITTING`
(`WorkerInStep`) and no function takes a `SUBMITTING` row from it, whatever its
lease; what Redis, the queue, the row and the workers know of was recorded as
`SUCCEEDED`, which is final; and a claim that is between its two steps has the
execution locked. From it `AtMostOnce`, `ClaimsAreTrue`, `HistoryIsTrue`,
`ClaimsStayCurrent`, `CheckpointsAreOnce`, and the refinement
`ImplementsCallOnce`.

*`WorkflowLifecycle_proofs`.* `VersionsInOrder` and `PublishesWhatWasRead`
rest on what an ETag means. `StampsAreFresh`: a transaction in flight has a
`NOW()` that nobody has seen and nobody else will write. Then an ETag, once
passed, never comes back, although `updated_at` may go backwards; so
(`EtagTellsAll`) as long as the ETag an author saw is current, the draft is
the one that author saw and everything published is older than the author's
transaction. `PublisherIsAlone` carries that from the lock to the commit.
`CallersHold` is what a start keeps: its version exists, the definition it
shares is not archived, and what it looked for under the advisory lock is
still as it found it. From the invariant: `OneActive`, `VersionsAreInOrder`,
`StartsPublished`, `PublishesRead`.

*`InfrastructureRuntime_proofs`.* `RuntimeInv` ties the state to the
references, the references to the resources, and the release tasks to both
(nothing may be owned while the state is STOPPING, but only if the last release has
not begun or was cancelled):
tasks are created in order, only the last can run, it is closing what it says
it is, and nobody waits for a task that does not exist. From it
`NothingOrphaned`, `ReleasesAreShared`, `ReleasesSkipNothing`,
`StateMeansWhatItSays` and `CallersAreNotAbandoned`.

*`RequestPath_proofs`.* First what the classification of failures returns: for a
chain of one, two and three links `is_database_unavailable` is unfolded
(`OneLink`, `TwoLinks`, `ThreeLinks`), and from there each failure the model
raises is shown to tell what went wrong (`StatementTells`, `CommitTells` and
their like), through `TransactionRaises` and the exception handlers. The
assumption `ChainsAreSeen` (`MaxChain >= 3`) is the code's `_MAX_CHAIN = 8`
(`db/errors.py` 60) against chains of at most three. Then the invariant: the place
of a task tells the state of its transaction (`TransactionInStep`), of its request
(`RequestInStep`) and of its failure (`FaultInStep`). The three promises to the
client are kept together with it, because an answer is composed from what was
known some steps before. A step of one task is shown to leave every other's part
alone (`KeptInStep`), so that each action is looked at for its own task only.
Theorems `RequestInvariant`, `ConnectionsAreAccounted`, `AnswersAreHonest`,
`OutagesAreTold`, `AnswersHaveTheirId`.

*`Deployment_proofs`.* That the newest version row and the objects agree
(`VersionAgrees`) is not inductive: it needs that no two transactions write one row
or run one revision, and that each goes on from what is there (`OneWriter`); that
what Alembic read when it started is not ahead of the newest row, and that only a
repeatable revision is run again when later ones are there (`MigrationInStep`). So
a row beside the newest one is that of repeatable revisions run late
(`RowsAreLate`), and definitions that such a run has undone are never without a
second row (`RevertedIsSeen`). The upgrades that were under way when the late row
appeared go on; a new one stops at two rows. `HeadIsTrue` needs `ReadingLasts`: what
a command has read stays true until it reports, because no action takes a revision,
an extension or the head's row away; of a head that a gate has read, that it was
reached (`HeadReached`), for a late row may join it at any time. What is proved of
reports is therefore not that a second look would say the same: it is that every
revision is there and the head's row with them, and that one row naming the head
means definitions as they were written. `InspectedFirst`
carries the frozen package from the check to the report; the package does not
change under a deployment. `ConnectsAsDeclared` rests on what a URL that the
settings accept leads to (`LibpqGoesThere`, `AsyncpgGoesThere`). As in the
request path, a step of one operator leaves the others' parts alone, but for the
database they share. Theorems `DeploymentInvariant`, `HeadReportsAreTrue`,
`ConnectionsAreDeclared`; `ExactlyTheFrozenPackagePasses`, which says of any
package whatever that the baseline check accepts it exactly when it is the frozen
one; and `ChainsAreLinear`. Of the packages only `PackageAssumption` is assumed:
directories and lists of parents are finite, and a wrapper has one revision id or
none, which is never None itself.

The last two rest on the first part of the module, which is about
`MigrationGraph` alone. `_walk_chain` is a recursive function, and the facts about
it need induction. The library's induction theorems take an operator, which the
provers here cannot instantiate; so `Induction` (in *`NumberInduction`*) states the
principle of sets of numbers, from the least element of one, and `Recursion` that
the function defined step by step exists. `WalkIs` is then the walk as the loop
runs it. A walk that meets an id twice goes round for ever (`WalkGoesRound`), so
one that ends has its ids in an order (`FoundIsLinear`), and an order is walked
through (`LinearIsFound`). A walk that does not end meets an id twice, for the
wrappers are finitely many; were no id claimed twice, the ids before those two
would be one as well, and so back to the root, which has none before it
(`EndlessIsDouble`). `FrozenPasses`: the frozen package has no defect, however many
revisions it has.

*`LogPipeline_proofs`* has two theorems, for any situations, any number of threads
and any depth of nesting. Both see an event as the set of its fields: the
operators of the pipeline make sequences of sequences, and for each there is a
lemma that says which fields it keeps. The loops over context variables and
arguments are folds, and what they return is shown by `Induction`.

`MetadataEstablished` states `MetadataIsEstablished`. A line is composed some steps
after its record is made, and in between the same thread may log and another may
configure the process. The invariant (`IInv`) therefore says of each record in
progress what its context was when it was made and still is (`RecordIs`), and of
the event produced last that its request id is the context's (`EventKeeps`). Of
the sanitiser it takes `SanitizerSkips`: sanitised fields have none of the names
that the pipeline told it to skip.

`NoSecretIsWritten` states `NothingSecretIsWritten` on the hypothesis
`Promised(W)`, where `W[n]` is a set of fields for each situation. `WritesIn` says
that what callers, contexts, the server, tracebacks and other handlers write in
that situation is of the set. `Redacts` says that the redaction finds what is
secret in such fields: sanitised events of the set are left with fields that show
nothing, an identifier that is trusted shows nothing, and an event of such fields
shows nothing between its fields either. What is then proved is the pipeline's
part: whatever is added after a redaction, by whoever, is redacted again before it
is written, or was hidden from the start. The invariant (`SecretsInv`) cannot say
that every event in progress is hidden, for another handler may have put a secret
in one. `Guarded` says which: only the innermost record of a thread that was
disturbed and is of the event its thread produced last; of the undisturbed records
of a thread there is at most one.

The hypotheses are about functions that are constants, because the redaction is
defined by RECURSIVE operators, and what a recursion over data returns is beyond
these provers. They are not only assumed: `MCLogPipeline` has an ASSUME that
evaluates `SkipsMetadata` on every call of every situation with all the reserved
names added; and `Redacts` and `WritesIn` were evaluated for the fields that each of
the 2,148 situations writes, alone, in pairs and all at once, together with every
identifier and everything the pipeline writes itself, and hold. An earlier form of
`Redacts`, for the events of any fields with secrets in a known grammar, held of no
situation: a bare secret is a good identifier, and a handler may put one under
`_record`. That is why the hypothesis is about the fields that are written, and why
the invariant has `Guarded`.

Only model-checked:

* `DoubtIsSettled`, `CallersReturn`, `RequestsEnd`: liveness under fairness,
  which the prover does not reason about.
* `LineTellsTheCall`. That a line hides no gap depends on how much of an event the
  sanitiser's budgets let through: whether it raises, what it cuts and marks, that
  it changes nothing when applied again. As hypotheses about a constant these would
  be most of the conclusion.
* What the redaction itself does (`Redaction`, `TextRules`, `JsonText`,
  `TextPairs`, `Tracebacks`): RECURSIVE operators, checked through `log_lines`.
* The four disagreements of section 7, which are refutations.

## 7. Disagreements

Each is a run that TLC refutes, with the line it contradicts in
`PROJECT.json`.

* `FailureReportAccepted`. A row that was once reconciled keeps its
  `reconciliation_source` through a later claim. When that later attempt fails
  and its worker reports a NULL or blank error, the CHECK that demands
  evidence of a reconciled failure aborts the worker's own UPDATE, which the
  comment on the CHECK says it does not constrain.
* `StopRetries`. A `stop()` that arrives while a release is disposing the
  database joins it, and returns although the Redis client, whose close had
  failed before, was not tried again. The state stays `STOPPING`, so a further
  `stop()` does retry; nothing is lost.
* `EqualIsTheSame`. After the hot state is lost a turn is evaluated twice, and
  its two checkpoints carry one number and different content. The comment
  takes an equal number for the same checkpoint. The first to arrive wins.
* `RetryIsReplayed`. A start that is retried after an archive raises, because
  the check for `ARCHIVED` comes before the lookup of the running execution;
  the document promises `REPLAYED_EXISTING`.

Observed while modelling, not pursued as runs: `external_submission_started_at`
is described as set once, and a claim of a failed row clears it (`099_5C1.sql`
629 and 317); a verdict about an attempt that was settled and claimed again is
accepted for the attempt that is current (`099_5C1.sql` 943), the case that
`LateVerdicts` adds; `checkpoint_seq` may advance by more than one when a
checkpoint is overtaken (`100_5G1.sql` 796 and 711); a rejection after the
submission began has no recorder but the ambiguous one (`100_5G1.sql` 642,
while 189 still lists the transition); a lost checkpoint whose redelivery never
comes keeps every later turn from claiming (353), a claim may be submitted after
its execution has ended (472), and an audit event may name a state the row had
left (`099_5C1.sql` 928).

* `_value_span` (`redaction.py` 1196, and `_opens_quote` 1075) tests
  `text[i+1:i+2] in _QUOTES`, which holds for the empty slice at the end of a
  text. A text that ends in a sensitive key and a letter that may begin a string
  literal (`password=b`, `invalid token e`) raises IndexError. `scrub_text`
  answers `[UNREADABLE]`, `sanitize_event` raises and the whole event is
  replaced. The docstring of the module says that no public function raises.
  `_validation_summary` falls back to `str(exc)` then (1774), which has the
  rejected input that the summary was written to leave out; it is scrubbed as
  any text is. The model has the error (the symbol `!`).
* The mark `RESERVED` is dropped by the final pipeline when an event already has
  as many fields as it may have; the mark `TRUNCATED` is there then. An event
  that is itself a large structure, or a long text outside ASCII, may use up the
  output of its own traceback. An event that another handler logs again becomes
  JSON in the field `event`.
* Outside a request, the id of a line is the one bound to the context only as long
  as no other handler changes `request_id` of the event in the logging call: the
  changed field then decides. The docstring (`logging.py` 474-490) puts the context
  before the field; `MetadataIsEstablished` says which of the two it is.
* A `TimeoutError` or `ConnectionError` of another service, raised inside a
  transaction, is answered as an outage of PostgreSQL (`db/errors.py` 90). A
  commit whose acknowledgement is lost is answered with the retryable
  `DEPENDENCY_UNAVAILABLE` although it was made; `HonestAnswer` leaves that
  answer open for this reason. A readiness answer of 503 because the runtime is
  not `READY` is not logged.
* `112_5H5.sql` has its own BEGIN (133) and COMMIT (744). A crash between that
  COMMIT and Alembic's UPDATE leaves the schema of 112 under the version
  `111_5H4`; a retry then fails at the first CREATE TABLE, each time, until
  somebody stamps the database. `env.py` 88-92 says that a revision and its
  version are one transaction. `VersionAgrees` states the gap: at most one
  revision, of this kind.
* Two upgrades of a new database. Neither `env.py` (84-120) nor `command_upgrade`
  (`db_migrate.py` 375-407) takes a lock, and the root's row is an INSERT. An
  upgrade that has read an empty version table and is then delayed may run
  `001_5B.sql` again, which nothing in that file refuses, and insert `001_5B` beside
  a later row, even beside the head of a database whose gate has passed. Its CREATE
  OR REPLACE also puts back the first definitions of `gen_uuid_v7` (redefined in
  `101_5I1.sql` 215) and `is_platform_admin` (`106_5H3.sql` 132, `107_5B5.sql` 134).
  Every gate, check, upgrade and start that reads the table afterwards refuses two
  rows, and a start whose role cannot read it relies on the gate. The gate's verdict
  (`backend/README.md` 144-165, 190-199) is thus of the moment in which it was given:
  `HeadIsTrue` says what outlives it, and `RevertedIsSeen` that the rest is seen by
  whoever looks again.
* An existing version table with no row, over a schema that Alembic did not make, is
  not refused by `command_upgrade`, which looks for the schema only where there is no
  table; Alembic then runs the root over it. `Init` leaves that state out: nothing in
  the repository empties the table.
* A `start()` whose engine cannot be created owns nothing and releases nothing; if
  that release is cancelled before it begins, the state stays STOPPING until another
  `stop()`. `StateIsHonest` says that this is the only case of it.
* `_walk_chain` (`migration_graph.py` 105) does not end when two files claim one
  revision id and a descendant of one is the parent of the other.
  `ChainIsLinear` says that this is the only case, and `ChainsAreLinear` proves it
  of every package.
* `gate` checks the name of the database it is connected to; `upgrade` and
  `check` do not. Accepted CORS origins with a non-canonical IPv6 address or a
  port with leading zeros match no browser's Origin.

## 8. What is not modelled

* Payment settlement, campaign dispatch, knowledge reindexing: PL/pgSQL over
  several tables, each of the size of what is modelled of the migrations so
  far. They interleave as `VoiceDispatch` and `NodeExecution` do, and a model of
  less than their whole functions would not be faithful.
* The agent quota: a count and an insert under one advisory lock that is held
  to the end of the transaction, a critical section and no more. OAuth
  attempts: the update to EXPIRED is undone by the exception after it
  (`101_5I1.sql` 654); otherwise single guarded updates.
* CRM consumers, break-glass grants, plans and pricing, recordings: single
  guarded updates on one row, whose guard is their whole correctness.
* Tables, policies and grants of tenancy and identity: a predicate on every
  statement. The modules model callers for whom it holds, except in
  `VoiceDispatch`, where another tenant's reservation of a key is an input.
* Reads: listings, analytics views. They change nothing.
* In `Redaction` and `LogPipeline`: private keys, digests, JSON web tokens,
  HTML entities, the console renderer, filtering by level, a mapping as the
  argument of a template, subclasses of `str`, percent signs that are no
  directive, and attributes of a record beyond the standard ones. The fixed record
  `log_processing_failed` (`logging.py` 446) answers an exception that is not the
  sanitiser's; no other modelled step of the pipeline raises. The location of a
  validation error is one piece, not several joined by dots. Case folding
  and Unicode normalisation are represented by one symbol each.
* In `RequestPath`: the CORS headers of a simple request, the limits of uvicorn,
  OpenAPI. In `Deployment`: Alembic's offline mode, `stamp` by hand, a version table
  that somebody emptied, downgrades
  (the wrappers raise), and what the SQL of a revision does beyond being there.
* In the modelled parts: the collision of two sessions in the 32-bit advisory
  key (it can only make one wait for the other), deletion of definitions by
  cascade (no function does it), partitions, and formats of identifiers.

## 9. Plan

Done: `CallOnce`, `VoiceDispatch`, `InfrastructureRuntime`, `NodeExecution`,
`WorkflowLifecycle`, `RequestPath`, `Deployment`, `LogPipeline`, each with its
instance and its proofs.

Left, in this order:

1. `PaymentSettlement`: a payment is applied to its invoice once, refunds never
   exceed a payment.
2. `CampaignDispatch`, composed with the promise of `CallOnce`: a contact is
   dialled once per reservation.
3. The redaction as recursive functions instead of RECURSIVE operators, first
   `sanitize` with its budget, so that `SanitizerSkips` becomes a lemma.

Each new module gets one run of its own with three or four properties, an
`Inductive` invariant in the manner of the present modules, and theorems where
that invariant is within the provers' reach.
