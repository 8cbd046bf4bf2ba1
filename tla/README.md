# Verification of the NestJS facade over better-effect-mq

This directory holds TLA+ models of the repository's own concurrent logic, the
TLC configurations that check them on small instances, and TLAPS proofs of the
results that matter most for every instance. Paths below are relative to the
repository (`src/src/engine/engine-session.ts` is written
`engine/engine-session.ts`).

    tlc -config OutboxTransaction.cfg OutboxTransaction     # check one run
    tlapm TransactionProofs.tla                             # check one proof module

The repository adapts the queue engine `better-effect-mq` to NestJS. The engine,
its stores, `pg`, SQLite, Kysely and Nest are external: what they do is modelled
from how this code calls them, as nondeterministic as this code has to tolerate.
What is this code's own, and hard, is *what happens between two awaits*: a
JavaScript coroutine is one step from an await to the next, and everything else
may run in between.

## 1. Inventory

| Component | Code | State it keeps | Operations | Hard behaviour | Status |
|---|---|---|---|---|---|
| Native outbox transaction | `integrations/postgres-outbox-transaction.ts`, `postgres-outbox.ts` | the scope's `accepting`, `pending`, `failure`; `commitAttempted`, `discard`; the pooled client | `transaction`, `view.query`, `view.append`, commit, rollback, release | unawaited and late statements, swallowed errors, timeouts, a connection lost around COMMIT | modelled, proved |
| Kysely outbox scope | `integrations/kysely-outbox-scope.ts`, `kysely.ts` | the driver's `open`, `pending`, `failure` | `execute`, `finish`, inside the outbox callback | a drain nested in a drain | modelled, proved |
| Engine session | `engine/engine-session.ts` | `currentState`, the memoized promises of start, close, cleanup and activation, `acquired` | `start`, `activate*`, `close`, `releaseResources` | close overlapping every await of start and activation, partial failure | modelled (not the inert modes), proved |
| Engine host | `engine/mq-engine.host.ts` | the bindings, the bootstrap promise | `onApplicationBootstrap`, `onModuleDestroy` | the two hooks overlap and wait for one another | modelled, proved |
| Administrative outbox recovery | `engine/outbox-coordinator.ts`, `outbox-retry.ts`, `integrations/postgres-outbox-retry.ts`, `-resource.ts` | the adapter's `closed` and `pending`; the durable record | `retryFailed`, `close` | optimistic concurrency, a lost answer, disposal while calls run | modelled (not `get`/`list`), proved |
| Controls dispatcher | `engine/controlled-store.ts`, `controlled-clock.ts` | none of its own; the persisted policy and the job | `claim`, `settle`, `release`, `cancel`, `recoverStalled` | read policy, then mutate under its revision; refresh of a stale sample | modelled, proved |
| Invocation pipeline | `engine/mq-interceptor.ts`, `mq-enhancers.ts`, the Collect phase of `flow-plan.ts`, `flow-results.ts` | the nested `next`s, the reader's `pending` | `run`, `next`, `page`, `all`, `close` | single use, draining, abort between awaits | modelled, proved |
| Queue policy deployment | `engine/queue-controls.ts`, `controls/service.ts` | none of its own; the persisted policies | `initialize`, `reconcile`, `get` | several connections, ownership checked in one call and written in another | modelled, proved (`Deployment`) |
| Schedules | `engine/schedules.ts`, `schedule-plan.ts`, `schedule-compiler.ts` | the compiled declarations; the persisted schedules | `initialize`, `reconcile`, `upsert`, `pause`, `resume`, `remove`, compile | what earlier releases left, partial writes | partly (`Deployment`, `Publication`, `Assembly`; not cron and time zones) |
| Flow coordination | `engine/flows.ts`, `flow-read-store.ts` | the discovered flows | `initialize`, `cancel`, `get` | a fan-out between the reads of a cancel; two protocol versions of one record | modelled, proved (`Cancellation`, `Deployment`) |
| Job client | `engine/job-client.ts`, `wait-options.ts`, `jobs/binding.ts`, the calls of `contracts/job-definition.ts` | none; the contract's binding | `enqueue`, `enqueueMany`, `prepare`, `execute`, `awaitResult`, `cancelJob` | a moving job, a timeout racing its answer, a contract that changes hands during a call | modelled, proved (`Cancellation`, `JobClient`, `JobCalls`) |
| Flow plan and results | `engine/flow-plan.ts`, `flow-results.ts`, `flow-discovery.ts` | the reader's cursors | compile a fan-out, `page`, `all` | the lease of Collect, repeated cursors, a flow replaced between two queries | modelled, proved (`Invocation`, `FlowReads`, `Publication`, `Assembly`) |
| PostgreSQL JSON pool | `integrations/postgres-json-pool.ts` | the client of a query | `query` | a disconnect racing the answer and the release | modelled, proved (`Connections`) |
| Connection resources | `integrations/postgres.ts`, `sqlite-connection.ts`, `engine/connection-definition.ts` | owned or borrowed handles | define, acquire, release; the administrative tools | failure half way through an acquisition, a close that fails | modelled, proved (`Connections`, `Startup`) |
| Retry policies | `engine/retry-policies.ts`, `retry-reference.ts`, `job-compiler.ts`, `contracts/policies.ts` | none; a reference in the stored job | resolve, compile, publish, check before a delivery | two releases with two policies, layers combined | modelled, proved (`Publication`, `Delivery`, `Assembly`) |
| Worker plans | `engine/worker-plan.ts`, `worker-discovery.ts`, `workers/*` | the compiled routes | discovery, routes, recovery of flow parents | inherited and overridden processors, parents left by dead processes | modelled, proved (`Assembly`, `FlowReads`) |
| Registry and module | `module/*`, `engine/queue-definitions.ts` | the jobs and queues | `initialize`, lookups | none that a step could disturb | partly (`Assembly`) |
| Contracts and schemas | `contracts/*` | none | validate, encode, decode | a value that JSON or a schema changes | partly (`Publication`, `JobCalls`) |
| Flow reads | `integrations/postgres-flow-*.ts` | none | `recoveryIds`, the snapshot's restoration | two queries, two states | partly (`FlowReads`) |

How they interact. Nest calls the *host*; the host *assembles* what the decorated
classes declare (registry, retry policies, flows, worker plans, schedules), then
drives the *session*; the
session acquires every *connection resource*, builds one runtime over them and
serves the store views: a raw store, a read view for flows and the *controls
dispatcher* over it. Workers take their operations through the dispatcher and run
each delivery through the *invocation pipeline*. At bootstrap the host also lets
the *deployment* coordinators (controls, flows, schedules) validate or write
their declarations. Clients bound into the application's contracts call the
session (*job client*, *cancellation*); what they publish is the work of the
*contracts* and *retry policies*, and another release's worker may run it. Apart from that, business code opens an
*outbox transaction* on its own pool, directly or through the *Kysely scope*, and
an operator *recovers* publications that failed.

What makes each component correct is the list of properties in section 3; what
can go wrong and would hardly be reached by a test is the list of hazards in
`PROJECT.json`, each at its line with the properties that would show it.

## 2. Modules

`MCControlledSweep`, `MCDeployment` and `MCStartup` only name constants; every other
run instantiates its module directly in its `.cfg`. Components that interact are
composed by EXTENDS: `KyselyScope` over `OutboxTransaction`, `JobClient` over
`Cancellation`, `Delivery` over `Publication`, `Invocation`, `FlowReads` and
`JobCalls`, `Startup` over `Assembly` and `Connections`. Where the code accepts or
refuses an input, the operator answers a set: its result, or `{}` for a refusal.

### AtomicOutbox, OutboxTransaction (`outbox`)

`AtomicOutbox` is the promise: one decision, one atomic commit of the callback's
accepted writes with all records, a value answered only with it.
`OutboxTransaction` is the code. `pc` is the await at which
`postgresOutboxTransaction` is suspended (`connect`, `begin`, `callback`,
`records`, `finish`, `commit`, `rollback`, then `settled`); `accepting` and
`poisoned` are the fields of `TransactionScope`; `op` follows every call of the
view from admission, through the microtask that sends it, to its answer. `pg` is
a FIFO: `queue` holds what was sent and not served, the server serves the head
and its `server` state is what a statement runs in. A call whose microtask has not
run is `admitted`, not `sent`: that is where a late statement could fall behind
ROLLBACK. `Fail` is a client-side failure (a query timeout) of a statement that
stays in the queue; `LoseConnection` fails what is queued, `ServerDrops` is the
server noticing, and the statements before may still be executed.

### KyselyScope (`kysely`)

`KyselyScope` EXTENDS `OutboxTransaction` and takes over its callback: `Execute`
is the driver's admission, `Forward` the view call it makes, `Settle` its answer,
`Finish` the driver's drain, which ends the outer callback. Every other action of
the outer module is included with the driver's variables unchanged (`Outer`).

### EngineLifecycle (`engine`, `engine_producer_only`)

`starting`, `cleaning`, `closing`, `activating`, `publishing`, `scheduling`,
`bootstrap` and `destroy` each hold the await at which one asynchronous function
is suspended, or how its (memoized) promise settled. Connections, probes, worker
plans and the coordinators' storage calls are numbered in the order the code
awaits them. Every await settles either way.

### AtomicRecovery, OutboxRecovery (`recovery`)

`pc[c]` is the await of one `retryFailed`; `read[c]` and `next[c]` the record it
read and the one it computed; `wire` the calls whose UPDATE the database may
still execute, with or without the caller being answered. `Execute` is the
conditional UPDATE over every column. A publisher with any clock claims and
settles the record; an unversioned edit changes its content only; `Stop`,
`CloseAdapter` and `Dispose` are the session closing. `AtomicRecovery` is the promise
to the operators: each call is at most one compare-and-set (`Requeue`) of the failed
version that was inspected, which may only follow its answer if that was uncertain;
the other await points of a call are not seen.

### AtomicOperation, ControlledClock (`clock`) and ControlledSweep (`sweep`, `sweep_foreign`)

`ControlledClock` is one operation through `dispatchStore` on one job: read the
policy, mutate under its revision, and if the store says the sample is older than
the record, `reread`, `resume` with a fresh time, three times at most. Other hosts
mutate the job, heartbeats arrive, policies are redeployed, answers are lost.
`AtomicOperation` is the promise to the caller: a question is followed by one step
(`Answer`) in which the job takes the effect that was asked for and the caller is
answered, or the caller is answered for a reason without effect; `asked` is the
request while `op.pc` is not idle, and policy, refreshes and the host's clock are not seen.
`ControlledSweep` is `recoverStalled` without a queue: one fenced recovery per
registered controlled queue, then one native sweep for the rest.

### Invocation (in `invocation`)

`stage` is where `MqPipeline.run` is; `level[k]` the dispatch of the `k`-th
interceptor, the handler last; `CallNext(k)` is user code calling the `next` it
was given, at any time, also after it returned. `reads` are the reads in flight
of a Collect reader, which closes with the invocation.

### Publication, JobCalls, FlowReads and Delivery (`invocation`)

`Publication` holds the pure part of a job's way: `ResolveJobPolicy` folds the
layers of a policy, `EncodeSchema` and `DecodeSchema` are relations between
values, a schema being *any* function on them and a codec any function back, and
`Enqueue`, `Schedule`, `Child` and `CompileOutboxRecord` are the four compilers with
their refusals. `AssertRetryReference` is the check of the worker.

`Delivery` is the life of one job: `Start` (a release registers it), `Encode`,
`Publish` in one of the four ways, `AppendOutbox` by a release that may declare the
job differently, `Claim` and `Enter` by a worker of a third one, then the whole of
`Invocation`, then `Decide`. `declared`, `keyed`, `derived`, `given` and `published` are
history: what was asked for, beside what was stored.

`JobCalls` is the contract between the applications of a process: `Bind` and
`Unbind` by owner, `Destroy`, and a call that looks its client up once (`StartCall`),
encodes its items in any order (`Encoded`), hands them over (`Forwarded`) and is
answered (`Executed`, `AwaitResult`). `FlowReads` is `recover` of a worker's
activation, connection by connection, and the reader of a Collect phase: the
store's snapshot, the second query that restores what the store takes for missing,
the page, and `all` around it, while `Replaced` fans the flow out anew.

The job's life, the calls, the recovery and the collection share no variable. A
behaviour of `Delivery` therefore takes one of them only: their product would show
nothing more.

### Assembly, Connections and Startup (`startup`, with `MCStartup`)

`Assembly` is what the host discovers before it opens anything, as operators over
prototype chains (sequences of classes, the base first): `GetQueueDefinition`,
`Initialize`, `RetryPolicies`, `CompileFlow`, `DiscoverFlows` with `Visit` (the
recursive function `Visiting` of the names on the path), `CompileWorker`,
`DiscoverWorkers`, `CompileSchedules`. `Connections` is what the session does to its
handles: `Configure`, `OpenHandle` and `SetUp` (an acquisition
is two steps that can each fail), `MakeRuntime`, `Probe`, `Dispose`, `Release`, and
`Query`, `Answered`, `Rejected`, `Disconnected` on the clients of each pool; handle 0
is the application's own. `ToolOpens` and `ToolRuns` are the administrative tool.
`Startup` lets the assembly decide which connections are needed, and a stop come at
any time.

### Deployment (`deployment`, with `MCDeployment`)

The bootstrap's three coordinators and the administrative calls of a running
application are tasks; `Plan` is the order of a task's stages (`check`, `deploy`,
`list`, `preflight`, `apply`, `flows`, `mutate`), `at` the element of the loop it is
at and `half` the second of the two calls about a schedule. Every storage call is
one action: `CheckQueue`, `Deploy`, `List`, `CheckListed`, `PreflightPolicy`,
`PreflightRecord`, `Apply`, `CheckRole`, `MutateRead`, `MutateWrite`. `Fail` is any
of them failing, or a session that is not ready. `Elsewhere` is any other
deployment's write, between any two calls; `disturbed` and `wrote` are history.

### Cancellation and JobClient (`cancellation`)

`pc` is the storage call one `cancelJob` or `FlowsCoordinator.cancel` is at;
`View`, `CancelFlow` and `Reread` are the cancel of `flowReadStore` that both go
through. The job and its manifest are moved by claims, releases, settlements,
fan-outs and retries at every point. Calls fail before or after taking effect.
`failed`, `stopped`, `fanned` and `moved` are history. `JobClient` adds a bounded wait
for the same job: its timer, the caller's signal and the engine's answer race, and
the answer is looked at one turn after it was given (`EngineAnswers`, `Continue`).
`CloseSession` takes the engine from both.

## 3. Runs and properties

The bounds are the smallest at which every hazard occurs; TLC explores the whole
state space of each. Deadlock checking is off everywhere because every one of
these machines really ends (a settled transaction, a closed engine).

| Run | Bounds | What it shows |
|---|---|---|
| `outbox` | two queries, one append, one record | `CommitIsClean`: COMMIT is sent only for a returned callback with everything appended and nothing admitted unfinished or failed. `NoStray`: no statement runs outside its transaction. `CleanReuse`: a pooled client carries no transaction. `AtomicOutboxSpec`: refinement of the promise. `TransactionSettles`: always answered, client always given back. |
| `kysely` | the same | `AdmittedReaches`: what the driver admitted the outer scope admits. `ValueMeansAll`: a value means all of it is committed. `TransactionSettles`: the nested drains do not wait for one another. |
| `engine` | two connections, two probes, two plans, publisher, scheduler, one coordinated call | `StateHonest`: what the state says of the engine is so while a close overlaps a start or an activation: ready serves, closed left nothing behind, a stop is never undone. `ReleasedInOrder`: each resource once, the last first. `DetachedWhenClosed`. `HooksSettle`: neither hook hangs although each waits for the other |
| `engine_producer_only` | no plan, publisher or scheduler | **violated** `DetachedWhenClosed`, see section 6 |
| `recovery` | two calls, budgets 1 and 2, three times, three attempts | `OneWinner`; `RecoveryExact`: the publication changes exactly as it was validated and only a failed one gets attempts; `AtomicRecoverySpec`: each call is one compare-and-set of what was inspected, and an answer says what became of it (`HonestAnswer`); `DrainedBeforeDispose`, `DisposalCompletes`. The largest time and attempt stand for the end of the safe integers, where `OneWinner` and `RecoveryExact` are at stake |
| `clock` | times 0..4, two deliveries, two revisions, lease 2, delay 1 | `AppliedAsAsked`: a refreshed mutation is inside its lease, keeps the retry's delay and the policy it read. `GivesUpBeaten`: only after others moved the job each time. `AtomicOperationSpec`: refreshed or not, an operation is one atomic step on the job, answered with its effect; what is refused was not applied (`HonestAnswer`) |
| `sweep` | two registered queues and a foreign one, two stalled jobs each, limits 1, 2, none | `LimitSpent`: never more than the limit over all calls, and fewer only if nothing of ours is left. `FencedBeforeSweep` |
| `sweep_foreign` | the same | **violated** `ControlledFenced`, see section 6 |
| `invocation` | two enhancers, interceptors and filters, Collect, two reads; two custom policies and two keys, two layers; two applications, one caller, two items; two connections, flow names and parents, one recovered at most; three children of two contracts, pages of one | `SingleNested`: one run of everything, nothing outside `run`. `MisuseFails`, `AbortStops`, `InvocationSettles`. `PolicyFollowed`: no worker runs a job published under another custom policy, and only a mismatch keeps it from one. `StoredAsDeclared`: payload, retries and key as declared whatever way they took; a call publishes all or nothing, where its contract was bound. `FlowReadsExact`: every parent left behind is recovered or the activation fails; a page and `all` answer each child once with its own outcome |
| `startup` | ten queue classes, up to three of them together, two connections, one or two flows, two workers with an inherited and an overridden method, every combination of connection options, one client per pool | `AssemblySound`: what is accepted works: one handler for each route, no job handled twice, the called method's own parameters, flows that end, policies that can be asked. `HandlesHeld`: a live runtime has its stores and open handles; an ended or half started one has closed what it opened, or tried to, and never the application's. `NoSickClient`: no pooled client owes an answer. `ShutdownCompletes`: no end of a pool waits for ever |
| `deployment` | three queues on two connections, one limited per key; one declared and one leftover schedule; one flow; both modes of both coordinators; any state of the stores | `StartsConsistent`: an undisturbed bootstrap that succeeds has what it declares and bypasses no limit. `RefusedUnwritten`: what is refused wrote nothing of its kind. A call that fails after others leaves what they wrote; the code promises nothing else. `ForeignKept`: undisturbed, nothing of another group or job is written |
| `cancellation` | one job, any state, either owner, with and without the view; one wait, with and without timeout, signal and event reader | `RefusedForCause`: refused only when over, foreign, failed or changed by others; a fan-out alone never refuses a flow's cancel. `AcknowledgedStops`: acknowledged only if stopped, and only what is ours. `HonestWait`: the result only within its bounds, timeout and abort only where they happened, no timer left. `WaitSettles`: a bounded wait ends whatever the job does |

Why the bounds are enough. Two queries are needed for one that fails while
another is in flight, an append because it goes through the same scope with
another effect, a record because it is appended after the callback. Two
connections are needed for a partial acquisition and an order of release, two
probes and plans for a failure between them. Two recoveries race for one failure;
three times give a clock behind, equal to and ahead of the record's, and the
largest is the end of the safe integers. Four ticks are the three refreshes and
one that is beaten. A deployment needs two queues on two connections for a partial
one, a schedule of its own and one of an earlier release, and a queue of each kind of
policy; who else writes is not bounded. One cancellation meets one job; the others
may move it any number of times. A sweep needs a controlled and an ordinary queue (the initial policies are all combinations) and a limit below, at and above what is stalled.
A misuse of `next` needs an interceptor around another, and two enhancers and filters
an abort between them. Two layers are the least in which one is overridden; a
message's own retry is a third. Two applications compete for a contract; the calls of
several callers touch only their own state, so one is enough, and two items are one
refused after another was encoded. Two connections with two flow names are parents that must not
be recovered here; two parents against a bound of one are too many at once. Three
children on pages of one are a first, a middle and a last page, with a null, data or
failure in each. Two connections are a failure after an acquisition; one client of a
pool is enough, because no query waits for another's client and the next query takes
the one of the query before. Queue classes, flows and workers are chosen so that
each check of the assembly refuses some input. One wait meets one job, as a cancellation.

Fairness. `FairSpec` (`DeliverySpec`, `ClientSpec`, `StartupSpec`) gives weak fairness
to: microtasks and resumed awaits, which the event loop always runs; answers of `pg`,
the stores, disposal and other drivers, which answer or reject (section 2 lets them
reject at any time); the application's callback or handler, which is assumed to
settle, as each API requires; a timer that was set (`Fire`), and the engine's answer to
a wait whose job is over or whose signal aborted (`EngineAnswers` over `Sees`). In
`Startup` a query ends by an answer, an error or the connection's error event
(`Settles`), and the session goes on (`Session`). Nothing else is fair: no hook need be
called, no worker claims, no job is ever settled, no connection breaks, no read
starts, no operator calls. Strong fairness is not used: no awaited step is disabled
and enabled again by others.

Each property has at least one mutant in `PROJECT.json`: a mapped definition and a
plausible wrong form of it (a dropped guard, an undrained close, an off-by-one, a
lost reset), written beside it in the module with a comment that begins "Fault:".
No specification uses these definitions; they are there to show that the property
speaks about the code.

## 4. Proofs

All of the following hold for every value of the constants under assumptions that
only give types and ranges, each named and in the module that declares the
constants:

| Assumption | What it says |
|---|---|
| `StatementsDistinct` | a query, an append, a record and a control statement are different things |
| `EngineAssumption`, `RecoveryAssumption`, `ClockAssumption`, `SweepAssumption`, `InvocationAssumption` | counts, times and limits are natural numbers; at least one connection, probe, time, attempt, revision; a lease and a limit are positive |
| `DeploymentAssumption` | declarations are sequences of queues, addresses and roles, each queue on one of the connections; a declared schedule does not emit to a queue that is declared with a limit per key, which its compilation refuses (`engine/schedule-compiler.ts:30`) |
| `FlowReadsAssumption` | a page of `all` has at least one child |
| `ConnsAssumption`, `StartupAssumption` | connections are positive numbers; sets of flows are finite; a class names one connection and one policy, and a worker is one class |

Each of the proof modules extends what it speaks about. Its `IInv` was checked by TLC
as an invariant of the run before it was proved.

- **TransactionProofs** (`OutboxTransaction`, `KyselyScope`). `IInv` = `TypeOK` and `CommitInv`, `WireInv`,
  `StageInv`. None of the safety properties is inductive alone. `NoStray` needs
  `WireInv`: in the FIFO, a write never stands behind the transaction's COMMIT or
  ROLLBACK (`QueuedControl`), is queued only while its call is `sent` or its
  answer was given up (`QueuedWrites`), and if a write is at the head the server's
  transaction is open (`OpenWire`). That in turn needs to know, for each `pc`,
  what the scope admits (`StageInv`), and `CommitInv` that the drain was complete
  when COMMIT was sent. `CleanReuse` adds `ReuseInv`: the last control statement
  queued decides. `Refinement` shows that from a state of `IInv` every step is a
  step of `AtomicOutbox` or a stutter under the mapping of `Outbox`.
  `KyselyImplements`: a Kysely step is a step of the outer transaction or leaves it
  unchanged, so everything proved of the outer module holds, `NoStray`
  (`KyselyNoStray`) and the promise of `AtomicOutbox` (`KyselyRefinement`) included.
  `ReachesCorrect` and `ValueCorrect` use
  `KyselyInv`, which ties the state of a driver's task to that of its statement:
  `Gate` (the outer scope accepts until its callback ended), `TaskInv`,
  `DriverInv`, `ValueCommitted`.
- **EngineLifecycleProofs.** `IInv` = `TypeOK` and `StopInv` (what a stop request
  forces on the state), `StartInv` (what `starting` says about what was acquired
  and probed), `ActivityInv` (what is running belongs to a settled activation),
  `CloseInv` (how far `close` is, and what has therefore settled), `ResourceInv`
  (what was released is the tail of what was acquired). `DetachedCorrect` also
  needs `BoundInv` and the hypothesis that there is a plan, a publisher or a
  scheduler; without it the property is false, which `engine_producer_only` shows.
- **OutboxRecoveryProofs.** `IInv` = `TypeOK` and `ReadInv` (what a call will write
  is the successor of what it read, with the version its operator saw), `WireInv`
  (which calls may still be executed), `AppliedInv` (an applied call has raised the
  record above its version, so a second with the same version cannot match),
  `BudgetInv`, `LifeInv` (the adapter's pending set against the store's disposal).
  `RecoveryExactCorrect` joins what a recovery may
  change (`ValidatedOnlyCorrect`) with what it may grant (`AttemptsKeptCorrect`).
  `AtomicRecoveryRefined` needs `ReadInv` and `WireInv` at the UPDATE that matches: the
  record is then the failed version of the call, which was told nothing but uncertain
  (`ExecuteRequeues`); any other step of a call is an answer or unseen (`Declines`).
- **ControlsProofs** (`ControlledClock`, `ControlledSweep`, which share no state).
  `GivesUpBeaten` and `HonestAnswer` need `StaleInv` (an
  operation that rereads is behind the job, which only moves forward), `SampleInv`
  (each refresh has a later time, so that three of them were three times beaten) and
  `PendingInv` (nothing has taken effect while it is under way). The action property
  `AppliedAsAsked` follows from the same invariant: `AppliedRequest` says what the
  store must have permitted. `AtomicOperationRefined` adds `UnmovedInv` (a claim or
  a recovery is served with the time it was asked with): `ApplyTakes` is the step with
  the effect, `StepTaken` shows that all others answer without one, with the reason the
  promise demands, or are stutters.
  `LimitSpent` needs `CoveredInv`: a queue that was visited
  has no stalled job left, or is one for the native sweep, or the limit is spent; and
  `VisitInv`, that the sweep comes after the last. `Falling` shows that what others
  do in between does not undo it. `FencedBeforeSweep` is an action property over it.
- **DeliveryProofs** (`Delivery` with `Publication`, `Invocation`, `FlowReads` and
  `JobCalls`). One invariant for each of the parts, which share no state; all hold
  together (`Invariant`).
  `InvocationInv`: `SingleNested` needs that all dispatches around one in flight are
  running or draining and that a level not yet called was never started (`NestedInv`);
  `MisuseFails` is inductive with it, and `ReaderInv` ties the reader to the phases.
  `IsInvocation` carries it over: a delivery allows an invocation nothing new.
  `AbortStopsCorrect` is the action property. `JobInv`: `PolicyFollowed` and
  `StoredAsDeclared` need that a registered job's policy is the one declared last,
  and that the reference a worker claims is that of the policy it was published under.
  The lemmas about the operators of `Publication` say the same of each of the four
  ways. `CallInv`: a call publishes as a whole because it was bound where it was made
  and nothing malformed was left when it was handed over. `SeedInv`: a parent that was
  left behind is found or on a connection still to be read. `CollectInv`: a snapshot
  is of the whole flow and only null results are missing from it (`SnapshotInv`), and
  `all` has answered exactly for the pages before its cursor (`PagesInv`), which is in
  `seen`, so that a repeated cursor is noticed. `SelectedExact` is about the loop over
  a page, `Joined` about putting pages together.
- **DeploymentProofs.** `IInv` = `TypeOK` and `PlaceInv` (where a task is in its plan),
  `WroteInv` (what was written was written in its stage), `EstablishedInv` (what each
  stage has established for the items it has dealt with, as long as nobody else
  wrote). `StartsConsistent` is what all stages of a bootstrap have established at its
  end, `RefusedUnwritten` follows from the order of the stages, `ForeignKept` is an
  action property: a write needs its check.
- **StartupProofs.** `ConnInv` = `ClientInv` (no idle client owes an answer), `PcInv`,
  `HandleInv` (which handles are open at each point of an acquisition and a release,
  in the order of the connections), `NeedInv` (what is acquired is what is needed).
  `AppInv` says what each phase of the assembly has accepted, `NameInv` that the names
  of connections stay. `FlowsDiscovered` is the heart of it: what `visit` accepts from
  every flow has, in any set of flows, one that starts none of them.
- **JobClientProofs** (`Cancellation`, `JobClient`). `RefusedForCause` is about the end
  of a cancellation and is not inductive. `CallInv` says what an unhindered one knows
  at each of its calls: the call fits the state the job is in, or the job has fanned
  out since it was read and the manifest is found when it looks again (`FlowCall`,
  `JobCall`, with `ManifestInv`); `Hindered` shows that a cause, once there, stays. `OursInv`
  is behind `AcknowledgedStops`: no call that changes the job is reached with an id of
  another contract. `ClientImplements`: a step of the client is one of the cancellation
  or leaves it alone, so both hold of `ClientSpec` too (`ClientCancels`). `HonestWait` is
  inductive with `WaitInv`: an engine that says it was stopped was so by the timer or
  the signal. These modules have no constants, and the run covers all of their states;
  the proof says why it holds.

`HonestAnswer` of `OutboxRecovery` and of `ControlledClock` is no property of their runs:
it is part of the promises `AtomicRecoverySpec` and `AtomicOperationSpec` they check. The
refinements rest on the same invariants, and it is proved on its own as well.

A property that a run checks as one is proved in parts where that reads better:
`StateHonestCorrect` is `ReadyIsLiveCorrect`, `NothingOutlivesCorrect` and
`StopIsFinalCorrect`; `FlowReadsExactCorrect` is `SeedsExactCorrect` and `Collected`.

Recursion. The library's induction theorems are out of the prover's reach, so `Visiting`
and `Selected` are recursive functions, and the lemmas that unfold them construct
their solution: the largest set of paths and flows that end (`VisitingUnfolds`), and a
least unsolved prefix that leads to a contradiction (`SelectedUnfolds`). Induction over numbers is
`LeastNumber`, from the well-foundedness of finite sets under inclusion.

Only model-checked: all liveness (it depends on fairness and ENABLED, which the prover
does not treat).

## 5. Abstractions

- **OutboxTransaction**: the reply of a statement and its delivery are one step
  (nothing between them can tell); application SQL never controls the transaction
  (the API forbids it); digests and SQL text are data.
- **KyselyScope**: the driver's acquire and execute layers are one; compilation and
  row mapping are data.
- **EngineLifecycle**: awaits that `close` skips because nothing was started are
  steps, which only adds interleavings; admission and settlement of a coordinated
  call are one step; the disabled mode and an application without connections
  (`engine-session.ts:209-212`), which acquire nothing, are left out.
- **OutboxRecovery**: `runAt` and the payload are abstracted into `content`; the
  publisher's clock is arbitrary.
- **ControlledClock**: operations interact only through the store, so one operation
  against all others at the moment they take effect is general; reading the job and
  its policy is one step; a missing policy counts as a disabled one; removal of the
  job is left out; the record has a lease only while active and a due time only
  while delayed.
- **ControlledSweep**: a limit above every count stands for none; no further job
  becomes stalled at the timestamp of the sweep.
- **Invocation**: guards and pipes are one list, and a pipe's decoding belongs to
  its call; user code may return at any time.
- **Publication**: values are a date, a text and nothing, which tell apart what JSON
  keeps, changes and drops; a limit is per key or none; a delay and a timeout are zero,
  positive or absent; every invalid backoff is one.
- **Delivery**: the worker's contract is its custom policy; the schema that decodes is
  the one that encoded. The four behaviours of section 2 are not interleaved.
- **JobCalls**: the session's start and close are one step each (`EngineLifecycle` has
  them); an item is good, malformed or refused by the client.
- **FlowReads**: a cursor is the position it stands for; the store may repeat one; the
  parents' rows are read in one query, as the code does. An `open` parent stands for the
  states that query asks for (`waiting`, `active`, `waiting-children`:
  `integrations/postgres-flow-reads.ts:272`). `Unfinished` says both what the query
  selects and what `SeedsExact` expects: the property is that over several connections,
  and at the limit of one, no such parent is lost and none of other flows is taken.
- **JobClient**: the second client lookup of `execute` is in `JobCalls`; the engine's
  polling is external.
- **Assembly**: a name, a field or a prototype is a model value; metadata that decorators
  write is given. **Connections**: the ranges of the single options are one flag; a
  pool's queue of waiting queries is left out.
- **Deployment**: the served groups of one connection are listed by one call, not by
  one each; a policy is its group, whether it is enabled and limited per key (the
  other limits decide nothing but drift); capability checks and the compilation of
  declarations are static and precede the first call; what the external `reconcile`
  does with a policy that became foreign after the check is left open; a reconciled
  schedule keeps its pause, as the external store does. `Found` bounds what others
  may give to each queue.
- **Cancellation**: the queue has no enabled policy (`ControlledClock` has the
  controlled cancel); the engine's identity check before `cancel` is external; a flow
  store asks the worker of a collecting parent to stop; an id is not reused by another
  contract during the call. A refusal because a worker claimed or released the job
  between two calls is allowed (`moved`): `docs/execution.md:177`.

## 6. Disagreements between code and documentation

- **A producer-only process stays bound after shutdown** (`engine_producer_only`).
  The bootstrap binds the clients after its last storage call
  (`engine/mq-engine.host.ts:104-111`) without looking at the session again. If
  `onModuleDestroy` ran during that call it found nothing to detach; where workers,
  publisher or scheduler are present, their activation then rejects and the failure
  path detaches, but without any of them the bootstrap resolves with every
  contract bound to a closed engine. `docs/architecture.md:15` says producers are
  detached on shutdown.
- **The native sweep covers queues that were not visited** (`sweep_foreign`).
  `engine/controlled-store.ts:244-245` says that controlled queues have already
  gone through their fenced recovery when it runs; that is so for this
  application's queues (`FencedBeforeSweep`), not for those another application
  registered in the same namespace.

## 7. Plan

Done: every component is modelled, some in part (section 1 and the end of this one say
what is left out), and checked; the safety properties of all runs are
proved for every value of the constants, and the outbox, the recovery and the controls
dispatcher are proved to implement the atomic operations their callers rely on. Next, in this order:

1. An abstract specification of the page reader, as a read of the flow at one moment,
   and of the session, as the application sees it.
2. Further lemmas where later changes of the models need them.

Not modelled, and why: the decoding of job, attempt and count rows, cron expressions
and time zones, the ranges of single options and the wording of errors are data on
which no step depends; the dynamic module's providers are wired once by Nest; the
engine's read accessors, `get`, `list`, `poll` and `attempts` change nothing; the
disabled engine acquires nothing; `integrations/postgres.ts` migrations run outside an
application. The lint rules under `tools/`, the scripts, examples and tests are not
part of the program.
