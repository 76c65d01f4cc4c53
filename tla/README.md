# Formal model of the aikit runtime

This directory holds TLA+ modules that model parts of the aikit runtime
(`src/crates/aikit-core`), the TLC configurations that check them on small
instances, and theorems about them with proofs for TLAPS.  `PROJECT.json` maps
every definition to the source lines it models, lists the runs, the theorems,
the hazards the properties are aimed at, and the disagreements between code and
documentation that were met on the way.

In this text D is `durability.rs`, T is `protocols/a2a_transport.rs`, M is
`protocols/a2a.rs`, and the other files are named without the prefix
`src/crates/aikit-core/src/`.

## 1. Inventory of the system

aikit is a library that runs agents: a model is called in turns, its tool calls
are checked and executed, and the results go back to it.  Around that loop the
library has parts with state that outlives a call or is shared between calls.
These are where correctness is hard, and they come first here.

| Component | State it keeps | Operations | What makes it correct |
|---|---|---|---|
| Run ledger (D) | append-only event log, projection, checkpoints | prepare / complete / fail / cancel / reconcile activity, approvals, pause, resume, checkpoint, rewind, fork, complete, fail, cancel | no effect applied twice unknowingly; status never hides open work; stopped is final; checkpoints usable |
| Durable worker (`durable_worker.rs`) | lease id, driver, heartbeat thread, cancellation token | run, reconcile_activity | at most one worker advances a run; a call that was told it holds the lease does not strand it; a cancelled call returns, unless its callback waits for the driver behind a heartbeat that hangs |
| Run driver (`durable_runtime.rs`) | in-memory copy of the run, poison flag, bound lease; per invocation a lifecycle fence, and one terminal audit record | transitions by compare-and-swap, dispositions, finalization | what it acknowledged is stored; a span that is open at the audit sink is on record in the run; nothing is announced twice; a terminal run has no span open |
| Durable stores (`durable_store.rs`, `sqlite.rs`, `postgres_store.rs`) | run state by id, clock | create, load, compare_and_swap (fenced or not) | fence, append-only, atomicity |
| Budget ledger (`budget.rs`, `orchestration.rs`) | committed counters, table of reservations, deadline | reserve, mark started, reconcile, drop | siblings never overspend; each call counted once |
| Session stores (`session.rs`, `sqlite.rs`) | session, revision, execution lease | acquire, recover, clear, commit, release, save | one claim at a time; no lost or misplaced result |
| Resilience, routing (`resilience.rs`, `routing.rs`) | attempt counters, sticky target | attempt, fall back, commit to a target | no output of two attempts mixed; nobody asked again after output or billed usage; overlapping calls cannot undo each other's target unnoticed |
| Agent loop (`runtime.rs`, `agent.rs`) | transcript, turn, pending tool calls, durable activities of the turn | claim, open the span, provider call, tool call, stop, close the span | no request and no tool call takes effect twice over resumed invocations; the span is closed once |
| Governance (`governance/`) | grants, approvals, policy snapshots, audit chain | check, approve, record | checks in order; a grant is valid when used |
| Containment, egress (`governance/containment`, `egress_broker.rs`) | guest process, broker connections | start, stop, connect | nothing outlives its run |
| A2A snapshots (T) | live mapper, cached version of the snapshot store, commit lock, fail-stop flag | commit a mutation, classify an unknown outcome, read at the head | what was reported as committed or as not applied is true; a read is current |
| A2A tasks (T, M) | task state, outbox of dispatches and of the cancellation, recovery claims, scheduled jobs, cancellation token, reconciliation in flight | send, retry, cancel, recover, run, signal, ask the host | one attempt of the work with the host; a cancellation reaches the call; cancelled means stopped; everything accepted is taken up |
| A2A events (T, M) | event intents, retained log of a task, streams with their cursors | flush, recover, settle, broadcast, subscribe, replay | published once, in order, no gap in a stream |
| A2A journal (`protocols/a2a_journal.rs`, T) | head, active checkpoint, deltas, tombstones of collected ones, pins of restores; each process the mapper of the head it last saw and a write in doubt | append, take a checkpoint, collect, restore by pages, resolve a write in doubt | the journal acts as one cell with compare-and-swap, whatever is collected |
| MCP, ACP (`mcp.rs`, `protocols/`) | pending requests, tasks, receipts | call, cancel, poll | one answer per request; terminal is final |
| External agents (`external_agent/`) | child process, staged update | spawn, update, roll back | a failed update leaves the old version |
| Providers, media, memory, skills, tools, evaluation, bindings, CLI | none that is shared, or plain tables | encode, decode, format | data conversions |

How they interact: the agent loop calls a provider through resilience and the
budgeted decorator; it records activities in the run ledger through the driver,
which writes to a durable store under the worker's lease; the orchestrator claims
the session before it runs a plan and commits the result with the claim.  Shared
state is reached by mutex (budget, in-memory stores, driver), by transaction
(SQLite, Postgres) or by compare-and-swap (every durable store).  The hard
behaviours are: crashes between an external effect and its record; leases that
expire under a slow owner; clock reads that are stale when used; compare-and-swaps
whose answer is lost; commands replayed after a rewind; cancellation at every
await; in the A2A server also decisions made on a copy that was read before the
mapper's lock was released, requests that are dropped halfway, recovery that runs
beside live requests, work of the host that outlives the call that started it, and
streams that lag behind.  `PROJECT.json` lists them one by one under "hazards".

The A2A server is the second large part.  Every change of its mapper goes through
one commit protocol (clone, mutate, compare-and-swap, install); on top of it the
outbox decides which work the host is asked to do, and the event intents decide
what clients are shown.

## 2. Modules

| Module | Models | Proofs |
|---|---|---|
| `DurableRun` | the run ledger of D | `DurableRunProofs` |
| `DurableWorker` | workers, operators, drivers and heartbeats over one store | `DurableWorkerProofs` |
| `RunLifecycle` | `run_agent` with its audit span over one durable run | `RunLifecycleProofs` |
| `Resilience` | attempts and targets of a model call | `ResilienceProofs` |
| `BudgetLedger` | budget ledger and the budgeted provider stream | `BudgetLedgerProofs` |
| `SessionClaim` | abstract: what a session store promises | |
| `SessionLocked` | in-memory, JSON and SQLite session stores | `RuntimeProofs` |
| `SessionFallback` | the lease operations the store trait provides | `RuntimeProofs` |
| `A2aSnapshot` | how A2A servers commit and read their mapper over one store | `A2aProofs` |
| `A2aTask` | one A2A task: outbox, requests, jobs, recovery, host | `A2aProofs` |
| `A2aJournal` | the journal of deltas and checkpoints as a snapshot store | `A2aJournalProofs`, `A2aProofs` |
| `A2aEvents` | the event intents of one task, their delivery, live streams | `A2aProofs` |
| `MCDurableRun`, `MCDurableWorker`, `MCBudgetLedger` | instances for TLC | |
| `MCRuntime` | sessions, budget, resilience and lifecycle side by side | `RuntimeProofs` |
| `MCA2a` | the four A2A modules side by side | `A2aProofs` |

The parts that `MCRuntime` and `MCA2a` put side by side do not read each other's
state, so a behaviour exercises one of them, the one the variable `part` names.
`A2aTask` and `A2aEvents` take from `A2aSnapshot` that a mutation of the mapper is
one step: it is stored or its caller is told that it is not.

### DurableRun

`run` is a `RunState`: `log` (events), `proj` (the projection), `ckpts` (snapshots)
and `depth` (how many forks lead to it).  An event is a record whose first fields
are the parts that `stable_identifier` hashes into its id, the others its content;
`Known` / `Fresh` are the deduplication and conflict test of
`append_validated_event`.  `Legal*` is what `apply_event_in_place` checks for one
event kind, `Apply*` what it assigns, `Emit` the append.  Every operation of the
API is one action that composes `Emit`s in the order of the code: `Prepare` with
`Decide` (`prepare_activity`, `decide_activity`), `CompleteActivity`,
`FailActivity`, `CancelActivity`, `ReconcileActivity`, `RequestApproval`, `Resume`,
`CommitCheckpoint`, `Pause`, `CompleteRun`, `FailRun`, `CancelRun`, `Rewind`, and
`fork` as `ForkParent` / `ForkChild` (the host goes on with one of the two runs).

Around the ledger are its users.  `flying` holds the executions that were handed
out: each performs its effect at any time (`Perform`), reports once, twice or never,
or is lost.  The ghost `effects` counts the effects that really happened, by the log
position at which the execution was authorised; an acknowledged rewind or fork
(`side_effects_reconciled`) takes away what happened behind it.  The operator
reconciles truthfully and only when no execution of the activity is in flight.

Activities are of three classes: `PureStep`, `KeyedStep` (idempotent with a key) and
`UnsafeStep`.  `CheckpointWhenSettled` restricts the host to checkpoints at which
every activity has its final outcome; both disciplines are checked.

Left out: the reserved runtime lifecycle and audit steps, logs of schema 1 and 2,
approval deadlines, artifacts, `replace_state` and raw `append_event`.

### DurableWorker

Each member of `Worker` is one call of `DurableWorker::run`, each of `Operator` one
of `reconcile_activity`.  A driver transition holds the driver's mutex from the
reload to the compare-and-swap, so it is two steps: a proposal (`Claim`, `Dispose`,
`Beat`, `Begin`, `End`, `FinishRun`, `Reconcile`, `Release`) and the swap (`...Cas`)
that evaluates `Fence` and `AppendOnly` against the store and the clock of that
moment.  A swap may be answered with an I/O error before or after it took effect.
The main task, the heartbeat thread and the callback of a call interleave freely;
`Crash` ends all three and leaves an effect that was sent out to happen or not.

The driver's state is a `std::sync::Mutex`, which a transition holds over its calls of
the store (`durable_runtime.rs:2391-2426`), and the callback calls the driver on the
thread that polls the `select!` of `run`.  `Block` is a callback that finds the mutex
taken by the heartbeat: in `blocked` the main task can do nothing, not even let its
grace deadline fire, until `Unblock`.

A call returns an error that says the lease was lost, or could not be released
(outcome `lost`), an I/O error as the store gave it (`io`), or another one.  The I/O
error of the claim's own swap is of the second kind (`durable_worker.rs:631`):
the call neither knows whether it has the lease nor releases it, so
`NoStrandedLease` exempts the calls that return `io` and have not seen a claim of their
own in the run (`Claimed`).  Every other I/O error comes after the claim was
acknowledged and passes through `finish_claim`, which releases with a driver of its own.

The run is reduced to its log, its lease and one unsafe activity.  `Setting` is the
set of surroundings to explore (who reconciles, whether the clock may be set back,
the last tick, the I/O errors); one of them is chosen at the start.

### RunLifecycle

Each member of `Invocation` is one stream that `run_agent` returns, each of `Driver`
a process with a driver of its own.  The actions follow the code: `ClaimInvocation`,
`InvocationDisposition` (quarantine what a dead process left),
`BeginInvocationLifecycle` (the fence), `Recheck`, `EmitRunStarted`; then a turn,
`BeginProvider` to `CompleteTool`; then `BeginRunStoppedAudit`, `EmitRunStopped`,
`CompleteAuditAndLifecycle` or `FailAuditAndLifecycle`, and `FinalizeReceipt`, which
makes the run terminal; `BeginAuditRetry` to `FailAuditRetry` redeliver a record that
an operator has released.  `Transition` is a driver's transition: it compares the copy
with the store and swaps, and any mismatch or error poisons the driver.  The sink may
accept, reject, or accept and report an error.  `DropStream` and `Crash` may come at
any await; operators reconcile steps, records and fences truthfully.

A turn is one provider call and at most one tool call; later turns repeat the same
steps under other activity ids.  Left out: receipts of older versions of the runtime,
and with them the recovery of spans that such a receipt supersedes
(`resolve_durable_activity_boundary` and the closing of superseded and non-executing
spans in `runtime.rs`): `begin_invocation_lifecycle` opens no fence where a terminal
record exists, so no invocation of this version meets one while its fence is open.

### Resilience

Each member of `Call` is one `ResilientProvider::stream`.  `Begin` reads the sticky
target; `StartAttempt`, `Open`, `KeepBack` (what precedes the output), `Speak` (the
first delta that commits), `RecordFirstDelta`, `Release` (the sticky target is stored
and the caller sees prefix and output); `GiveUp` goes on to the next attempt or
target, `Fail` and `Drop` end the call.  Ghosts keep which attempts were asked, which
sent output, which the caller heard, and who was under way when the sticky target was
last stored.

### A2aSnapshot

A mapper is the sequence of the mutations that made it.  `Lock`, `Load`, `Recheck`,
`Mutate`, `FirstCas`, `Probe`, `SecondCas`, `Reprobe`, `Classify`, `BaseStored` and
`Install` are the steps of a commit as they lie between two awaits, `Look` and `Serve`
those of a read.  A swap may be answered by "unknown", whether it took place or not;
a lookup may fail.  A server that cannot tell stops (`FailStop`).  `Abort` drops a
request before its commit is detached, `Crash` a server; `Start` restores the stored
mapper or, by mistake, an empty one.  Post-commit hooks are taken to succeed: they
fail only when the receiver of the scheduler is gone.

Two servers may both be told that the same version is theirs when they made the same
change at the same time; the model keeps who was told, and no property forbids it.

### A2aJournal

The store that `A2aSnapshot` takes as one atomic cell, as
`A2aJournalMapperSnapshotStore` builds it over an `A2aMapperJournalStore`.  `journal`
holds the tables: the manifest (head, active checkpoint, first retained sequence),
the deltas, the identities of stored and collected mutations, and the pins.
`AppendDelta`, `InstallCheckpoint`, `WithPin`, `CursorFits` with `Replay`,
`WithoutPin` and `GarbageCollect` are the methods of the journal, each one
transaction; `cache` is `JournalStoreState`, with the write whose outcome is unknown.
A call holds the state lock of its process and goes through `Look`, `Sync`,
`BeginRestore`, `ReadPage`, `FinishRestore`, then `Write`, and after every `Interval`
deltas `ReadManifest`, `Install`, `ReadManifest`, `Collect`; other processes go on
between any two of these.  Every transaction may fail with an unknown outcome, as
SQLite's errors are reported (`sqlite_unknown`); `Drop` ends a read, whose pin stays,
and `Crash` a process.

A mapper is its revision and the set of its entries.  A hash stands for what is
hashed, so a token is the chain of versions that lead to it.  Every method begins with
`validate_head`; that this never fails is a part of `JournalHoldsLastWrite`, so the
actions have no branch for it.  The first mapper that is stored is the empty one.
`ActsAsOneCell` is what `A2aSnapshot` needs of its store: what is read was held during
the call, what is reported as applied was held too, and a write replaces exactly the
mapper it expects.

Two things the module shows and no property forbids.  The comments in
`rotate_checkpoint_locked` (T:752) and at its call (T:921) say that a failed rotation
leaves the counter unchanged and is retried by the next append; the counter is reset
as soon as the checkpoint is installed (T:771), so a collection that fails waits for
another interval.  And the pin of a restore that was dropped or crashed stays in the
database, with the deltas it covers.

### A2aTask

`outbox` holds a record for each message and for the cancellation (queued, running,
reconcile-pending, settled, with its attempts), `claims` what recovery must leave
alone, `job` the scheduled job of each, `token` the cancellation token of the running
call.  Requests (`Send` to `Run`; `RequestCancel` to `SendCancel`) and the recovery
driver (`ScanDispatches`, `RecoverDispatch`, `ScanCancellation`,
`RecoverCancellation`) decide on what they read before; jobs (`Admit` to `FinishJob`)
call the host under a timeout; `alive` is the work the host may still do, also after
the call was dropped.  The host is trusted to attest truthfully.  `Abort` and `Crash`
lose everything but mapper and work.

### A2aEvents

An intent is stored with the change it announces.  Flushing requests, streams and one
recovery worker per event deliver it: `Take`, `AppendEvent`, `Settle`, `Broadcast`, or
`MarkRetry` with a backoff, or `MarkPoison`; the append is idempotent, the broadcast
belongs to whoever settled.  A commit is detached, so a delivery that is dropped after
`Settle` leaves an event that is stored and was never broadcast; streams find it by
replay.  A stream subscribes its receiver (`Subscribe`), reads the task (`ReadTask`),
lists what is pending and flushes it (`ListPending`), each under a lock of its own, and
replays then (`Baseline`); it skips what it has shown, and replays again when its
receiver lagged (`Receive`).

### BudgetLedger

Each member of `Call` is one `BudgetedProvider::stream`: `CheckWallTime` (before the
lock), `ReserveModelCall` (under it), `MarkStarted`, `Open`, `ReceiveUsage`, then
`EndStream`, or `Abandon` at any point (the handle is dropped).  Counters saturate at
`Top`; the cost is rounded up as `cost_micro_usd` does and is an error when it does
not fit.  `used` is the ghost bill.  A broken stream may report only a part.

### SessionClaim, SessionLocked, SessionFallback

`SessionClaim` says what any store promises: one holder, a commit only by the holder
and on top of what is stored, takeover only of an expired claim.  `SessionLocked`
has one atomic action per store operation and callers that act on copies loaded
earlier; `SessionFallback` splits every operation into a load and a swap and keeps
the lease in the session's metadata.  Both refine `SessionClaim` with
`content <- session.content` and the holder read from the lease record or from the
metadata.  The ghost `rash` collects the operators who took over a lease whose owner
was still running, which the documentation forbids and no store can detect.

## 3. Runs

| Run | Instance | Checks | Distinct states |
|---|---|---|---|
| ledger_settled | 1 unsafe activity, 1 checkpoint key, 1 command id, 10 events, 1 fork, 2 executions in flight; settled checkpoints | NoDoubleEffect, ExecutionIsRecorded, CheckpointsForkable, CompletedRunShowsItsEffects, AmbiguityStopsTheRun | 0.33 M |
| ledger_any_checkpoint | 1 pure and 1 unsafe activity, 1 approval, 1 checkpoint key, 6 events, 1 fork, 1 execution in flight; any checkpoint | TypeOK, StatusTellsTheTruth, StoppedIsFinal | 0.32 M |
| worker_cancel | 2 workers (one may crash and be cancelled), lease of 2 ticks, 3 ticks; fairness | OverlapOnlyAfterExpiry, CancelledCallReturns | 0.20 M |
| worker_settings | 2 workers, lease of 2 ticks; either 1 operator and 4 ticks, or a clock within 0..3 that steps both ways and 1 I/O error | EffectHappensOnce, NoStrandedLease, DriverIsBehindStore | 3.5 M |
| runtime_parts | 2 runs, 1 operator, 1 writer, 1 I/O error on either session store; 3 model calls with room for 2, bills up to 1 token over the reservation, saturation at 7; 2 calls on 2 targets with 2 attempts, prefix 1; 3 invocations on 2 processes, 1 error | RevisionIdentifies, NoLeaseLeftBehind, OneAtATime, ImplementsClaim, FallbackImplementsClaim; OverspendIsExcess, CallsCountedOnce, ChargeCoversBill; OneVoice, RetreatNeedsOverlap; OpenSpanIsFenced, NothingTwice, TerminalIsSettled | 0.65 M |
| a2a_safety | 2 servers, 3 calls, 2 mutations, revision 2; 1 message, 1 sender, 1 canceller, 2 attempts, 1 fault; 1 artifact, 1 stream that flushes beside recovery, retention 2, live capacity 1, 1 fault; a journal with 2 processes, 2 entries, revision 2, a checkpoint after each delta, 1 failure, dropped call or crash | AcknowledgedIsDurable, NotAppliedIsTrue, ReadsAreCurrent; OneAttemptAlive, CancelReachesCall, CancelledIsStopped; StreamIsComplete; JournalHoldsLastWrite, JournalActsAsOneCell | 0.93 M |
| a2a_progress | 1 server, 2 calls; 1 message, 1 sender, 1 canceller, 1 attempt; 1 flusher and no stream; 1 fault; fairness | PublishedOnce; LockIsReleased, CancelIsTaken, MessageIsTaken, IntentsAreResolved | 0.06 M |

Why these bounds are enough for what they ask.  The double effect needs a
checkpoint, an execution, a rewind, a resume and a second execution: 8 events; the
bound is 10.  A stale status after a rewind needs an approval or an attempt inside
the checkpoint: 6 events.  A callback runs only after the renewal that
proves the fence, so with a lease of 2 ticks it can be overtaken from tick 3 on, and
the next worker can execute from tick 4 on.  In `worker_settings`
no call crashes: for safety, a call that takes no further step has crashed, and its
effect may happen or not as after a crash.  Three calls and room for two are the
smallest instance in which a sibling must be refused.  The session proofs cover any
number of calls; the run shows the scenarios exist.  Three invocations on two
processes are one that dies, one that meets what it left, and one that shares a
poisoned driver.  Two targets with two attempts and two overlapping calls are enough
for the sticky target to move on and back.  Two servers are needed for every conflict
at the snapshot store; one server alone reads what it wrote.  Two attempts make a
retry, one fault makes it necessary.  Retention 2 of three events and a live channel
of 1 make a stream lag and a subscriber come too late.  Requests
that only flush meet recovery's workers in `a2a_progress`, a stream that flushes
meets them in `a2a_safety`; `EventsInv` is proved for any number of all three (one of
each was checked once: 0.72 M states).  In the journal, two deltas
after the first checkpoint are a delta that is collected and one that is not, with a
restore between them; one failure leaves a write in doubt, a lost pin or a checkpoint
that was not collected.  Revision 3 with a checkpoint after two deltas, and two failures
at revision 2, were checked once as well (1.2 M and 1.0 M states).  A second sender (the exact
retry of a message) is only in `a2a_unattested_retry`, where it violates
`OneAttemptAlive`.

`TypeOK` of `DurableRun` is an invariant of a run and a theorem; those of the other
modules document the variables; section 4 names those that are proved.

Every run has `CHECK_DEADLOCK FALSE`: a stopped run, a returned call and a closed
session have nothing left to do, and the event, tick and fault bounds end the rest.

Symmetry is used for command ids, workers, budget calls, the mutations of the mapper,
the processes over the journal and the two invocations of one process, where no action
or property tells them apart (`JournalActsAsOneCell` speaks of all processes alike, and
is evaluated on single steps).
The refinements and the action property of `runtime_parts` speak of sessions and of
`Resilience` calls, which are not permuted; no run with fairness uses symmetry.

### Runs that show a disagreement

* `rewound_double_effect` - D:5-8 promises that work which may have had an effect
  requires reconciliation.  An activity's id contains the branch it was scheduled
  on.  After a rewind to a checkpoint that already holds the activity, its next
  `started` event has the id of one in the log and is deduplicated (D:1025): the
  caller executes, the projection shows no running attempt, and after a crash the
  activity is executed again.  With settled checkpoints this cannot happen
  (`ledger_settled`).  The search is narrowed to hosts that never pause
  (`NeverPaused`), which only removes behaviours.
* `fork_of_fork` - a fork inherits attempts with the parent's sequence numbers; one
  that was running at the checkpoint is finished with the child's, and D:4760
  rejects every later fork of a checkpoint that contains it.
* `budget_cache_writes` - `budget.rs:179` promises a worst-case reservation; it is
  priced without cache writes (`budget.rs:378`), which are charged at their own,
  usually higher, price (`budget.rs:624`).
* `a2a_unattested_retry` - M:709-711 says that a record that ran is never run again
  before the host has been asked.  `handle_send` (T:6979-7123) and
  `recover_one_pending_dispatch` (T:5133-5255) decide on a copy of the record; when an
  attempt runs and fails after the copy was read, the copy still says queued, and the
  next attempt begins beside the work of the first.
* `a2a_artifact_overtaken` - `docs/FEATURES.md:127` promises that artifact frames
  precede the terminal frame, also in recovery.  Recovery delivers the events of a
  batch concurrently (T:4697); the terminal frame may be appended first, and a
  terminal log then refuses the artifact's frame for ever (T:1455).

### Fairness

In `worker_cancel`, `FairSpec` assumes weak fairness of
`MainStep(c)` for each call: the async runtime polls a task that is ready, the store
answers the main task's own transactions, the driver's mutex is handed to the callback
once it is free (`Unblock`), and timers fire where the task is polled (the cancellation
grace, the stop timeout of the heartbeat, the polling backoff).  Nothing is assumed of
the heartbeat thread, whose transaction may hang in the store for ever, of the clock,
other calls or operators, and of the callback only that it yields where it waits for
anything but the driver, and that dropping it does not block.  Under that,
`CancelledCallReturns` is not unconditional, because the code is not: a cancelled call
returns, or from some point on its callback waits behind the heartbeat for ever
(`WaitsForHeartbeat`).  Without the second alternative TLC refutes it: the callback
blocks behind a heartbeat that never answers, and the grace deadline cannot fire.

`a2a_progress` assumes weak fairness of each step of a call on the mapper (the store
answers, tasks are polled; a request that is dropped after its commit was detached
does not stop it), of the steps of each request and job (futures are polled, and the
scheduler's timeouts end every call of the host), of the recovery driver's loop and of
recovery's workers, and of the backoff (time passes).  Nothing is assumed of the
arrival of requests, of `Abort`, of crashes and restarts, or of what the host's work
does after its call has ended.

## 4. What is proved

All proofs hold for every value of the constants under the assumptions named in the
modules (disjoint activity classes, natural bounds, `Nobody` is no call, distinct
roles); the bounds of the runs (events, forks, ticks, faults, calls) are constants like
the others.  A theorem with a further hypothesis names it: `CheckpointWhenSettled` is
the discipline of the host that run `ledger_settled` checks, `ClockAdvances` excludes
the settings in which the store's clock is set back, `OneSenderEach` says that no two
requests send the same message, as in run `a2a_safety`, and `ConstantsFit` says that the
parameters of `Resilience`, `RunLifecycle` and `BudgetLedger` have their types; this one
is asserted by `MCRuntime` of its instances.  `OperatorsTakeTurns` says that one operator
at a time is between reading a run and writing its decision, `ArtifactsAreFinite` that a
task has finitely many artifacts.  The theorems about the budget need that the sibling
calls are finitely many, `CallsAreCountable` that they are no more than a counter can hold
(a saturated counter counts nothing), and `LimitsRefuse` that no limit is the largest
counter value: `budget.rs:599` refuses when a saturated sum is greater than the limit, so
a limit of `u64::MAX` never refuses anything.

Every proof has the same shape: an inductive invariant, one lemma per operation that
keeps it, and a theorem for each property that follows from it.

### The run ledger (`DurableRunProofs`)

* `TypeCorrect`, `StatusIsTruthful`, for any host.  `StatusTellsTheTruth` is not
  inductive: a rewind or a fork replaces the projection by a snapshot.  The inductive
  invariant `Good` of a run state adds that every snapshot was taken while the run
  was running or paused and was coherent then (`GoodSnapshot`).  Since each handler is
  a composition of `Emit`, the argument is: a legal event keeps a run state good, so
  `Emit` does, so every handler does.
* `StoppedRunsAreFinal`, for any host: the action property, from `Inv` and the guards of
  every handler.
* `EffectsHappenOnce`, `CompletedRunsShowTheirEffects`, `ExecutionsAreRecorded`,
  `AmbiguityAlwaysStops`, `CheckpointsStayForkable`, if the host checkpoints only
  settled activities (`CheckpointWhenSettled`).  Without the hypothesis the first one is
  false: `rewound_double_effect` is the counterexample.  The invariant `SettledInv` has
  two layers.  `SettledRun` is about the ledger alone: what the log says of an activity
  on the present branch is what the projection shows of it, and every checkpoint holds
  only final outcomes.  It makes an event that a handler means to be new new for the log
  too, so no start is swallowed by the deduplication, and a late report reaches no
  attempt but its own.  `StepFacts` is about the executors and what really happened: an
  effect that happened, or that somebody may still have, is shown by the projection and
  by every checkpoint taken after it (`TouchedIsShown`); it happened once (`DoneOnce`),
  and while somebody may still have it, nobody else may (`OneArmed`).  The
  property alone is far from inductive: it says nothing of the execution that is about to
  be authorised.

### Workers over one store (`DurableWorkerProofs`)

* `WorkerInvariant`: the inductive `WorkerInv`.  Its core is `Behind`: a driver's copy is
  a beginning of the stored log, and the whole run where it has the same length.  Hence a
  swap that passes the comparison of lengths appends one event to the stored run, whatever
  else was committed without an answer.  The rest says who can have proposed which event
  (`TxFacts`), who has the lease (`OwnFacts`: before its claim a call is in no log as
  claimant, and its copy shows a claim only if that was acknowledged), and that the lease a call knows of is stored
  or over (`KnownFacts`).
* `AcknowledgedWorkStays`, `LeasesAreGivenBack`, `StoreIsAppendOnly` follow for every
  setting; `LeasesAreGivenBack` has the exception of `NoStrandedLease` for the claim's own
  I/O error, and no hypothesis.  `OverlapsAreExpired` follows under `ClockAdvances`, because a clock that is set back
  brings an expired lease to life.
* `EffectsHappenOnce`, if `OperatorsTakeTurns`: from `EffectInv`.  As soon as the
  effect happened or an executor may have it, the stored run has the activity's outcome or
  an attempt that is running or to be reconciled (`Accounted`), so nobody may begin
  another; and an operator's decision that the attempt did not happen still stands when
  it is written (`DecisionStands`).  Two operators at a time would break it: `reconcile_activity` names
  the activity and takes its latest attempt (D:1596), so the decision about one attempt
  can be recorded for the next.

### The life of a run (`RunLifecycleProofs`)

* `LifecycleInvariant`: the inductive `LifecycleInv`.  It ties the place of each invocation
  to its fence and to the audit record (`FenceFacts`, `AuditFacts`), makes whoever delivers
  a record or works on an attempt the only one who does (`DeliveryFacts`, `AttemptFacts`),
  and says that what may start has had no effect (`EffectFacts`).  Most steps of other
  processes only give up knowledge about the run (`DecaysTo`), and the one lemma
  `DecayKeeps` covers them: quarantine, crashes, operators and failures.
* `OpenSpansAreFenced`, `EverythingHappensOnce`, `TerminalRunsAreSettled` follow.

### Model calls (`ResilienceProofs`)

* `TypeCorrect`, `CallersHearOneVoice`, `OnlyOverlapRetreats`.  That a caller never
  hears two attempts needs `VoiceInv`: each attempt comes after all earlier ones, so
  none is made twice, and the one heard is the last.  That only an overlapping call
  moves the sticky target back needs `StickyInv`: a call that began after the target
  was stored did not begin before it in the list of targets.

### The composed runtime (`RuntimeProofs`)

`MCRuntime` puts instances of its parts side by side.  `RuntimeProofs` instantiates the
proof modules of `Resilience`, `RunLifecycle` and `BudgetLedger` with the same variables,
shows that every behaviour of `RuntimeSpec` is one of each of the three (the steps of the
other parts are stutters), and so obtains `CallersHearOneVoice`, `OnlyOverlapRetreats`,
`OpenSpansAreFenced`, `EverythingHappensOnce`, `TerminalRunsAreSettled`,
`CallsAreCountedOnce`, `OverspendingIsExcess` and `ChargesCoverBills` for the
specification that the run checks.  Its last two sections are about the sessions.

### The shared budget (`BudgetLedgerProofs`)

The properties compare the ledger with sums over all sibling calls, so the module first
proves what it needs of such sums: how one changes when the value of one call changes,
and that a sum of smaller values is smaller.  The library's theorems of induction take an
operator as a parameter; these lemmas take a set of subsets
or of numbers in its place.  Then `CallsFit` says of each call that its place, its reservation and its bill
fit together, and `Moves` that every step changes one call, in one of a few ways, with
the ledger changed to match; the three invariants look at `Moves` only.

* `CallsAreCountedOnce`: `Counted` says that the ledger's counter and the calls
  that are started make up the calls that have a bill.
* `OverspendingIsExcess`: what is committed and reserved is within the limit but for what the
  calls that are over were charged beyond their reservations (`Bounded`).  A reservation
  is granted under the limit, and its end frees it.
* `ChargesCoverBills`: the ledger has at least what is due for the calls that are over
  (`Covered`), up to saturation.

### Sessions (`RuntimeProofs`)

* `RevisionsIdentifySessions`, `LockedStoreImplementsClaim`.  The
  invariant `Inv` is `TypeOK /\ RevisionIdentifies`; it is needed in the one place
  where a commit compares revisions and the abstract claim speaks of contents.
* `EndedCallsHoldNothing`, `CarefulOperatorsExclude`.  Exclusion
  needs `RunningHolds` (unless an operator was rash, who runs holds the lease), which
  in turn needs `NoLeaseLeftBehind`; the two are proved together as `Guarded`.

* `FallbackKeepsPromise`: the lease operations that the trait provides on top of load and
  save implement the claim as well.  `FallbackInv` adds `FoundLease` to the types and to
  the identity of revisions: the copy that a call is about to swap has the call's own lease
  in it, or an expired one where it takes over.  A save that passes the comparison of
  revisions replaces exactly that copy.

### A2A snapshots (`A2aProofs`)

* `SnapshotInvariant`: the inductive `SnapshotInv`.  The stored mapper only grows
  (`StoreOnlyGrows`), because who swaps holds the commit lock of a server whose mapper is
  the head it expects (`CandidateFacts`).  Therefore a head that is still the expected one
  shows that nothing was written, which is what classifying an unknown answer relies on,
  and a head that was looked up before the lock was taken lies between the one at the
  start of the call and the one at its end (`ReaderFacts`).
* `CommitsAreDurable`, `RefusalsAreTrue`, `ReadsAreFresh` follow.

The theorems are about `A2aSpec`, the specification that the run checks, as the ones of
the next three sections are.

### A2A tasks (`A2aProofs`)

The steps of the other three parts are stutters of the task.  The invariant has two layers, each with one lemma per
action.

* `TaskTypes`, `CancellationReachesCall`, for any requests: from `CancelInv`.  A task has
  one permit, so one job at most is between its admission and the end of its call.  An
  actor that is past the signal knows something that lasts (`CallsSignalled`): each call
  that is awaited or about to begin has been signalled, because whoever registers a token
  afterwards looks at the cancellation again before it calls.  The records only move
  forward, so what an actor read long ago is still a lower bound.
* `OneAttemptAtATime`, `CancelledTaskIsStopped`, if `OneSenderEach`: from `TaskInv`, which
  is `CancelInv` with who holds what.  A message is held by the request that sends it, by
  the driver, by a job or by nobody, never by two of them (`SenderFacts`, `DriverOn`,
  `MessageFacts`); the work that is alive is the attempt on record (`AliveFacts`); a task has
  one open dispatch (`OneOpen`); a stop of the work is only believed when nothing is left
  (`StopFacts`).  The property by itself says nothing of an actor that asked the host about
  an attempt and is about to commit the next one.  Without the hypothesis the first
  one is false: `a2a_unattested_retry` has two requests with the same message, of which the
  second decides on a copy of the record that is older than the attempt of the first.

### A2A events (`A2aProofs`)

* `EventsArePublishedOnce`, `StreamsAreComplete`, if `ArtifactsAreFinite`: from
  `EventsInv`.  The stored log holds each event once and nothing after the terminal one
  (`LogFits`); an intent, the deliveries that work on it and the worker of recovery
  agree on whether it is stored and who may still broadcast it, so whoever settles it is
  the one who broadcasts it.  Of a stream, what it has shown is an interval that ends at
  its cursor, and what waits in its channel is in the log (`StreamFits`): a frame that is
  next is shown, one that is old is skipped, and one that is neither makes it replay.

### The A2A journal (`A2aJournalProofs`, `A2aProofs`)

* `JournalIsChain`: the inductive `JournalInv`.  The tables alone cannot say that a restore
  gives the last write: a delta names the mapper it starts from by a hash, and collection
  takes away what that hash was computed from.  The invariant therefore names the chain of
  all mappers that were ever written (`written`, a history variable) and places everything
  on it: the head is its end and the active checkpoint a point of it, each delta is the
  link between two neighbours, and the deltas above the retained one, or under a pin, are
  all there (`TablesFit`).  What a server caches, and a write in doubt, names a mapper
  by its token (`Names`), whether or not the write took place; so a token that is on the
  chain determines the mapper.  A restore in progress has a point of the chain that is not
  older than its call, and a pin on what it has yet to read (`RestoreFits`).
* `JournalHoldsWrites`: `validate_head` never fails, checkpoint and tail give the mapper
  that was written last, and a restore under way finds its deltas.  What `Replay` computes
  over deltas that are all there is `ReplayFacts`: its recursive function on `0..n` is
  compared with the chain, and that they agree at each number of deltas is shown for the
  set of the numbers where they do (`AllNaturals`).
* `JournalIsOneCell`: every step of the store over the journal is one of a cell with
  compare-and-swap.  A write that the journal accepts expects the head, and the token of the
  head determines the mapper the server compared; an unknown outcome is resolved by looking
  for the mutation, which is on the chain exactly if the write took place.

Both are proved of `A2aJournal` under `ConstantsFit` (`None` is no mapper, token or pair of
them, a checkpoint interval is positive), which `MCA2a` asserts of its instance, and carried
to `A2aSpec`, whose other parts are stutters of the journal.

### Only model-checked

* Liveness (`CancelledCallReturns` and the four of `a2a_progress`): fairness and
  `ENABLED` are out of the prover's reach.

## 5. Plan

Order of the work, most important behaviour first.

1. Done: run ledger, worker fencing, budget, sessions, resilience, the life of a
   durable run with its audit span, the A2A server's snapshots, journal, tasks and events, and
   the proofs above.
2. Done: a theorem for every safety property of the passing runs.  What is left to
   proofs is liveness, out of the prover's reach.
3. A refinement from `A2aJournal` to the store that `A2aSnapshot` takes for granted, in
   place of `ActsAsOneCell`.
4. `DurableApproval` (typed approvals with deadlines, two operators) on top of the
   driver, `Orchestration` (the graph of subagents) on top of budget and sessions.
5. `Governance` (order of checks, grants that are stale when used, audit chain),
   `Containment` (guest and broker lifecycle), `McpTask` (cancellation against
   completion), `AgentUpdate` (staged update and rollback).
6. Pure algorithms against reference definitions: compaction, routing order, stream
   assembly.

Abstract specifications worth stating: a lease lock (implemented by the worker
protocol), a task with one terminal state (A2A and MCP), an at-most-once effect
(implemented by the ledger with settled checkpoints).

## 6. Not modelled

Provider wire formats, media conversion, tools, the CLI and the language bindings
are conversions and I/O with little control of their own.  Inside the modelled parts:
file formats, fsync order and SQL; identifier validation and hashing (ids are kept as
their parts); reasoning tokens and the single-run `BudgetTracker`; faults of a store's
`load`; listing, deleting and forking sessions; in the agent loop, governance
decisions, limits on retained output and further turns; the scores by which
`routing.rs` orders the targets; in the A2A server, HTTP and JSON-RPC framing,
authentication, admission quotas, listing, several tasks at a time; in the journal, the
detection of tampered rows, byte limits and the import of a mapper that is not empty.  The remaining components are listed in `PROJECT.json` with the reason.
