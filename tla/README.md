# A TLA+ verification of skein's runs, queues, streams and upkeep

skein is a self-hosted agent server: clients create *runs* of a graph on a *thread*, the server executes
them inline or from a queue, records their outcome, notifies callbacks and streams frames. Paths below are
under `packages/` of the repository, `agent-protocol/src` abbreviated to `AP`.

## 1. Inventory

| Component | State it keeps | Operations | What makes it correct |
| --- | --- | --- | --- |
| Run service (`AP/runs/run-service.ts`) | none of its own: run rows, plans and bases through the store | create under `reject` / `enqueue` / `interrupt` / `rollback`, cancel (`interrupt`, `wait`, `rollback`), delete, replay a delivery | one active run per thread without `enqueue`; a waited cancel is exact; a rollback removes the aimed-at turn and nothing else |
| Run engine (`AP/runs/run-engine.ts`, `run-execution.ts`) | the execution's abort reason, base checkpoint note, outcome | reread, apply plan, pending → running, stream the graph, settle, mirror, close | a terminal row never changes; one callback, agreeing with the row; the bus is closed |
| Run worker (`AP/runs/run-worker.ts`) | jobs in flight | pull, drop, claim, execute, stop | a job is executed by one process at a time and not at all once its run is finished |
| Execution claim (`AP/runs/thread-locks.ts`, `storage-postgres/src/thread-execution-gate.ts`) | per-process FIFO mutex, cross-process gate, lease | blocking and nonblocking claim, release | mutual exclusion per thread; nobody leaks the claim |
| Cancellation registry (`AP/runs/cancellation.ts`) and abort channel (`runtime-redis`) | registered executions, first abort reason; messages | register, abort, broadcast, apply a remote abort | first reason wins; losing a broadcast costs latency, not correctness |
| Store (`storage-memory`, `storage-sqlite`, `storage-postgres`) | rows, kwargs, admission records, deliveries, crons, keys | `setStatus`, `settle`, `finalizeWithDelivery`, `admitRun`, `createIfThreadIdle`, `claimAndCreateRun`, `claim`, `delete` | each is atomic; settling and the callback, a cron's claim and its run, an admission and its run are one transaction |
| Run queue (`memory-queue.ts`, `partitioned-run-consumer.ts`, `redis-run-queue.ts`, `redis-run-partitions.ts`, `sqlite-queue.ts`) | waiting, delayed, parked and active jobs, the order of a thread's runs | enqueue, pull, defer, park, promote, sweep | one job per run; a thread's runs in order; no run forgotten |
| Run event bus (`memory-queue.ts`, `redis-run-event-bus.ts`) and SSE (`AP/sse/sse.ts`) | frames, cursors, mailboxes, closed markers | publish, subscribe from a number, close, trim, expire | no gap within a connection; every reader ends; memory stays bounded |
| Cron scheduler (`AP/crons/*`) | cron rows, occurrence sequence | tick, claim, fire, sweep unqueued runs, patch | each occurrence fires at most once; missed ones are coalesced; no fired run is forgotten |
| Idempotency keys (`AP/idempotency/*`) | key records with expiry, admission records | claim, take over, record, release, recover, sweep | a retry gets the first answer, never a second run |
| Checkpoint history (`AP/threads/checkpoint-history.ts`) | a thread's checkpoints, scratch copies | rollback to a base, prune, copy | nothing is lost but what was aimed at, whatever call fails |
| Thread service, TTL sweeper (`AP/threads/*`) | thread rows, status, expiry | delete, prune, expire, update, mirror | a deletion is complete; an expired thread is collected; no active run loses its history |
| Native admission and recovery (`AP/native/*`) | admission outbox, dispatch leases | admit, dispatch, recover cancellations | an admitted run reaches the queue; its cancel is durable |
| Callback outbox (`AP/deliveries/*`, `runtime-redis/src/redis-delivery-queue.ts`) | delivery rows, leases, queue jobs | record, claim, attempt, retry, sweep, replay | at least once, within the budget; a delivered row is final |
| Thread event bus, channels (`channels/src`), SQLite and Postgres drivers | frames with generations; event dedupe and routes; rows | as the above, for threads, chat events, SQL | as the above |
| Auth, assistants, items, A2A/MCP, HTTP adapters, assembly, configuration, console, CLI, scaffolding, telemetry, benches, examples | records or none | single-step reads and writes, translation | no protocol of their own |

How they interact. A request runs in `RunService`, which writes rows through the store, aborts through the
registry (and the channel, for other processes) and hands the new run over: inline, to `startRunExecution` in
the same process; in the background, to the queue and a worker of any process. The execution takes the
thread's claim, rereads the row, carries out the rollback plan the creation left in its kwargs and runs the
engine, which writes the same rows, adds checkpoints and publishes frames to the bus. A cancel with `wait` or
`rollback`, and a prune, take the same claim; a deletion does not. The idempotency layer wraps the create
handlers; the cron scheduler and the TTL sweeper act like clients, on timers. Nothing but the row, the claim
and the abort reason keeps these apart, and every `await` between two store calls is a point where another
request, execution or process may act.

Hard behaviours: requests and executions that act on a row read earlier; settling against cancelling against
displacing; the second half of a rollback waiting for the claim; a process that dies while it holds the claim
and a job delivered again; aborts lost or late; a thread write that fails after the row was settled; readers
that fall behind frames being trimmed, or join after the close has expired; a rewrite of a history cut short;
claims and leases that expire under a slow holder; ticks that overlap. `PROJECT.json` lists every hazard with
its line and the properties aimed at it.

## 2. The modules

| Module | Models | State |
| --- | --- | --- |
| `RunState` | what the lifecycle modules share: store operations on rows and callbacks, checkpoint history, registry and abort channel, claim | all variables of the lifecycle |
| `RunEngine` | `executeOne`, `startRunExecution`, `executeRun` | `exec[r]`: program counter, process, abort reason, base note, outcome |
| `RunService` | create, cancel, delete | `creator[r]`, `canceller[r]`, `deleter[r]` |
| `RunLifecycle` | the composition, crashes, the specification, fairness, every property and the inductive invariant | — |
| `RunContract` | abstract: rows and callbacks as a client sees them | `row`, `calls` |
| `Deliveries` | the callback outbox: rows, the engine's first attempt, polling workers, queue consumers, recovery sweep, replay, retention | `row[d]`, `attempt[a]`, `batch[w]`, `job[d]`, `replay[d]` |
| `RunFeed` | the ends of a stream, whichever bus: the engine that publishes and closes, the cancels and deletions that withdraw its run, the clients that join, read, hang up and reconnect | `run[r]`, `client[c]` |
| `MemoryRunEventBus`, `RedisRunEventBus` | the two buses | channels with cursors, retention; stream keys, mailboxes, close markers, the link |
| `RunStreams` | either bus with both ends | — |
| `StreamContract` | abstract: the numbers a client receives | `top`, `last`, `anchor` |
| `RunJobs` | rows of queued runs, their threads' claims, the worker | `row[r]`, `lease[th]`, `worker[p]`, `started[r]` |
| `MemoryRunQueue` | the in-process queue and its partitioned consumer | `items`, `active`, `claimedThreads`, `deferred` |
| `CronScheduler` | cron rows, service patches, ticks | `now`, `cron[k]`, `tick[t]`, `editor[e]` |
| `CronDispatch` | scheduler, queue, workers, inline requests, edits, crashes | — |
| `RedisRunQueue` | BullMQ jobs and the thread partitions beside them, cancels | `job[r]`, `part[th]`, `marker[r]`, `disp[s]`, `recon[c]` |
| `RedisDispatch` | the queue with services, workers, sweepers, crashes | — |
| `IdempotencyKeys` | requests under one key | `record`, `admitted`, `req[q]`, `runs`, `now` |
| `CheckpointHistory` | a thread's checkpoints under runs, prunes and rollbacks, call by call | `hist`, `claim`, `actor[a]`, `run[r]`, `backup` |
| `ThreadUpkeep` | deletion, prune requests and the TTL sweeper on that thread | `del`, `ttl`, `expired` |
| `HistoryContract` | abstract: what may happen to checkpoints | `saved`, `author`, `displaced` |
| `RunLifecycle_proofs`, `RunRequests_proofs`, `Deliveries_proofs`, `IdempotencyKeys_proofs`, `CronDispatch_proofs`, `RedisDispatch_proofs`, `ThreadUpkeep_proofs`, `RunStreams_proofs` | theorems about each (section 5) | — |
| `MC…` | instances for TLC | — |

Three abstract specifications are implemented by detailed ones, each checked as a property under a
refinement mapping (`INSTANCE … WITH`): `RunLifecycle!KeepsContract` (`RunContract`),
`RunStreams!KeepsStreamContract` (`StreamContract`, over either bus) and
`ThreadUpkeep!KeepsHistoryContract` (`HistoryContract`: `saved` is the history together with every scratch copy).

### Correspondence

Lifecycle. `row[r]` is the status column, with `absent` and `deleted` for no row; `order` the insertion
order the lists are sorted by; `plan[r]` and `stored[r]` the rollback plan and `base_checkpoint_id` in the
run's kwargs; `admitted` the store's `#admittedRunIds`; `calls[r]` the statuses of the callback rows recorded
for r; `thread` the thread row's status; `hist` its checkpoints; `closed` the bus channels closed; `holder`
and `queue[i]` the gate and the FIFO mutex of process i; `mail` the abort channel. One action is one awaited
store operation with the synchronous code around it; `Next` interleaves them freely. `PROJECT.json`'s `map`
gives the lines of each definition.

Two kinds of run differ everywhere and are both modelled: *legacy* runs, whose rows are written by
unconditional `setStatus` calls, and *native* runs, admitted in a transaction, settled by `runs.settle` and
dispatched durably. `Native` says which runs are which, so that a run of TLC can mix them.

Callbacks. `row[d]` is the row's status, attempt count, whether it still has its payload, and `due`: its
`next_attempt_at` has passed. `attempt[a]` is an attempt under way with what it read before it: the snapshot's
number, whether the payload was there, whether failing is final. Its actor is the process that recorded the
callback (named after the delivery) or a worker. `batch[w]` is what `tickOnce` claimed or listed and has still to
handle, `job[d]` the queue's job, `replay[d]` a `replayDelivery` between its two calls, and `queued`, chosen by
`Init`, whether a `DeliveryQueue` is configured. The lifecycle hands over to it where a callback is recorded:
`FinalizeWithDelivery` there is `InsertClaimed` here, `SettleNative` is `InsertDue`.

Streams. `run[r].seq` is the engine's frame counter, which a redelivered run starts again, `top` the highest
number ever published, `row` what others did to its row: nothing (`active`), a cancel (`cancelled`, or `cancelling` while
the cancel of a run read as pending has still to close the stream) or a deletion (`deleting`, with the close under way,
then `deleted`). The engine goes on publishing after each, until it notices; `Terminal` is what a `join` reads. `client[c]` is one client over its connections; `last` is its `Last-Event-ID`. In the
memory bus `channel[r]` is the frames kept and their first number, a reader's cursor an index into them; in the
Redis bus a reader first attaches (SUBSCRIBE), then replays the stream and drains its mailbox. `closedOrder` is the
order in which channels were closed, as a relation. `driver`, chosen
by `Init`, says which bus is configured, so that one run of TLC checks both.

Queues. `RunJobs` is the worker's `executeOne` with the claim of each thread; a queue driver says what is
handed to it and what happens to its answer: `handled`, `busy` (the thread is claimed elsewhere) or `thrown`. A run is
reread under the claim (`Reread`, for the reads of `startRunExecution` and `executeRun`) and written as running in a later
step that looks at nothing (`MarkRunning`); a cancel may come between. In
`RedisRunQueue` `part[th]` is the sorted set of a thread, `marker[r]` the parked marker with its
`attemptsStarted`, renumbered so that only the order of the numbers still kept somewhere matters, `disp[s]` where
slot s is in `dispatchRun` and `recon[c]` an `advance` under way. `arrived`, `failed`, `cancelled` and `overdue` are
history: registrations, jobs BullMQ gave up, runs a cancel was written for, and the advances that looked at a parked job
whose minute has ended before they promoted it.

Crons. An instant is an occurrence: every schedule fires at every instant up to `EndTime`. `cron[k].seq` is the
occurrence counter that a claim compares. `tick[t]` is one run of `tick()`; a tick that outlasts its timeout goes
on beside the next, hence several.

Keys. A run goes by the name of the request that made it. `record.by` stands for the claim id, `at` for the time a
request read before it claimed. `cover[q]` is history: until when the key is promised to be q's.

Upkeep. Checkpoint n is the n-th ever written, `author[n]` the run that wrote it. `actor[a]` is what run or prune a
is doing, with what it keeps and what is in its scratch copy. `strays` is history: since the erasure someone the
deletion does not reach was at the checkpoints — a rewrite, a run created or aborted otherwise, or a prune that
waited for the claim, which looks for active runs and not for the thread (`Rewriter`). `ttl` is `failed` once the
sweeper's prune has thrown (`Troubled`); the catch then leaves the expiry as it is (`Missed`). In `HistoryContract` a prune
may take what is older than a checkpoint that stays, and a rollback what displaced runs wrote.

### Abstractions

Each keeps every state change of the code.

- One thread in the lifecycle, one in `ThreadUpkeep`, one per partition in the queues. Threads share nothing but
  the queue and the process.
- A run of the lifecycle saves at most one checkpoint, named after it. A superstep under way completes after an
  abort (`GraphWrite` stays enabled), as it does in LangGraph. There a rollback is one step; `CheckpointHistory`
  has its calls.
- The in-memory `rollbackPlans` map repeats what the kwargs hold and is not a variable of its own.
- `Pull` merges the worker's row read, kwargs read and `tryAcquire`; `Reread` repeats the row read under the
  claim, so nothing is gained by splitting them. `ApplyPlan` merges the revert and the row deletions, which
  happen under the claim.
- `SettleNative` merges the read of the callback's target and `settle`; a run deleted between the two may or
  may not be notified, and both are allowed.
- `Crash` queues a native run that had not reached the queue again at once: admission's dispatch lease does
  that when it expires.
- The deletion of a row also forgets its admission, which no one can tell: a deleted row takes no status.
- A delivery is due or not: delays have no length, and `Elapse` lets one pass. The lease is held to outlast the
  batch it covers (`deliveryLeaseMs` is computed from its size) and the sweep's margin the hand-over to the
  queue, unless `Pauses` says that a process may be slower than that.
- A POST and the record of its answer are one step: between the two the row looks the same to everyone, and a
  crash in between is a crash before the step, after which the receiver hears twice, which at-least-once allows.
- Due rows are claimed soonest first; any page of due rows may be taken, which includes that one.
- A worker consumes one job at a time; two workers stand for two slots of one process as well.
- BullMQ is modelled from how it is used: one job per id, attempts, an active job that nobody holds being
  redelivered once (`maxStalledCount` is left at 1) or dropped.
- Redis bus: a joiner's close, SET with PUBLISH, EXISTS with the sweep, a page of a backlog and the registration
  of SUBSCRIBE are one step each; MAXLEN is exact; a PUBLISH reaches who listens at once or, while the link is
  down, never. The markers of a run outlive a reader's attach and replay.
- `advance` merges `zrange`, `getJob` and `getState` into one look; the marker and the promotion are steps of their own,
  between which the parked minute may end and anything else happen. Its bound of 100 rounds is left out.
- The runs of the queues are legacy ones, whose row is written unconditionally; `RedisDispatch` deletes no row and has the
  cancels, `CronDispatch` the deletions. A settle or store call that fails after the run was marked running
  (`SettleFails`) is in `RedisDispatch` only: a run left running is executed again when the job is retried, which
  `StartedOnce` of the crons does not promise.
- An advance of a cron that fails is the tick that did not advance it, as the scheduler swallows the error; the replay of
  a delivery removes and adds its job in one step.
- Cron runs have no delay. Waiters of the local lock are not served before a `tryAcquire`.
- Requests under a key all come from one principal to one route, so that scope and header checks have one outcome.
- `ThreadUpkeep` merges the claim with the row read after it. A prune may lose its lease (`Dies`); an execution that
  loses its lease is left out. A thread has no child namespaces, whose checkpoints follow their parents.
- Policy `never` stands for a thread without time to live, on which only clients clean up; with a policy only the
  sweeper does.
- Left out everywhere: telemetry, thread events, the `if_thread_status` guard, the deletion of a stateless run's
  thread, worker shutdown, the recovery ticks of native runs. A graph is assumed to end.

## 3. The runs

Deadlock is not checked in any of them: with every request answered and every run settled the system rests.

| Run | Instance | Shows |
| --- | --- | --- |
| `lifecycle_mixed` | a legacy inline run, a native background run, `rollback`, a waiting cancel, a delete, callbacks, failing thread writes and reverts | `TypeOK`, `OneCallback`, `DeletedStaysDeleted` |
| `lifecycle_native` | two native runs, `reject` / `interrupt` / `rollback`, a timeout, a cancel with rollback, callbacks | `OneActiveRun`, `NotBusyAtRest`, `DisplacedWritesGone`, `OnlyRolledBackWritesRemoved`, and `KeepsContract`: the lifecycle implements `RunContract` |
| `lifecycle_recovery` | two processes (interchangeable), one crash, the abort channel, `reject` / `enqueue`, a waiting cancel | `FirstTerminalWins`, `WaitedCancelMeansStopped`, `ExclusiveExecution` |
| `lifecycle_liveness` | a legacy inline and a legacy background run, `interrupt`, a cancel with rollback, fairness | `EveryRunSettles`, `TerminalClosesBus`, `CancelReturns`, `CancelRollbackDiscards` |
| `deliveries` | two callbacks, one to a refused target, two workers, batches of two, two attempts, both deployments, one crash, failing call or replay of a dead delivery; fairness | `TypeOK`, `NothingEmptySent`, `DeadSpentBudget`, `OneAttemptAtATime`, `DeliveredIsFinal`, `EveryDeliverySettles` |
| `streams` | either bus (two runs on the memory bus, which retains one; one on the Redis bus), two clients, three frames, one cancel, deletion, crash, lost link, expiry or hang-up | `KeepsStreamContract`, `ClosedMeansComplete`, `ChannelsBounded` |
| `streams_end` | as `streams`, with two frames, a Redis stream that keeps one entry, fairness | `StreamsEnd` |
| `crons` | one cron on a client's thread or without one, two overlapping ticks, one slot, one failing call, crash, patch, deletion or inline request; fairness | `Coalesced`, `StraysAccounted`, `InlineNotQueued`, `StartedOnce`, `CronsKeepUp` |
| `redis_queue` | two runs of a thread, two slots, a sweeper, a job with one attempt and one with two, one failing call, crash, lost lock, cancel or inline request, and enqueueing again; fairness | `StartsInOrder`, `NativeDelaysKept`, `NotReexecuted`, `EveryRunServed` |
| `idempotency` | two requests, two bodies, with and without admission, claims that expire, one failing call, crash or deletion; fairness | `NoSecondRun`, `ReplaysOriginal`, `RetriesAnswered` |
| `upkeep` | two runs, the second with `rollback` (on a free thread it is as `enqueue`), two checkpoints written, a prune, a deletion, both policies, one failing call, crash or lost lease; fairness | `KeepsHistoryContract`, `DeletedLeavesNothing`, `ExpiredCollected` |
| `idempotency_other_body` | two requests with different bodies, admission | `AnswersOwnBody` fails |

The modules `RunLifecycle`, `Deliveries`, `RunStreams`, `CronDispatch`, `RedisDispatch`, `IdempotencyKeys` and
`ThreadUpkeep` each state a `TypeOK`. `lifecycle_mixed` and `deliveries` check theirs; the others hold in their
instances too (add `INVARIANT TypeOK`) and are left out of the configurations for time.

Bounds. Two runs are a run and the one that displaces, follows or outlives it, which is all that the hazards
need; `lifecycle_turns.cfg` is the larger instance with three, where a displacing run is displaced itself, so that
a plan names a run that had a plan. A client cancels and deletes a run once and a process crashes once: the second
time meets the same states. Two processes are what it takes for an abort, a job or a claim to cross. For
callbacks, two attempts are a first and a last one, which differ; two deliveries make a batch whose tail waits for
its head. `MaxTrouble` counts faults, crashes and interventions together, so that each is met alone, from every
state. Streams: a channel that keeps one frame of three and a mailbox of one overflow at once; one client may fall
behind while the other keeps up, and the engine of a withdrawn run can publish behind the close. Crons: two ticks overlap, which is what the claim token is for, and three runs
are two occurrences and an inline run. Queue: two runs are a head and a follower; one job has a second attempt, whose backoff counts, and one has none, whose run is enqueued again.
Keys: a claim holds one instant, a response two, and requests are sent in the first two, so that a claim expires
under a working request and a response before a late one; three requests were checked for safety as well. Upkeep:
a history of two checkpoints before the first run has something to prune and a base to return to, and two more are
a turn's and what lands after an erasure or between two turns; with `enqueue` as well, with `MaxTrouble = 2`, and
with three turns that do not roll back (`MaxWrites = 3`) the safety properties were checked too. Every action fires
in some run. The inductive invariants of section 5 were checked on such instances before they were proved.

Fairness. `RunLifecycle!FairSpec` asks weak fairness of `Progress`: if something that the scheduler owns can go on
— an execution, a request under way, the head of the claim's queue — something does. The code justifies it as long
as the process lives: every continuation of a resolved promise runs, the mutex is FIFO, the worker asks the
queue again for a deferred job. As every request and execution takes finitely many steps, one condition for
all of them suffices. New requests, timeouts, delivery of aborts, the unawaited persist and crashes are never
assumed to happen, and `EveryRunSettles` is checked with no crash, because a legacy inline run is lost with
its process.

The other specifications have a condition per actor: an attempt, a tick, an execution, a rewrite, a handler that
has begun goes on (promise continuations run); loops tick again (their `finally` reschedules them); timers fire;
time passes; the Redis link comes back; BullMQ finds stalled jobs. `streams_end` asks weak fairness of its readers
together, which is enough as each has finitely much to read. Strong fairness is asked where an actor competes:
`Take` (BullMQ's waiting list is first in, first out), `Sweep` per thread (the sweeper goes round all of them), `Claim`
(the mutex is FIFO) and a client that is told to retry. Crashes, failing calls, edits and new requests are never assumed to happen.

## 4. What the runs say about the code

Holding properties are the normal result; they are listed above. One listed run refutes what a comment and a document
say:

- `idempotency_other_body`. When the handler of a create fails, `idempotent-handlers.ts:213-227` looks for a run
  that was accepted under the key all the same, and answers with it whatever body it was made for and however
  old the admission is. A request that takes over the key with another body is refused by admission
  (`idempotency_key_reused`) and then answered 200 with the other request's run, where
  `docs/agent-protocol.md:481` has a 422 and the comment at 169-170 calls this "actively wrong".

More instances are kept beside them as configurations that end in a counterexample, each a place where a
document or comment and the code differ:

| Configuration | Property that fails | What differs |
| --- | --- | --- |
| `terminal_reopened` | `FirstTerminalWins` | "A terminal run never transitions again" (`run-status.ts:31-32`): `executeRun` reads the row at 449 and writes `running` at 456, for a run outside admission unconditionally; a cancel in between is overwritten and the run executes |
| `backoff_promoted` | `OnlyParkedPromoted` | "Only Skein's parked followers may be promoted" (`redis-run-partitions.ts:72-74`), so that a head in retry backoff is left alone: `advance` reads the job's state (66), takes the marker (77-83) and promotes (85) in separate calls, and nothing keeps BullMQ from ending the parked minute between them. The head executes, fails into its backoff, and the promotion cuts that; `NativeDelaysKept` says that this is the only way |
| `later_turn_lost` | `OnlyRolledBackWritesRemoved` | a cancel with rollback reads the base, waits for the claim and reverts; that the run is still the latest (`run-service.ts:828`) is checked for native runs only, so a legacy run's rollback discards a turn executed during the wait |
| `displaced_write_survives` | `RollbackErasesDisplaced` | "A displaced run with no recorded base never wrote checkpoints" (`run-service.ts:641-643`): one between its claim and the recording of its base is aborted after that read, and its first superstep may still be saved |
| `thread_left_busy` | `IdleAtRest` | a native cancel settles the row and mirrors idle between the engine's `running` and its mirrored busy; if the graph then fails by itself, `run-engine.ts:700` does not mirror, as the row is not `error`, and the thread stays busy with nothing active |
| `delivery_reopened` | `DeliveredIsFinal` | `recordAttempt` is unconditional; `core/src/store/deliveries.ts:211-214` gives as the cost "one duplicate POST". An attempt that outlives its lease and fails overwrites a delivered row, whose payload is gone, and the next attempt sends none |
| `cron_dormant` | `DormantIsOver` | `docs/crons.md:117`: a null next date means dormant; two patches that race on a stale read (`cron-service.ts:266`) leave an enabled cron without one |
| `third_turn_lost` | `KeepsHistoryContract` | "A `rollback` run drops the displaced run's writes" (`run-execution.ts:86`): it reverts to the base it planned for whenever it gets the claim, and a third turn that got it first, created later or delivered while the job waits to be delivered again, loses its checkpoints |
| `deleted_checkpoint_left` | `AbortedRunsSweep` | `thread-service.ts:404-405`: a run unwinding from the abort sweeps what it writes. One that settles between the erasure and the deletion of the row finds the thread and does not sweep |

Seen while modelling, outside the instances above:

- Rollback: "A `rollback` run drops the displaced run's writes" (`run-execution.ts:86`), but a run that a crash delivers
  again reads the tip as its base anew (`run-engine.ts:482-485`) and overwrites the recorded one
  (`run-execution.ts:143`). The tip may be its own checkpoint, and the rollback then keeps what the first attempt wrote:
  `displaced_write_survives` with `MaxCrashes = 1` and `DisplacedWritesGone` shows it.
- Lifecycle: for *legacy* runs a callback may report another status than the row ends with (`cancelRun` writes
  `cancelled` over a row that settled after its read, `run-service.ts:879`); if a callback was recorded and the
  thread write then fails in the catch block the thread may stay busy; a pending run that is deleted, or that its
  job finds finished, leaves `startRunExecution` before the engine and nobody closes its bus.
- Callbacks: replaying a delivery that is being attempted (`retryNow` looks at the payload only), and a failing
  hand-over whose fallback record lands after the delivery was made, reopen it too; `Replayed` and `Pauses` admit
  them.
- Streams: a redelivered run numbers its frames from 1 again, so that a client that reconnects behind the old
  numbers misses the new ones (`ClosedMeansComplete` asks for one attempt). A frame published while the link of a
  reader is down is skipped, though it is in the durable stream (`docs/streaming.md:133`). A reader that hung up
  is released at the next frame or close only. "Rather than being handed a silent gap" (`docs/performance.md:145`), a
  slow Redis subscriber is ended; but `MessageMailbox.push` accepts messages again after the overflow, so that it sees the
  gap before the end. And the final `end` event (`docs/streaming.md:49`: the run's terminal status) reports the status of
  the moment, `running` included, when the stream ended for a slow reader.
- Streams of withdrawn runs: `cancelRun` writes the row (`run-service.ts:877`, `879`) before it aborts, and the engine goes on
  publishing until it notices (`run-engine.ts:588-604`, and the error frame at 698). A `join` in between closes the stream
  (`run-service.ts:1116`), as a deletion (`thread-service.ts:398`) and the cancel of a run read as pending (885) do: a
  client ends by that close and misses the frames after it. So `ClosedMeansComplete` asks for a row that is the
  engine's. In memory such a frame, published after the closed channel was released, opens a channel again, whose readers
  wait until the engine closes it: `StreamsEnd` does not count that time.
- Streams, trimmed: where the stream may hold fewer frames than a run has, a reader can lose
  frames in two more ways, which came out of the proof of `KeepsStreamContract` and TLC confirmed: when the check for a closed
  stream after the replay sweeps a trimmed stream though the mailbox holds the frames between (`StreamMaxLen = 1`,
  `SubscriberBufferFrames = 3`); and when between subscribing and replaying a crash and a lost link let a later attempt
  trim the earlier one away (`StreamMaxLen = 2`, one mailbox frame, two troubles).
- Crons: a patch written over a tick's advance can fire an occurrence again.
- Redis queue: a run that was cancelled between its reread and the write of `running` is executed all the same, and again
  by its next delivery (`NotReexecuted` excepts it), as in `terminal_reopened`. A worker that lost its lock still removes
  its run from the partition, which costs a run that was enqueued again its place; the order is promised to runs whose job BullMQ never gave up.
- Keys: a response recorded after its run was deleted escapes the erasure and expires by itself.
- Upkeep: a deletion takes no claim: a prune or rollback that is replaying puts checkpoints back under a deleted
  thread; so does a prune that waited for the claim while the thread was deleted and found no active run
  (`thread-service.ts:529`), even after the aborted run has swept, which came out of the proof of
  `NothingLeftOfDeleted`; and a run aborted earlier for another reason than a cancel does not sweep. A rollback that fails after
  its erasure lets the run go on with part of the history, where `run-execution.ts:111` says that nothing is
  destroyed; the copy survives. A sweep whose prune found a run active rearms the expiry once that run has ended,
  without pruning. The `delete` policy does not look at the expiry again after listing. The copy of a thread reads
  the history without the claim.

## 5. What is proved

Every theorem is about the specification the runs check (its safety part `Spec`) and holds for all values of the
constants that satisfy the named assumptions: any number of runs, processes, workers, ticks, requests, any bounds on
faults and crashes. Each rests on an inductive invariant `IInv` with `Init => IInv` and `IInv /\ [Next]_vars => IInv'`, one
lemma per action, combined by PTL. No theorem has a hypothesis but the ones stated here.

| Module | Theorem | States |
| --- | --- | --- |
| `RunLifecycle_proofs` | `InductiveInvariant`, `TypeCorrect` | `[]IInv`, `[]TypeOK` |
| | `ClaimIsExclusive` | `[]ExclusiveExecution`: at most one run executes on the thread, none while a cancel rolls it back |
| | `SettlementInvariant` | `[](IInv /\ Core)` |
| | `DeletedRowsStay`, `NotifiedOnce` | `DeletedStaysDeleted`, `[]OneCallback`, in every deployment |
| | `NativeTerminalStays`, `TerminalRowsStay` | an admitted run's terminal status stands; `FirstTerminalWins`, if `Native = Runs` |
| | `ContractKept` | `KeepsContract`: the refinement of `RunContract`, if `Native = Runs` |
| `RunRequests_proofs` | `AtMostOneActive` | `[]OneActiveRun`, if `Serial` |
| | `WaitedCancelStops` | `[]WaitedCancelMeansStopped`, if `Sticky` |
| | `NotLeftBusy` | `[]NotBusyAtRest`, if `Calm` |
| | `CancelsDiscard` | `[]CancelRollbackDiscards`, if `Unfailing` and `Cancellable \cap Native = {}` |
| | `DisplacedWritesDropped` | `[]DisplacedWritesGone`, if `Unfailing` and `Native = Runs` |
| | `RollbacksSpareOthers` | `OnlyRolledBackWritesRemoved`, if `Ordered` |
| `Deliveries_proofs` | `TypesKept` | `[]TypeOK`, in every deployment |
| | `OwnershipInvariant` | `[]IInv`, if `Timely` |
| | `AttemptsAreExclusive`, `PayloadsAreSent`, `DeadSpentTheirBudget`, `DeliveredStaysDelivered` | `[]OneAttemptAtATime`, `[]NothingEmptySent`, `[]DeadSpentBudget`, `DeliveredIsFinal`, if `Timely` |
| `IdempotencyKeys_proofs` | `KeyInvariant`, `TypesKept` | `[]IInv`, `[]TypeOK` |
| | `ReplaysAreOriginal`, `OneRunPerKey` | `[]ReplaysOriginal`, `NoSecondRun` |
| `CronDispatch_proofs` | `CronInvariant`, `TypesKept` | `[]IInv`, `[]TypeOK` |
| | `OccurrencesCoalesce`, `StraysAreAccountedFor`, `InlineRunsStayOut`, `RunsStartOnce` | `Coalesced`, `[]StraysAccounted`, `[]InlineNotQueued`, `[]StartedOnce` |
| `RedisDispatch_proofs` | `DispatchInvariant`, `QueueTypes` | `[]IInv`, `[]TypeOK` |
| | `RunsStartInOrder`, `DelaysOfOthersKept`, `NotStartedAgain` | `StartsInOrder`, `NativeDelaysKept`, `NotReexecuted` |
| `ThreadUpkeep_proofs` | `UpkeepInvariant`, `TypesKept` | `[]IInv`, `[]TypeOK` |
| | `NothingLeftOfDeleted` | `[]DeletedLeavesNothing` |
| | `HistoryContractKept` | `KeepsHistoryContract`: the refinement, if `TwoTurns` |
| `RunStreams_proofs` | `StreamInvariant` | `[]IInv`, over either bus |
| | `ClosedStreamsComplete`, `ChannelsStayBounded` | `[]ClosedMeansComplete`, `[]ChannelsBounded` |
| | `StreamContractKept` | `KeepsStreamContract`: the refinement, if `Roomy` |

Hypotheses. `Native = Runs`: every run was created through admission; for the others the two properties are false
(`terminal_reopened`), and `NativeTerminalStays` says what remains of them in a mixture. `Serial`: no `enqueue`, admitted
runs, and one process that creates them, or `reject` only; the thread lock is in process, so two processes that both
found a thread idle both insert. `Sticky`: no crash, or the background runs that can be cancelled are admitted; a legacy
run whose cancelled row was overwritten with `running` is executed again after a crash. `Calm`: no
failing write, crash or deletion, and admitted runs or no rollback (the plan of a run outside admission deletes rows). A
failed thread write, or a crash before it, leaves the thread as it was; a run deleted before it executes never takes over
from the runs it displaced; and with a cancel the property is false (`thread_left_busy`) and does not ask for it.
`Unfailing == MaxCrashes = 0 /\ ~Faulty`: no crash, no failing call. A revert is best effort, so one that fails leaves the
writes; and a run delivered again takes its own earlier checkpoint for its base (section 4). The cancel
that reverts has to be of a run outside admission (`Cancellable \cap Native = {}`), as an admitted one that is no longer the
latest run is left alone (`run-service.ts:828`); displacement is stated for admitted runs, whose settled rows are never
active again. `Ordered == Serial /\ MaxCrashes = 0 /\ Deletable = {}`: a run starts where those created before it stopped, and
"latest" means it. Two creations at once, a run delivered again, or a deletion that makes an earlier run the latest let an
earlier row write after a later run's base, which that run's rollback then takes, as `later_turn_lost` shows for a legacy
run; calls may fail (`Faulty`), as what is not reverted is not lost.
`Timely == ~Pauses /\ Replayed \subseteq {"dead"}`: attempts end within their lease and operators replay dead
deliveries, which is what the lease is computed for and the case the run checks; without it the properties are false
(`delivery_reopened`). `TwoTurns == "rollback" \notin Strategies \/ \E A, B : Runs \subseteq {A, B}`: no rollback, or no
third turn that can come between a displaced run and the one that reverts it; without it the refinement is false
(`third_turn_lost`). `Roomy == MaxFrames + MaxTrouble < StreamMaxLen \/ (MaxTrouble = 0 /\ SubscriberBufferFrames < StreamMaxLen)`:
the Redis stream keeps all frames of a run and the closes that cancels and deletions put between them, or nothing fails and
it keeps more than a mailbox holds (the defaults are 10000 and 512; `streamMaxLen: 0`, no trimming, is a large one). Without it a reader may lose frames untold in the two ways
of section 4; the `streams` run trims, and shows the refinement for a smaller instance outside `Roomy`. The constants'
assumptions are that sets of names do not overlap, that the sets counted over (`Runs`, `Ticks`, `Slots`, `Sweepers`) are finite, that bounds
are natural numbers, and that the buses' capacities are positive, which the memory bus requires (`memory-queue.ts:251`)
and a mailbox needs to hold a frame.

The arguments.

- *Lifecycle.* `IInv` is `TypeOK /\ Settling /\ Displacing /\ Claimed`. `Claimed` — whoever works under the claim is its
  holder — makes exclusion inductive: two workers would be the same holder, hence the same task. `TypeOK` is not
  inductive alone: an execution that writes its outcome must have decided one (`Settling`), and a creation that
  displaces must have a strategy that maps to a status (`Displacing`).
- *Settlement.* `Core` says what is known of a run before its row is inserted (`Unborn`: nothing, which is why no creation
  brings a deleted row back), that a task waits for the claim once (`Waiting`), that a native row that exists is admitted
  and is never written unconditionally (`Admissions`), and who remembers a callback (`Callbacks`): a native run's row is
  told exactly once it is terminal; any other run's execution remembers the callback it recorded until it is over, its row
  is no longer active, so that the worker drops the job a crash delivers again, and only an execution that is about to
  mark its run running, before it has recorded anything, could make it active again. One lemma per action gives `Core'` and how rows move, from
  which the action properties and, action by action, the steps of `RunContract` follow.
- *Creations.* A creation in progress holds its process' thread lock (`Locked`). `Single` adds to `OneActiveRun` that nothing is active behind
  the back of a creation that found the thread idle; a creation that displaces is refused when what it listed is not
  what is active.
- *Cancels.* `Stopped`: once a cancel has written its row, only an execution that was past its check makes it active again, and
  it never starts another one; the answer of a waiting cancel comes after it held the claim, hence after that execution.
- *Busy threads.* `Busy`: while a run executes some run is active, itself or one that displaced it, or a creation outside
  admission has still to insert its row; when the last one settles, its execution has still to write a status of its own
  to the thread. `Listed` (a creation displaces rows that exist) is why such a creation always comes to its insertion.
- *Rollbacks.* `History`: the checkpoints are distinct, and what a run wrote comes after every base that is known of it —
  noted by its execution, stored on its row, read by a cancel, or kept in a plan. A base is the tip, so it is so when it is recorded,
  and a write is appended and a revert cuts off a tail, so it stays so. Then a revert to that base drops what the run wrote, and
  it writes no more: a cancel reverts under the claim, after the execution (`Rollbacks`), and a plan is of rows that are
  finished and that a run in the engine has either behind the plan's base or kept out of the engine for good (`Plans`, with
  `Choosing` for the creation that made it and `Gone` once it is applied). For the other turns the order of the rows
  counts (`Ranks`): whoever precedes a run is finished, out of the engine and, if it wrote, covered by every base of that run
  and of its plan, and while it still executes the later run has written nothing.
- *Callbacks.* Whoever attempts a delivery owns it: the run that recorded it while nobody else has touched it
  (`Recording`), a polling worker by its claim, which takes the row off the due ones (`Claiming`), a consumer by the
  queue's one active job (`Consuming`). Every write of an answer is then on a row that is still unsettled and whose count
  is the one the attempt read, which gives exclusion, payloads and finality. The budget needs `Counting`: a count read
  earlier is never above the row's, so that a job made from it has attempts enough left.
- *Keys.* `Holding` ties the record to its claimant: the same body, and once done the claimant's own answer. `Covering`
  says who keeps a promise that has not run out: the record, if there is no admission, else the record or the
  admission record. The one handler that can make a second run is one that was told so by time (`Handling`).
- *Crons.* `Tokens`: a tick whose sequence number is the row's has the row's date, so that a claim that succeeds fires the
  date that is next; `Ahead`: that date is after the tick of the last fire. `StartedOnce` needs more of the queue: a run is
  in it once (`Once`), belongs to a cron (`OfCrons`), a slot has its run and thread to itself (`Pulled`), and a row that a
  crash left running is in nobody's hands; and a run that a slot is about to mark running, having reread it, was not started
  before, which the claim keeps true until the write (`Started`). `Made` counts threads against ticks that hold one.
- *Redis dispatch.* Call a run *resolved* that is over, cancelled or whose job BullMQ gave up: nobody is to wait for it. What is not
  resolved keeps its place in the order of its thread, behind nobody who came later (`Placed`), because only resolved
  runs are removed: a slot removes a run it found over, an advance one whose job is gone, which is over or was given
  up (`Backed`). So the head of an order has only resolved runs before it, and whoever is put to work has nobody to wait for
  (`Cleared`), nor later on, as resolved is for good. That is the order of starts, and it holds when two slots serve one run, after a
  lost lock. For the delays, a start is *dead* if it neither is recorded as parked nor can be: no slot serves it any more
  (`Dead`). BullMQ's own delays are of dead starts (`Delays`), slots serve different starts (`Apart`), so an advance that saw a
  pause or a backoff finds no marker to take (`Taking`), and one that took the marker has a parked run, alone, until it
  promotes it (`Promoting`): all this for an advance that is not overdue, since a minute that ends, or a promotion by an
  advance whose minute had ended, makes every advance that looked at that start overdue. For `NotReexecuted`, whoever is about
  to write `running` holds the claim since it read the row (`Executing`), so that only a cancel can have finished the run
  meanwhile. `Rank` renumbers a start's numbers; that it keeps their order is a lemma about cardinalities.
- *Upkeep.* One process at a time holds the claim (`Claims`), and what it has taken from the history is in its scratch
  copy before it erases (`CopyOK`), back in the history when it drops the copy (`Undisturbed`). What it does not put back is
  older than what a prune keeps, or newer than the base of a rollback (`Aimed`). A base is the newest checkpoint of its
  time, so no earlier turn's is newer (`MarksOK`), and a turn that still has to revert has written nothing (`TurnOK`): what
  the rollback takes is the other turn's. After the deletion only runs it aborted can write, and each of them still
  has its sweep before it (`Deserted`). The refinement then goes step by step: every step adds what a run writes, loses
  nothing, or is one of the two that erase, a sweep or a deletion.
- *Streams.* In memory, frames are numbered up to the run's sequence number without a gap (`Counting`), so that a cursor, an
  index into what is kept, counts from it (`Position`), and trimming moves every cursor that stays. The channels closed
  are in a total order (`Ordered`), and evicting by rank leaves the cap or channels still read (`Capped`). In Redis, a
  stream never jumps ahead (`Smooth`), and nothing is behind its close as long as the row is its engine's and the attempt the
  first (`Ending`, under `Unbroken`); frames behind the close of a withdrawn run still follow the ones before it. Whatever a reader has before it goes
  on from what it has seen, as long as nothing was lost that it is to be told of: the page in its hands (`PageIs`), the
  entries it has not read (`UnreadIs`), its mailbox (`LiveIs`); and what the mailbox got before the replay the stream
  still holds (`Covered`). A close of an unbroken run comes after the last number wherever it is found (`Complete`). The refinement follows
  action by action: a frame handed out is the next one, or the first of a connection.

The proofs changed the model in two places: `strays` did not count a prune that rewrites a deleted thread, and the run,
with a single checkpoint to write, could not see that `DeletedLeavesNothing` was false there; and the order in which
channels were closed, a sequence filtered at each eviction, is now a relation, which can be reasoned about without induction.

Only model-checked: the liveness properties, as fairness and ENABLED are beyond the prover. Every safety property of
a passing run is proved, under the hypotheses above.

## 6. Not modelled

- The Postgres and SQLite drivers implement the store contract in SQL, each operation one transaction; their
  operations are modelled from the memory driver, whose behaviour the conformance suite shares. The boot
  reconciliation of SQLite and the migration lock have no peers to race with in one process.
- The thread event bus has the run bus's hazards with generations in place of close markers; the channels pipeline
  turns events into requests of the API modelled here.
- Authentication, assistants, items, A2A and MCP, HTTP adapters, assembly, configuration and heap pressure are
  single-step reads and writes or translation. The console, CLI, scaffolding, telemetry, benches and examples, which
  are most of the repository's lines, keep no state that others depend on.
- Of the modelled components `PROJECT.json` says what is left out of each.

## 7. Plan

The proofs have reached every modelled component; the modules declare no RECURSIVE operator. What is left is to weaken
a hypothesis of section 5: `CancelRollbackDiscards` in a mixture of admitted and legacy runs, from "a cancel that did
revert"; and `DisplacedWritesGone` for runs outside admission, where the plan deletes the rows of a task that may still
be at work.
