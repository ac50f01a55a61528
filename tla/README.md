# simplicio-loop: a TLA+ model of the coordination core

simplicio-loop drives coding agents through a loop of plan, execute, validate and
deliver. Most of its code is orchestration around files, subprocesses and remote
services. What has to be right under concurrency and failure is a much smaller
core: who holds a resource, which job runs next, what it may use, and what
survives a crash. This directory models that core: the lease store, the Hub
with its scheduler, governor and durable queue, the remote queue with its workers,
the async pipeline, the map service's single flight and the checkpoint lifecycle.

## 1. Inventory

State, operations, interactions, and what makes each part hard.

| part | state | operations | hard because |
|---|---|---|---|
| `slot_lease.LeaseStore` | append-only journal of lease events in the MapperStore; projection: leases, fence counters, protected values | acquire, heartbeat, put, release, mark_stale, reclaim, invalidate, invalidate_owner | any number of processes, no lock: optimistic replay and compare-and-swap; crashes; wall clock |
| `hub_scheduler.FairScheduler` | registry, one queue per client, in-flight and quota counters, deficits, cursor, rollout policy | enqueue, next, complete, cancel, configure_policy | starvation, counters that clamp at zero, entries that outlive their job |
| `hub_governor.ResourceGovernor` | leases by key, global and per-client usage, drain flag, circuit breaker | admit, release, record_failure, evaluate_pressure, evaluate_gpu_pressure, recover, drain, shutdown | idempotent admission, double release, timed half-open |
| `hub_queue_retry.HubRetryQueue` | jobs with attempts, fence, lease and expiry (journal snapshots), and the Mapper's own task and lease tables | submit, admit_held, claim, heartbeat, complete, fail, requeue | two durable stores written one after the other; expiry; bounded retry |
| `hub_service.HubService` | none of its own: composes the three above | submit, claim, complete, fail, rehydrate_scheduler | each call is several steps of three parts that lock separately |
| `hub_daemon.HubDaemon` | `_claims`, sessions, legacy job table, policy manifest | hub_* handlers, legacy submit/claim/result/cancel/resume, start, stop | restart with durable work outstanding, late reports, two job paths over one queue |
| `resource_fabric`, `agent_slots` | admissions and slots on top of leases | admit, renew, release, sweep | time-limited guard and lease must agree |
| `remote_queue.SQLiteRemoteQueue` | tasks, leases and fences in the MapperStore; the queue's own event journal | claim, heartbeat, release, complete, request_cancel | two stores written one after the other, no common transaction; idempotent claims; cancellation aimed at a lease that may be gone |
| `worker_daemon.RemoteWorkerDaemon` | `state` shared by two threads: lease, cancelled, lease_lost | try_claim, run_task, the heartbeat loop, check_cancelled | the join of the heartbeat thread may time out; lease lost while work runs; crash and restart |
| `async_bounded_queue` | bounded buffer, `_unfinished`, closed flag | put (wait, coalesce), get, task_done, close | full queues on both sides of a stage, coalescing against counting |
| `remote_worker_cli._serve_async_main` | stop event, ingest, dispatcher and writer tasks, two queues | discover, claim, run, report, ordered shutdown | stages that wait for each other; failing stages; SIGTERM at any await |
| `map_service`, `map_service_single_flight` | views by cache key with reference counts; in-flight futures, completed keys | get_or_build, get_view, release, invalidate, gc | owner fails or is cancelled while others wait; invalidation between result and lookup |
| `checkpoint_lifecycle`, `generation_broker` | overlays, checkpoints, cancellation receipts, leases, the promotion fence; the broker's lock and gc journal | checkpoint, converge_selected, seal_winner, cancel, bind, pin, release, gc | processes that share files and are killed between any two of them; some paths take the lock and some do not |
| `work_item_claims`, `local_task_queue` | SQLite rows with leases | claim, heartbeat, complete, reclaim | expiry against late completion, idempotent claim |
| run and attempt journals | append-only files | append, replay | crash inside a record |
| `stage_agent_coordinator`, `prism_scheduler`, `fabric_scheduler` | DAG of stages and their attempts | dispatch, report, recover | duplicates and late results |
| `worktree_queue`, `merge_executor`, delivery | worktrees, branches, merge queue | allocate, merge, release | git as shared state |
| `runner`, `hooks/loop_stop`, oracle, auditors | run state files, budgets | transitions of a run | long sequential protocols |
| supervisors, engine, adapters, CLIs | process groups; none | spawn, kill; pure functions | operating-system behaviour; not protocol state |

How they interact. A Hub client submits a job; `HubService.submit` makes it durable
in `HubRetryQueue` and registers it with `FairScheduler`. A worker's `hub_claim`
asks the scheduler for a candidate, the governor for its resources and the queue
for a lease, in that order, and the daemon keeps the result in `_claims` under the
task's identifier. `hub_complete` and `hub_fail` pop the claim, decide the durable
outcome and give resources and slot back. On a restart the scheduler and the
governor are empty and `rehydrate_scheduler` refills the scheduler from the
queue. `LeaseStore` and `HubRetryQueue` both keep their journal in the external
MapperStore.

Apart from the Hub, remote workers lease tasks from `SQLiteRemoteQueue`, directly or
over HTTP. `RemoteWorkerDaemon.run_task` works in the main thread and heartbeats in a
second one, which learns of a lost lease or of an operator's `request_cancel`.
`serve --async` runs the same daemon inside a pipeline: ingest, a bounded queue, the
dispatchers, a coalescing bounded queue, and one writer of the status file.

Candidates of an attempt write checkpoints into overlays. A coordinator selects one,
seals it with the promotion fence (a file created exclusively) and cancels the others;
collectors, one in the broker and one on the command line, remove what was cancelled
and is not pinned.

`PROJECT.json` lists every component with its status, and under `hazards` each
place where this code can go wrong in a way a test would hardly reach.

## 2. Modules

| module | models | composed from |
|---|---|---|
| `LeaseJournal` | constant operators: a lease, its guards, what an event does to the projection | |
| `LeaseStore` | `slot_lease.LeaseStore` | `LeaseJournal`; refines `FencedResource` |
| `FencedResource` | abstract promise of `docs/SLOT_LEASES.md` | |
| `LeaseStoreProofs` | theorems about `LeaseStore` | |
| `JobScheduler` | the scheduler's bookkeeping, with the choice of client left open | |
| `FairScheduler` | the whole scheduler: deficit round robin, aging, FIFO modes | extends `JobScheduler` |
| `FairSchedulerProofs` | theorems about `FairScheduler` | |
| `ResourceGovernor` | governor and circuit breaker | |
| `HubRetryQueue` | durable queue, its journal and the Mapper | |
| `HubPartsProofs` | theorems about `HubRetryQueue` and `ResourceGovernor` | |
| `HubService` | service and hub_* handlers, crash and rehydration | `JobScheduler`, `ResourceGovernor`, `HubRetryQueue` |
| `HubServiceProofs` | theorems about `HubService` and its parts in it | instance of `HubPartsProofs` |
| `RemoteQueue` | `SQLiteRemoteQueue`: its journal and the MapperStore | |
| `RemoteWorker` | worker daemons with two threads each, an operator | extends `RemoteQueue` |
| `RemoteWorkerProofs` | theorems about `RemoteWorker` | |
| `AsyncBoundedQueue` | what the queue's operations do to one queue | |
| `ServeAsync` | `_serve_async_main` | two `AsyncBoundedQueue`s |
| `ServeAsyncProofs` | theorems about `ServeAsync` | |
| `SingleFlight` | `SingleFlightMapStore` over the registry of `MapService` | |
| `SingleFlightProofs` | theorems about `SingleFlight` | |
| `CheckpointLifecycle` | coordinators, collectors and operators on the files of an attempt | |
| `CheckpointLifecycleProofs` | theorems about `CheckpointLifecycle` | |
| `MC*` | instances for TLC | |

Operators whose comment calls them a faulty variant are not part of the model.
Each is a plausible mistake in the code it stands next to, and `mutants` in
`PROJECT.json` says which property notices it.

### LeaseStore

Every operation replays the journal, reads the clock, checks its guards on the
projection, builds one event and appends it with `expected_seq`. The model has two
steps for that: the operation's action (`Acquire`, `Put`, ...) leaves a draft event,
`Commit` appends it if the journal has not grown, `Conflict` sends the call back to
the replay (at most `MaxTries` times, except in the loops of `mark_stale` and
`invalidate_owner`). Between the two halves other processes commit, the clock moves
(`Tick`; `StepBack`, a wall clock that is set back) and the process may die, before
the append (`Crash`) or after it (`CommitThenCrash`). `grants`, `holders` and
`latest`, the largest time the clock has shown, are history.
Values are told apart by their writer and fence; receipts and reports are left out.

### JobScheduler and FairScheduler

One action per locked method. `next()` walks the clients from the cursor and credits
each waiting one per visit; the model computes the visit in which the first client
can pay (`Affords`) and the credits up to it (`Credited`) instead of looping.
Deficits are kept in half units since the smallest priority multiplier is 0.5. `age`
is the time since a client was served, capped at `aging_ticks`. `passed`
is history and counts the calls that passed over a client's oldest job. Completing a
waiting job leaves its queue entry, and cancelling a dispatched one leaves its
in-flight count, exactly as in the code. `EntriesBut` is the deque that `cancel`
rebuilds. Clients are finitely many (`FairAssumption`): the bound on waiting counts them.

### ResourceGovernor

One action per locked method. `cooling` is what is left of the breaker's cooldown.
Zero limits mean "none", and subtraction clamps at zero, as in the code.

### HubRetryQueue

Each operation writes the Mapper first and the journal second under a lock of the
process; the `Torn*` actions are the operation cut off by a crash in between. The
Mapper's operators are external: they say what the hub's code relies on. A lease is
identified by the task, the Mapper's fence and the hub's fence.

### HubService

`pc` says how far each worker's call has got. A call's steps are the calls of the
parts: `Submit`, `Enqueue`; `StartClaim`, `NextCandidate`, `Admit`, then `Refused`
and `RequeueRefused`, or `Claim`, or `ClaimNothing`, `Unclaim` and `DropCandidate`;
`Report`, `CompleteDurably` or `FailDurably`, `ReleaseResources`, `Retire`,
`EnqueueRetry`. `QueueRaises` ends a call at its queue operation: `claim_specific`
raises on a `ttl` that is not positive, which `hub_claim` passes on unchecked,
`complete` and `fail` on a lease that is no longer valid, all of them when their store
fails, and `get_payload` may raise once the lease is written. Nothing catches it;
`raised` is history and remembers the task until the daemon restarts. A write torn
between the two stores, by a crash or a failing save, is left to `HubRetryQueue`. Steps of several calls interleave, as they do for in-process callers
and on the named-pipe transport, which has a thread per connection; on the Unix
socket the event loop runs a call whole, which is a special case. `Crash` empties
everything in memory, `Rehydrate` refills the scheduler, and workers keep the tasks
they were given. `scheduler.next()` is `JobScheduler`'s `Dispatch` with any eligible
client, a superset of what the fair choice allows as long as four visits pay for any job
(`NextServesOrNobody`).

### RemoteQueue and RemoteWorker

`mapper` and `fences` are the MapperStore (external), `journal` the queue's events
that some reader looks at. Every operation changes the store first and appends its
event in a later step: `ClaimTask` and `EmitClaimed`, `EndLease` and `EmitOutcome`,
`Heartbeat` and `HeartbeatAnswer`. `request_cancel` is the mirror image: it reads the
current lease (`RequestCancel`) and appends later (`EmitCancel`). `pc` is a worker's
main thread and `hb` its heartbeat thread; `ReadFlags` may run while a heartbeat is
still under way, since the join has a timeout. A heartbeat call that begins only after
`stop_work` is set is not in the model, its late answer is. `HeartbeatUnavailable` is an unreachable
queue or an answer that got lost, `HeartbeatBreaks` an exception the loop does not
catch, `Crash` a death at any point, after which the supervisor starts the worker
again with the same keys.

### AsyncBoundedQueue and ServeAsync

The queue is a record and each operation a function of it; an operation that waits is
the guard of the action that ends the wait, because every change wakes all waiters and
each tests again. The one place where waiting shows is a coalescing `put`: it looks for
its key on entry only, so a put that had to wait appends a second item under the same
key (`SendWaiting`). An action of `ServeAsync` is what a coroutine does between two
suspensions. Dispatchers may fail (`DispatchRaises`), and so may the write of the status
file (`WriterRaises`), which ends the writer's task; main learns of it only when it awaits
that task, last of all. `reported` and `unwritten` are history.

### SingleFlight

One cache key, its clients, the registry's object for it (`registered`, a version, and
`references`, that object's count), and the in-flight future. `Enter`, `BuildView`, `BuildFails`, `Publish` and `Resume` are the
segments of `get_or_build` between suspensions; `Cancel` cancels a waiter's task, and
with it the shared future it awaits without a shield. An owner runs its builder inline up
to the builder's first suspension, so `BuildView` may come at any time after its owner
started: before waiters woken earlier have resumed, and long before `Publish` or
`BuildFails`. `overlapped` and `orphaned` (the registered view's owner failed after
registering it) are history.

### CheckpointLifecycle

One action per file an operation touches: `SealCheck`, `SealCreate` (O_EXCL),
`SealWrite`, `SealSync` and `SealFails` for the fence, `CancelLoser` for each receipt,
`GcOverlay`, `GcCheckpoints` and `GcReceipt` for a removal. The broker's collector holds
the lock from scan to commit, so `Pin` waits for it; the command line's takes none. A
killed process restarts from the beginning (`CoordinatorRestarts`, `GcCrash`); the
broker's recovery scans afresh and is therefore `GcScan` again. The digest of a fence is
what the coordinator read of all checkpoints. Every coordinator selects among all
candidates that have a checkpoint; in the code the candidates are its caller's list, which
may differ between callers. `byOperator` and `withdrawn` are history.

## 3. Runs

| run | shows | bounds, and why they suffice |
|---|---|---|
| `lease_store` | fencing, attempt numbering, holders, refinement | two processes, two owners, one resource and key, four events, two tries, a lifetime of 1 and a clock in 0..1 that goes either way: enough for grant, expiry, takeover, a late write by the first owner and an expired lease that looks live again |
| `fair_scheduler` | quotas, exact totals, bounded waiting | two clients with three and two jobs of different cost, weight and priority (symmetric within each pair of equal jobs), quotas that each refuse on their own in some state, in-flight limit 1, modes on and off; `MaxDeficit` stops `next` once a blocked client has saved up more than any job costs |
| `resource_governor` | budgets, exact usage, probation, drain | three keys, two clients, one unlimited resource, threshold and cooldown 2 |
| `hub_retry_queue` | fencing and finality across torn writes | two tasks, three leases each, clock to 3, lifetimes 1 and 2, backoff 0 and 1, two attempts |
| `hub_service` | books of scheduler and governor agree with the claims; nothing leaks but on a task a queue operation raised on; no queued job is lost from the scheduler | two workers, two jobs, one unit of resource, expiry, crashes and raising queue operations, quotas with room for both jobs and no backoff; workers are symmetric, and so are the clients each with its job |
| `hub_service_calm` | every job ends, unless a queue operation raises | the same without crash and expiry |
| `hub_service_stale` | violation: stale worker decides with the new lease | as `hub_service` |
| `remote_worker` | exclusion per fence, aimed cancellation, final completion; lost or cancelled workers stop | one task, two workers with a key each, two leases, one cancellation, lifetime 2 and clock to 3: the second lease follows an expired, released or orphaned first one, and a heartbeat can extend the first past its original expiry |
| `serve_async` | exact counters, flushed reports, orderly end, with failing dispatchers and a failing writer | two dispatchers, two tasks, room for one candidate and two reports: both queues fill, and reports wait while their key comes and goes |
| `single_flight` | one owner, no build over a valid view but one its owner abandoned, exact references, every call returns | four clients: an owner, two waiters of whom one is cancelled or resumes late, and a newcomer; two invalidations, so that a rebuilt view is invalidated again |
| `single_flight_gc` | violation: gc removes a view somebody holds | three clients, two invalidations |
| `checkpoint_lifecycle` | one sealed winner that keeps its files; pins respected | two candidates, two coordinators that may disagree, both collectors, two checkpoint writes (one each, the least that lets anybody select); a state in which a complete fence was withdrawn is not extended, since the seal's properties end there and the collectors never read the fence |

Deadlock is not checked for `HubRetryQueue` and `RemoteWorker`, whose work ends when the
clock's and the leases' bounds are reached, for `ServeAsync`, which exits, and for
`SingleFlight`, whose clients ask once; everywhere else it is. The type invariants of
`FairScheduler`, `HubService` and `RemoteWorker` document the state and are not listed
in a run.

Fairness.

- `hub_service_calm`: a call under way takes its next step (the threads run), an idle
  worker polls, and a worker that was given a task reports on it sooner or later even
  if it polls in between. Workers that die are outside this run. A queue operation may
  raise and need not. `EveryJobEnds` assumes
  that submissions stop: a client that submits a finished job again for ever makes the
  service admit it for a moment each time, and another job can be refused in each of
  these moments.
- `remote_worker`: both threads of a process that stays up keep running, and `work_fn`
  polls `check_cancelled` (`sleep_in_slices` does). Work may last for ever and nobody
  need look for tasks; a crash may always come instead.
- `serve_async`: the loop runs every coroutine that is ready and every call made in a
  thread returns. Nobody need send SIGTERM, and nothing need fail.
- `single_flight`: builders end one way or the other (they have a timeout), and the loop
  resumes every task that can run. Nobody need release.

### What the violations mean

- `hub_service_stale`: a claim is looked up by task only, so a late report acts on the
  lease of whoever holds the task now.
- `single_flight_gc`: releasing goes by the cache key and a rebuild resets the
  references, so an old handle's release can take away the reference of a new one, and
  gc removes a view that is in use. `ReferencesCountHandles` says that nothing else
  does: as long as no held view is rebuilt, the count is exact.

### Where the code promises less than one may expect

These are visible in the models and no property claims the contrary.

- `max_attempts` bounds failures, not expiries (`hub_queue_retry.py:516`): a job that
  kills its workers is retried for ever, although
  `docs/HUB_QUEUE_RETRY_RUNBOOK.md:72` reads as if it were not.
- A report after expiry leaves the governor's reservation and the scheduler's slot
  taken until the daemon restarts; the claim is already popped. `HubService` offers
  no heartbeat, so a job longer than its `ttl` always ends this way.
- A claim whose `claim_specific` or `get_payload` raises leaves them taken too
  (`hub_service.py:186`, `193`), with no expiry and no crash: `hub_claim` does not check
  the client's `ttl` (`hub_daemon.py:732`) and the check that raises
  (`hub_queue_retry.py:504`) comes after both were taken. The job stays in flight and is
  not dispatched again while the daemon runs. `NothingLeaks` says that nothing but a
  raising queue operation leaks, and only on the task it raised on; `EveryJobEnds` claims
  nothing once one has raised, since what it keeps may be what other jobs need.
- A job in backoff during a restart stays queued and unscheduled. Without a restart,
  a retry polled before its backoff has elapsed is dropped the same way
  (`DropCandidate`).
- `request_cancel` compares the expiry in the claimed event, which no heartbeat moves:
  a lease that is renewed past it works on and cannot be cancelled any more. For the
  same reason a retried claim does not find it.
- An error the heartbeat loop does not catch (`worker_daemon.py:126`) ends the thread
  without a flag, and the work runs on; `SupersededStops` and `CancelIsSeen` except it.
- When every dispatcher has failed, ingest may wait in `put` for ever and SIGTERM does
  not end the process (`remote_worker_cli.py:284`). The same happens when the write of the
  status file raises (`remote_worker_cli.py:322`): nobody awaits the writer before line
  335, the report queue fills, and dispatchers and main wait in `report` for ever.
  `ShutdownEnds` excepts failed dispatchers and a failed writer.
- A builder that registers its view, suspends and then fails leaves a view that is valid
  and not completed (`map_service_single_flight.py:127`). A waiter woken earlier may hold
  it, and the next caller builds over it all the same. `BuiltOncePerGeneration` excepts
  exactly these views.
- A coordinator killed after creating the fence and before writing it leaves an empty
  file, and every later run of the attempt raises. One whose fsync fails unlinks a
  fence that another coordinator with the same selection may have read already.
- The command line's gc takes no lock and removes candidates pinned meanwhile.

## 4. Proofs

`LeaseStoreProofs` proves, for every set of processes, owners, resources and keys, any
lifetimes, bounds and retry limits, and for clocks that may step back:

- `TypeCorrect`, `FencesAreUnique`, `ValuesWrittenByGrantee`, `AttemptsCount`:
  invariants, from the inductive invariant `FencingInv` (theorem `Fencing`). None of
  them is inductive by itself, because a draft built from an old projection may be
  appended later. `FencingInv` therefore also says what a draft is worth while its
  `expected` still equals `seq`: its lease is the one its operation derives from the
  current projection. Reading establishes that, other workers' reads leave it alone
  (`LocalPreservesFencing`), an append invalidates every other draft by moving `seq`,
  and an append that succeeds may use it (`CommitPreservesFencing`).
- `ValuesNeverRegress`: an action property from the same invariant.
- `StoreRefines`: the store implements `FencedResource`; a commit is an `Assign`, a
  `Write`, a `Vacate` or a stutter, and everything else stutters.
- `HoldersAreCurrent`: a caller whom nobody revoked and whose expiry lies ahead of every
  time the clock has shown holds the resource. The clock may step back: the argument
  compares expiries with `latest`, which only grows, so a lease another process saw
  expired once is out of the claim for good.

`FairSchedulerProofs` proves, for every finite set of tasks and clients, any workspaces,
all costs, weights, priorities, quotas and in-flight limits and every `aging_ticks`
(`SchedulerAssumption`, `FairAssumption`), with jobs completed and cancelled at any time,
in flight too, and the rollout mode switched at any time: `TotalsAreExact`,
`QuotasAreKept` and `NobodyStarves`, from `FairInv` (theorem `FairInvariant`).

- The totals are cardinalities of the jobs of a scope, and every operation adds or removes
  one job; the clamp at zero in `_release_slot` never acts.
- The bound on waiting is not inductive: it does not say how far a waiting client has come.
  `Waits` says it with two numbers, the place `i` the client has in the order and the
  visits `v` whose credits it has saved: it was passed over at most `v` rounds of one call
  per client, and once for every place the cursor has left behind since. A call that
  passes it over either stops short of its place, and then the cursor is nearer
  (`PassedBefore`), or visits it without its being able to pay, and then `v` grows by one,
  which is still less than the visits its job needs (`PassedAfter`). Everything else is
  to show that nothing takes saved credits or the place away: clients are only appended
  to the order, boosts only add, and a new oldest job starts a new count. A client that
  is not eligible is not counted, and `Waits` has to carry that whoever was passed over
  still is eligible.
- `cancel` filters a deque, which is a recursive function of it. As induction with an
  operator parameter is out of reach, `KeepsExists` shows by a smallest counterexample
  that the function exists, and the same argument that the head of the queue survives
  unless it is the cancelled job's.
- `NextServesOrNobody`: a call of `next()`, in every mode, serves an eligible client or
  there is none. `HubService` relies on it when it takes `next()` to be `Dispatch` with any
  eligible client. The loop gives up after four rounds, so the theorem assumes that four
  visits pay for any job (`FourVisitsPay`; true of the default cost and quantum); in four
  rounds every place is visited four times (`FourVisits`).

`HubPartsProofs` proves of the queue, for every set of tasks, every `max_attempts`, lifetime
and backoff (`QueueAssumption`), with a crash possible between the two writes of
every operation:

- `QueueTypeCorrect`, `LeasesAreUnique` and `JournalFollowsMapper`, from the inductive
  invariant `QueueInv` (theorem `QueueSafe`). `LeasesUnique` needs `HandedBounded`
  (nothing handed out is newer than the two stores' counters), or a new lease could
  repeat an old one. `JournalNeverAhead` needs `StoresAgree`, which says where a torn
  operation may leave the two stores apart: a job not yet recorded may already be
  enqueued, a dead letter may already be ready again, and nothing else.
- `NewestDecides` and `CompletedForGood`, action properties: an outcome needs a lease
  that passes `_owned` (`OnlyOwnersDecide`), and by `HandedBounded` only the newest one
  can; no step leases, fails or requeues a task the Mapper
  has completed (`CompletedStays`).

It proves of the governor, for every set of clients, resources and requests, every
finite set of keys, all limits and every threshold and cooldown (`GovernorAssumption`):

- `BreakerOnProbation` from `CircuitInv` (the breaker's state and its failure count
  agree), and `DrainWindsDown` from the type of the lease table.
- `GovernorTyped`, `UsageIsExact` and `BudgetsAreKept`, from `BudgetInv` (theorem
  `BooksAreKept`). Usage is a sum over leases that `MapThenSumSet` computes by recursion
  in an order of its own. Induction with an operator parameter is out of reach, so the
  sum is shown to be a cardinality, that of the set of units held (`SumIsCount`): counting
  units satisfies the recursion (`CountSums`), and two functions that satisfy it
  cannot differ, since a smallest set they differ on would have a smaller one
  (`SumsUnique`). The laws of sums (`SumAdd`, `SumSame`, `SumEmpty`) follow from the
  library's theorems on cardinality, and one lemma about taking a lease out of the table
  (`HeldWithout`) serves admission and release, for all clients together and for one.

`HubServiceProofs` proves, for every finite set of tasks, any workers, clients,
workspaces, requests, limits, quotas, lifetimes and backoffs (`ServiceAssumption`: what
the parts assume of their constants, and that `NoClaim` is not a lease), for calls that
interleave step by step, leases that expire and a daemon that crashes and rehydrates:

- `InflightIsExact`, `ClaimsArePaidFor` and `SchedulerKeepsBooks` (the quota totals count
  the live jobs and no quota is exceeded), from `ServiceInv` (theorem `ServiceSafe`). A
  slot taken from the scheduler is given back in a later step, on one of several paths,
  by a call that relies on it being there. The invariant therefore says who owns it: the
  claim on the task or one call under way, never two of them (`SlotsOwned`), and the same
  owner has the governor's lease between admission and release (`LeasesOwned`). With one
  owner per slot, `complete` is only called on a job in flight, no queue holds an entry
  of a job that is gone, and the counters never meet their clamp at zero.
- `NoLeakUnlessRaised`: conversely every taken slot and every resource lease has an
  owner, except on a task a queue operation raised on since the daemon started. That
  includes the report the queue refuses because its lease expired, which has popped the
  claim already, and the claim that raises between reservation and lease; no expiry, crash
  or interleaving leaks anything by itself. The theorem has no hypothesis. Its
  invariant, `EverythingOwned`, follows each slot from the call that took it through
  `_claims` to the call that gives it back.
- `NoQueuedJobLost`: a queued job is registered, about to be enqueued by a call or to be
  rehydrated, from `JournalInv` beside `ServiceInv`. The invariant follows a job between
  the journal and the scheduler: a candidate is only dropped, or its slot retired without
  a retry, when the journal does not call it queued (`DroppedNotQueued`), and a queued job
  is always claimable (`QueuedIsClaimable`). Both need the theorem's hypothesis
  `Unhindered`: quotas with room for every job, since a refused enqueue leaves a job
  unscheduled, and no backoff, since a job polled during its backoff is dropped.

- `HubImplementsQueue`: the hub, with its interleaved calls, crashes and restarts,
  implements `HubRetryQueue` (`Spec => Q!Spec`, the hub's queue variables being the
  queue's). Every step is a step of the queue or leaves it alone (`QueueStep`). What needs
  an invariant is that the hub only reports with leases the queue handed out, since the
  queue says nothing of others: `LeasesHanded` follows them from the claim through
  `_claims` into the call that reports.
- `HubLeasesAreUnique` and `HubDecidesOnce` carry the queue's theorems over to the hub: the
  module instantiates `HubPartsProofs` and shows that the parameters it passes satisfy the
  parts' assumptions (`QueueParameters`, `GovernorParameters`).
- `HubBudgetsHold`: the governor's counters are exact and its budgets hold in the hub. A
  crash makes a new governor, so the hub does not implement `GovernorSpec`; the step lemma
  of `BudgetInv` is used instead, with a crash starting over from `BudgetInit`.

`RemoteWorkerProofs` proves, for every set of workers with disjoint sets of idempotency
keys, any tasks, lifetimes and bounds, with a crash after any step: `FencesExclude`,
`CancelsAreScoped` and `CompletionsAreFinal`, from `WorkerInv` (theorem `WorkerSafe`).
Exclusion is not inductive, because a retried claim takes its lease out of the journal.
`FenceInv` says of every lease somebody works under, the journal records or a
cancellation is about to name that its fence determines it and is not from the future;
then two workers under one fence have one lease, hence one key, hence are one worker.
`FlagsInv` says that nothing of the previous task's flags and heartbeat survives into the
next; `CompletionInv` that the store knows a completion before the journal does.

`ServeAsyncProofs` proves, for every finite set of dispatchers, any tasks and any
capacities (`PipelineAssumption`: among others, no task is named by the key of the
worker's own reports, `status`): `WorkIsAccountedFor` and `ExitFlushes`, from
`PipelineInv` (theorem `PipelineSafe`). A report that had to wait is appended beside an
older one under the same key, so "the queue has the last report" is not about positions:
`FlushInv` says that the last value reported of every unwritten key is in the queue or in
the writer's hands, which coalescing keeps because it replaces by newer values only.
`ShutdownInv` orders the stages: nobody reports once main does, and main's report is the
last word in the queue. A writer that failed has dropped a report, so `FlushInv` speaks of
one that has not; main then raises instead of exiting.

`SingleFlightProofs` proves, for every finite set of clients and any number of source
changes: `SingleOwner`, `NoNeedlessBuild` (an action property) and `CountsAreExact`, from
`FlightInv` (theorem `FlightSafe`). That no build replaces a valid view is not inductive,
because a view is valid before it is completed: `CompletedInv` says that nothing is
completed while somebody builds, and that a valid view is completed, still its owner's to
publish, or left behind by an owner that failed. With one owner at a time (`OwnerInv`)
whoever is about to register a view has not registered one, so only the last case is left.

`CheckpointLifecycleProofs` proves, for every set of candidates and coordinators and any
number of writes (`LifecycleAssumption`), with a kill between any two files:

- `OneWinnerSealed`, an action property, from `SealInv` (theorem `SealSafe`). What the
  file says is not enough by itself, because a coordinator is between creating, writing
  and syncing it: `OneWriter` says that exclusive creation makes it the only one there,
  that the file is empty or its own meanwhile, and that whoever got past the seal agrees
  with the file unless a complete fence was withdrawn.
- `WinnerOutlives`, from `KeptInv` beside it. A collector works on lists that are old
  when it acts, so the invariant speaks of every candidate that is `Doomed` (cancelled,
  or on a collector's list or in its hands): an operator cancelled it, or a fence is
  sealed and names another. It must also hold of a winner that is selected and not yet
  sealed (`Kept`), or sealing would have nothing to start from. The proof has one lemma
  per kind of actor.
- `PinsAreKept`, from `BrokerInv`, which adds that a collector without the lock has
  nothing on its list: `Pin` needs the lock, and a new scan, after a kill too, starts
  from the leases.

The inductive invariants were checked with TLC before they were proved, on the instances
of the runs above: `WorkerInv` on `remote_worker`, `ServiceInv` and `JournalInv` on
`hub_service`, `FairInv` on `fair_scheduler`, and so on; so was `HubImplementsQueue`, on
`hub_service`.

Only model-checked: the properties that need fairness (`EveryJobEnds`, `SupersededStops`,
`CancelIsSeen`, `ShutdownEnds`, `EveryCallReturns`), since liveness is out of the proof
system's reach. Every invariant and every action property of a passing run is stated by a theorem,
some with the hypothesis given above.

## 5. Not modelled

See the components in `PROJECT.json`. Data is left out throughout: payloads,
receipts, digests, messages. Of the modelled parts:

- Hub: `update_payload` and the policy manifest, held-admission validation, journal
  corruption, `stop()` followed by `start()` of the same daemon object (which keeps the
  old scheduler), a second hub process on the same files, the daemon's legacy job path,
  sessions and transports.
- Remote queue: receipts, capabilities, the HTTP client and server and their trust
  checks. An answer that is lost on the way is in the model.
- Bounded queue: byte limits, the reject policy, timed puts, join and reopen; no
  operation of the pipeline uses them.
- Map service: identities and digests, subscriptions, watcher quotas and polling, and
  `release_all`, which only a test calls.
- Checkpoints: the scoring that picks the winner, promote and reconcile, and the
  identity a binding is checked against.

The modelled code is a small share of the repository's lines. Most of the rest (the
runner, the hooks and their copies in the plugin and the bundle, the command lines,
adapters, auditors and the token engine) is sequential work on documents, subprocesses
and text, with no state that several actors change.

## 6. Plan

1. `HubDaemon`: the legacy submit, claim_next, result and cancel path beside the
   hub_* one, over the same scheduler and queue; cancel of dispatched jobs; the order of
   policy change and manifest.
2. `ResourceFabric` over `FencedResource`; `WorkItemClaims` and the local task queue as
   further leases; run and attempt journals.
3. The stage coordinator, and the transition table of the runner.
4. Proofs: the abstract specifications of further leases once they are modelled.
