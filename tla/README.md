# A verification project for Sky

TLA+ modules that model the concurrent and failure-prone parts of Sky: of its
runtime (`src/runtime-go/rt`), of its standard library (`src/sky-stdlib`) and
of the toolchain (`src/rust`); TLC configurations that check them on small
instances, and TLAPS proofs that hold for every instance.

Four subsystems are modelled so far: the durable workflow engine (`Durable`),
the background job queue over SQL (`Jobs`, with its abstract contract
`JobContract`), the supervisor of a project's development PostgreSQL
(`Cluster`), and the Msg scheduler of Sky.Spa together with the compiler's
table that lets input Msgs overtake a hold (`SpaSched` over `HoldFree`). The
plan below lists the others in order.

How to run a check: `tlc -config durable_in_lease.cfg MCDurable.tla`.
How to check the proofs: `tlapm M.tla` for each of `DurableProofs`,
`DurableBodyProofs`, `DurableEffectProofs`, `JobsProofs`, `ClusterProofs`,
`SpaSchedProofs` and `SpaSubsProofs`.

## 1. Inventory

Sky compiles a functional language to Go. The compiler (Rust) is a batch
program; the state that lives, and everything that can go wrong in an order
nobody tested, is in the Go runtime, in the parts of the standard library
that drive it, and in one part of the toolchain, the development cluster that
several `sky` processes share.

| Component | State | Operations | Talks to | What is hard | What makes it correct |
|---|---|---|---|---|---|
| `Std.Durable` (`Std/Durable.sky`) | three tables: runs, journal, signals; nothing in memory between polls | `start`, `signal`, `poll` (claim, advance, settle), `step`, `sleep`, `awaitSignal`, `compact` | the SQL database; peers only through it | no transaction spans two statements; leases, crashes, lost replies; a rolling deploy | one executor per run inside the lease; effects once per fault and in order; every run settles |
| Durable snapshots (`durable_tea.go`) | a snapshot row per session | save, rotate, retire, restore | Live sessions, database | restart between save and rotate | a restored model is one that was saved |
| Jobs (`jobs/*.go`, `jobs_kernel.go`) | `_sky_jobs`, `_sky_jobs_dead`, or a slice in memory | `Enqueue`, `Claim`, `Complete`, `Reschedule`, `DeadLetter`, `Cancel`, the worker loop | user handlers, database | crash while a job is claimed, late workers, retries | no job is lost, none comes back, none is given up early |
| Live sessions (`live*.go`) | per session: model, view, version, event streams | event, tick, publish, reconnect, evict | store, topics, browser | two requests of one session, a stream replaced under a sender | updates run one at a time; a patch applies to the view it was made from |
| Session store and rotation (`live_store.go`, `live_session_rotation.go`, `live_revocation.go`) | records by session id, aliases of rotated ids, tombstones | read, persist, rekey, alias, revoke | other instances through the store | an old id in flight during a rotation; a persist after a revocation | a revoked session never returns; an old id reaches the same session during the grace window |
| Topics (`live_topics.go`, `live_redis_broker.go`) | topic to subscribers, a channel each | subscribe, cancel, publish | sessions, Redis | snapshot of the subscribers delivered outside the lock | nobody is delivered to after its cancel is seen; drops are bounded to full channels |
| Spa scheduler (`spa_rpcqueue.go`, `spa_tick.go`) | queue of messages, the hold, RPCs in flight | dispatch, drain, issue, settle, report | the browser, RPC transport | results out of order, a Msg that overtakes a hold | every message runs once; the model is the one Sky.Live would have; a hold is released |
| Hold-free table (`project/src/spa_partition.rs`) | none: computed from the split's report | `head_sets`, `hold_free_pairs` | the Spa scheduler | which pairs commute, and what `subscriptions` may see | a listed Msg commutes with the hold, its result and its follow-ups |
| Development cluster (`sky/src/db_cluster.rs`) | `clusters.json` and its lock file; per project the data, socket and pid files and a postmaster | `sky db start`, `stop [--all]`, `ps`; acquire and release by `sky run` and `sky watch` | initdb, pg_ctl, the postmaster, other `sky` processes | starts run outside the lock; a killed run; a recycled pid; a lock judged by its age | a live run is recorded; a release spares what others need; no cluster is leaked |
| Spa RPC retry and dedupe (`spa_retry.go`, `spa_rpc_dedupe.go`) | client: parked calls; server: answers by request id | send, retry, give up; claim, fill, evict | each other, over a lossy network | duplicate while the first runs, expiry, eviction | a handler runs at most once per id within the time to live |
| Telemetry exporter and spool (`exporter.go`, `exporter_spool.go`) | ring, spool rows, circuit breaker | persist, push, ack, prune, truncate, replay | the hub | crash between persist, push and ack | an event is lost only to a named bound |
| Task runtime (`task_*.go`) | trampoline, goroutines | run, retry, parallel, cancel | everything | cancellation racing completion | the first error wins; nothing leaks |
| Database kernel (`db_*.go`, `dbshare`) | pools | exec, query, migrate | drivers | migration beside a peer | one statement is atomic (assumed here) |
| Embedded Postgres, processes, watch | operating system handles | start, adopt, stop | the operating system | adoption of a running server | almost all input/output |
| Auth, HTTP server, WebSockets, shutdown | tokens, connections, hooks | verify, renew, drain | Live, Jobs | shutdown order | hooks run before the store closes |
| Compiler, formatter, language server (the rest of `src/rust`) | none that survives a command | batch | files | unbounded terms | not a state machine |
| Data structures, codecs, UI, media | values | pure functions | none | size | covered by unit and golden tests |

`PROJECT.json` lists every component with its sources, its status and, where it
is not modelled, the reason; its hazards name the line where each bites.

## 2. Plan

Modules, most important behaviour first:

1. `Durable`, `MCDurable`, `DurableProofs`, `DurableBodyProofs`,
   `DurableEffectProofs`: done (sections 3 to 5).
2. `JobContract` (what a queue promises), `Jobs` (the worker loop over the SQLite
   store), `MCJobs`, `JobsProofs`: done (section 6). Next: the two-step
   dead-letter of the Postgres store, and `MemoryJobs`, shown to implement
   `JobContract` when nothing fails.
3. `Cluster`, `MCCluster`, `ClusterProofs`: done (section 7). Next: the race of
   two installs in `db_provision.rs`.
4. `HoldFree`, `SpaSched`, `MCSpaSched`, `SpaSchedProofs`, `SpaSubsProofs`: done
   (section 8), with the reference order stated inside the properties.
5. `RpcDedupe` (server cache) and `SpaRetry` (client coordinator), composed over
   a lossy network in `SpaRpc`, which then stands for the transport below
   `SpaSched`; abstract specification: at most one execution per request id,
   and an answer that is the answer of that execution. Run: one client, two
   calls, one replay each, a cache of one entry.
6. `SessionRotation`: two instances over one store, rotation, alias, grace,
   revocation; abstract specification: one session that is alive or revoked.
7. `ExporterSpool`: persist, push, acknowledge, truncate, crash, replay.
8. `Topics` and its composition with sessions; `Snapshot`; `TaskRetry`; the
   schema diff of `db_migrate.rs` as operators.

Theorems worth proving next: what of `Cluster` holds with unsound locks, and the
refinements of items 5 and 6. Every invariant and action property of a passing
run is a theorem, and so are the type invariants of `Cluster` and `SpaSched`,
which no run repeats; the two liveness properties, `EveryRunSettles` and
`EveryJobLeaves`, are only model-checked.

## 3. Durable: the workflow engine

`Std/Durable.sky` keeps a run as a row and the results of its steps as a
journal. A poller (every instance mounts one) claims a due run under a lease of
30 minutes and executes its body from the top; `step` returns the journalled
result instead of running its task, `sleep` and `awaitSignal` suspend the body.
There is no transaction anywhere: every `Db.exec` and query is its own.

Correspondence:

| TLA+ | Code |
|---|---|
| `runs[r]` = `[status, wake, waiting, claimed, updated, attempts]` | the columns of `_sky_durable_runs`; status `"absent"` is no row; `None` and `NoSignal` are NULL |
| `journal[r][k]`, `signals` | `_sky_durable_journal`, `_sky_durable_signals` |
| `worker[w]` | one poller: `pc` names the statement it executes next, `now` the `Time.now` the poll read, `ip` the position in the body, `val` the value about to be written |
| `Body[r]` | the body as data: its `step`, `sleep` and `awaitSignal` calls in order; what a step computes is the number of its execution |
| `Start`, `SignalInsert`, `SignalWake` | `start` (INSERT ... ON CONFLICT DO NOTHING); the two statements of `signal` |
| `Poll`, `ClaimSelect`, `ClaimTake` | `pollWith`; the SELECT and the guarded UPDATE of `claim` |
| `Advance` | `findDef`, `anyNamed` and the version policy in `advance` |
| `ReadJournal`, `RunTask`, `WriteJournal`, `SetWake`, `AwaitSignal`, `SetWaitingSignal` | `step`, `sleep`, `awaitSignal`, one statement each |
| `BodyFails` | a task that returns `Err`, a codec that fails |
| `MarkDone`, `MarkFailed`, `MarkDead`, `ParkForVersion`, `ReleaseLease` | the statements that end a poll; none looks at who holds the claim |
| `AfterError` | `Task.onError` in `advance`: an error in the body or in `markDone` leads to `markFailed`, any other ends the poll |
| `StatementFails`, `Crash`, `Reply` | a statement fails without effect; the process dies; a write takes effect and its reply is lost (`LostReplies`) |
| `CompactBegin`, `CompactJournal`, `CompactSignals`, `CompactFails` | `compact`: one cutoff, two DELETEs |

Two modes are constants. `Punctual` lets time pass only while no poll outlives
its lease and no `signal` call takes longer than one: what the lease is meant
for. Without it leases run out under live pollers. `LostReplies` lets a write
that happened be reported as failed.

### What the runs show

| Run | Instance | Shows |
|---|---|---|
| `durable_in_lease` | one checkout (step, await, step), two pollers, a signaller, compaction with retention 3, one fault, `Punctual` | type invariant; `OneExecutor`; `PositionJournalled` (what a body has behind it, a restart would find again); `EffectOncePerFault` (any fault pays for one repetition, wherever it strikes); `ReplayStable` (a body continues with the journalled result); `DoneOnlyWhenComplete` |
| `durable_overrun` | the same with leases of no length, one fault that may lose a reply, `compact db 0` | `EffectsInOrder` (no effect before an earlier one, or before its signal) and `JournalWriteOnce` hold at any speed |
| `durable_progress` | step, sleep, step; two pollers; overrun leases; one fault of any kind; compaction | `EveryRunSettles`: a started run ends and stays ended |
| `durable_versions` | four runs (two versions, an unknown workflow, a run from before versions), an old poller under PinToStart and a new one under FailSafe | `VersionsRespected` |

Four runs refute what a comment of the module promises; each checks one
property and its counterexample is a few steps long:

- `durable_lost_signal`: `awaitSignal` looks for the signal, then parks the run
  with a wake time in the far future. A whole `signal` call between the two is
  overwritten: the signal is stored, the run sleeps on it for ever. A second
  `signal` call would wake it.
- `durable_sleep_cut_short`: `signal` makes the run due whatever it waits for,
  and a `sleep` whose row is in the journal returns at once: a signal sent
  early ends a running sleep.
- `durable_reopened`: the guarded UPDATE of `claim` looks at `claimed_at` only.
  A run that a peer claimed and settled after our SELECT is free again and is
  set back to running. Its replay is harmless while the journal is there;
  after `compact db 0` its steps run again, which is why `EffectOncePerFault`
  needs a retention longer than two leases (a signal stamps `updated_at` with
  the time it read first, so one lease is not enough).
- `durable_pinned_starves`: `parkForVersion` keeps `wake_at`, `claim` takes the
  smallest: after a deploy a PinToStart poller claims the pinned run in every
  poll and starves the runs it has code for. The clock has two values here and
  the pinned run is strictly the older; the property excuses a run that shares
  its `wake_at` with another (`Tied`), so the loop owes nothing to how the
  database breaks ties. A `parkForVersion` that set `wake_at` to now would keep
  it.

Three further facts the model shows and no run states. `attempts` is counted
and never read, so a run that kills its worker is claimed for ever, and the
first `Err` of a body settles the run as failed; the design document wants a
retry with backoff and a dead letter after N attempts
(`src/docs/design/durable-execution.md:86` and `:198`), the module's own comments
promise neither. `MaxFaults` bounds the crashes, so `EveryRunSettles` does not
meet such a run. And a poller that outlived its lease clears the claim of the
peer that took the run over, so a third may join. With `LostReplies`, `OneExecutor` fails even for punctual
pollers: a lost reply of `markDone` leads to `markFailed`, which clears a
claim a peer may have taken in between.

### Bounds

`MaxTime` stops the clock; a timer past it fires at it, and a fault happens
only while the lease it leaves behind can still run out. A lease of 1 with
`MaxTime` 3 lets a crashed claim expire and be taken over twice; a lease of 0
expires at the next tick, which is enough to interleave two pollers anywhere.
`CounterCap` stops the two counters: 3 exceeds `1 + MaxFaults`, so an extra
execution is seen. One run is enough where runs do not interact (every
statement names one run); `durable_versions` and `durable_pinned_starves` have
several because `claim` chooses between them. Two pollers give every
interleaving of a live and a late worker; the theorem about `OneExecutor` has
no such bound.

### Fairness

`FairSpec` assumes that a mounted poller keeps polling (it hangs on a
`Sub.every` or a loop), that a statement returns, that a `signal` call that
began ends, and that time passes. Callers owe nothing and compaction need not
run. Faults are bounded, not fair.

## 4. Abstractions of Durable

The clock is one for all instances (Sky reads the database host's or its own
clock; skew only shifts leases). A result is the number of the execution that
produced it, enough to see whether a replay sees another one. Codecs and JSON
are left out. `setup` is the initial state, `status` only reads. The statements
that end a poll read the clock first (`Time.now`); that and the UPDATE are one
step, which only makes `updated_at` exact.
Names of steps and sleeps are unique in a body, as the module asks of its
callers (`Std/Durable.sky:387`); `UniqueIds` states that as an assumption.

## 5. What is proved about Durable

`DurableProofs.tla`, for all sets of runs, workers, steps and signals, all
bodies, leases and bounds (`DurableAssumption` only types the constants):

- `Typing`: `Spec => []TypeOK`. `TypeOK` alone is not inductive:
  `SetWaitingSignal` writes the current operation's name into `waiting_signal`,
  so the proof carries `PositionOK`: a poller at a statement stands at an
  operation of that kind.
- `ClaimExcludes`: `Spec => []OneExecutor`, if `Punctual` and no reply is lost.
  The invariant (`LeaseInv`) ties each executing poller to its row: the row's
  `claimed_at` is the time that poller read first, and the clock has not passed
  that time plus the lease. The guarded UPDATE then cannot succeed for a
  second poller, because its own time is not later than the clock; and a
  statement of the first cannot clear another's claim, because there is none.

`DurableBodyProofs.tla` goes on, without any assumption on speed or replies.
Its first lemma, `StepShape`, sorts the statements of a poller into a few shapes
(begins, claims, records, suspends, settles, errs ...); every invariant is then
shown to be kept shape by shape.

- `VersionsKept`: `VersionsRespected`. The invariant is `CodeInv`: a poller in a
  body or about to settle is entitled to by its code or by its policy.
- `ResultsStay`: `JournalWriteOnce`.
- `EffectsOrdered`: `EffectsInOrder`. It is not inductive: a poller that finds a
  result in the journal goes on without an effect of its own. `OrderInv` adds
  that a journalled result and a stored signal are evidence of something that
  happened (`EvidenceInv`), and that everything behind a poller has
  (`BehindInv`).

`DurableEffectProofs.tla` is about pollers that keep to their lease (`Punctual`)
and writes that are not falsely reported as failed. `durable_in_lease` is an
instance of all its hypotheses; without either one the properties fail.

- `NothingRedone`: `PositionJournalled`; `ReplayTakesSamePath`: `ReplayStable`;
  `DoneMeansComplete`: `DoneOnlyWhenComplete`. The invariant (`TimelyInv`) adds to
  `LeaseInv` that a run in execution is not settled (`StatusInv`), so that no
  compaction touches it, and that a poller which missed a result in the journal
  is the first to write it (`MissInv`). `UniqueIds` is needed here: with one name
  for two steps, the second would find the result of the first.
- `OnceOrPaidFor`: `EffectOncePerFault`, if also `Retention > 2 * LeaseMs`. The
  invariant counts (`CountInv`): the executions of a step are at most the
  faults, or one more while its result is recorded, about to be recorded, or
  its run is over for good. The last case needs `AgeInv`: a run that was settled
  between a poller's SELECT and its UPDATE, which reopens it, was settled so
  lately that no cutoff reaches it. `durable_reopened` shows why the code needs
  that margin.

Model-checked only: `EveryRunSettles`, because liveness is out of the prover's
reach.

## 6. Jobs: the queue over SQL

`JobContract` is the abstract specification: a job is unknown, waiting, or has
left as done, dead or cancelled. It leaves as done only after its handler has
succeeded, as dead only after `MaxAttempts` failures or if some worker lacks
its handler, and it never comes back. There are no workers, no leases.

`Jobs` is the code: `rows` is `_sky_jobs`, `dead` is `_sky_jobs_dead`,
`worker[w]` is one `Worker.run` loop (`pc` is the store call or the handler it
is at, `at` the `time.Now()` it passed to `Claim`, `attempts` and `next` the
fields of its copy of the record). `Claim` is one `UPDATE ... RETURNING`,
`DeadLetter` one SQLite transaction; each is one action. `Complete`, `Reschedule` and `DeadLetter`
have no look at who holds the claim, as in the code. `GiveUp` is every way a
dispatch ends early: the process dies and restarts, `Worker.Stop` abandons it
after its timeout, `periodic.Guard` recovers a panic, a store call reports an
error. In each of them the claim stays and the loop starts over, so one action
covers them. Five variables are history: `succeeded`, `failures`, `successes`,
`cancelled`, `overrun`.

`jobs_delivery` checks, for two workers (one has no handler for the second
job), two jobs, three attempts and one failure:

- `AtLeastOnce`: `Jobs` implements `JobContract` (refinement mapping:
  `Standing`). This is without any assumption on speed: a worker that
  outlived its lease may write into a row a peer has claimed, or into no row.
- `OneDispatch`, `CancelExcludes`, `SuccessOncePerFault`: while no dispatch has
  outlived its lease (`overrun` is FALSE), two workers never handle one job, a
  cancelled job is in no worker's hands, and a handler succeeds at most once
  more than there were workers that gave up. After an overrun a late
  `Reschedule` may make a row cancellable while a peer handles it; the contract
  permits that, so neither property objects.
- `EveryJobLeaves`: under fairness of the loops and the clock every queued job
  leaves, overrun leases and set-back attempt counters included.

Bounds: a time past `MaxTime` is set to it; a worker gives up only while its
claim can still run out; `failures` sticks at `MaxAttempts` (exactly what the
contract compares), `successes` at `MaxFaults + 2`. A lease and a first backoff
of one tick with `MaxTime` 3 let a claim expire, be taken over and be met by
the late worker. Fairness: the code's loop never ends by itself, a handler and
a store call are assumed to return (the code sets a handler no timeout; one
that hangs blocks its worker, and the job goes to a peer).

What the code does and no property covers: the claim does not count an
attempt, so a job that kills its process is redelivered for ever; a job that
failed once and waits for its retry can still be cancelled, although
`Jobs_cancel` speaks of not-yet-started jobs.

What is proved, in `JobsProofs.tla`, for all sets of jobs and workers, all
leases, delays, numbers of attempts and bounds (`JobsAssumption`):

- `Typing`: `TypeOK`. Inductive with `AttemptsOK`: a worker that handles or
  reschedules has an attempt left.
- `Implements`: `AtLeastOnce`, with no assumption on speed. The invariant is
  `EarnedOK`: what a worker is about to write it has earned, a completion by a
  recorded success, a count of attempts by as many failures, a dead letter by
  `MaxAttempts` failures or a missing handler, and what `dead` and `cancelled`
  name is deleted. `TypeOK` says nothing of that, and the step from a late
  write to a contract step needs all of it. `ContractInit` and `ContractStep`
  map each action to one contract step or none.
- `DispatchExcludes` and `CancelStops`: `OneDispatch` and `CancelExcludes`. The
  invariant is `LeaseInv`: while nothing is overrun a worker is within its
  lease and one at work stands behind its row's `claimed_at`, so a claim old
  enough to be taken has no worker (`LeaseClaim`), and a row free to be
  cancelled neither.
- `SuccessPaidFor`: `SuccessOncePerFault`. `CountInv` pays every success of a
  job but one by a worker that gave up; the one is free while the worker that
  had it has not yet deleted the row, or after the row is gone.

`EveryJobLeaves` is only model-checked, because liveness is out of TLAPS's
reach.

Not modelled: the memory store (it removes a job at `Claim`, so a crash or a
panic outside the handler loses it), the Postgres store's dead-letter
transaction (read committed, so a peer's DELETE fits between its SELECT and
its DELETE), the choice of a store at boot, metrics callbacks.

## 7. Cluster: the development PostgreSQL

Every `sky` invocation is a process. Those that concern a cluster share one
registry, `clusters.json`, under the lock file `clusters.lock`, and per project
a data directory, a socket directory, `postmaster.pid` and a postmaster.
`sky run` and `sky watch` take a reference (`acquire_for_run`, a `RunLease`),
and the last one to leave stops the cluster, unless `sky db start` made it
persistent (`explicit`).

| TLA+ | Code |
|---|---|
| `registry`, `snap[p]`, `Entry` | `clusters.json`; the copy a process has loaded and edits; `explicit` and `refs` of a `ClusterEntry` (`known` is whether it is there) |
| `lock`, `AcquireRegistryLock`, `LockAges`, `SeeStaleLock`, `BreakLock`, `LockTimeout`, `Unlock` | the lock file, its age, `acquire_registry_lock`, `lock_is_stale`, `RegistryLock::drop` |
| `pg`, `data`, `sock`, `Probe` | postmaster and pid file, `PG_VERSION` and the rest of the data directory, the socket directory; `probe_data_dir` |
| `ProbeDataDir` ... `StartFails` | `start_cluster` step by step, outside the lock: probe, branch on `PG_VERSION`, `clear_stale_pidfile` (its judgement and its removal), `run_initdb` with its clean-up, `tune_conf`, `run_pg_ctl_start` and its look at `postmaster.pid`, adoption of the winner's postmaster |
| `Reap`, `Pruned`, `Upserted`, `Released`, `Keep`, `Cleared` | `reap_with`, `prune_refs` and `ref_is_live`, `upsert`, the edit and decision of `release_run_ref`, the edit of `stop_impl` |
| `LoadUpsert`, `LoadPs`, `LoadStop`, `LoadRelease`, `ReleaseUnknown`, `NoBins`, `PgCtlStop`, `PgCtlStopFails`, `RemoveSocketDir`, `Save`, `SaveFails` | what happens between load and save, with one step for each tool that runs in between |
| `Kill`, `KillPostmaster`, `PostmasterNotices`, `Wipe`, `InitdbBreaks`, `PgCtlStartBreaks` | the environment: SIGKILL or Ctrl-C, a crashed server, `rm -rf .skydata`, a tool that fails |

External, modelled from how the code uses them: initdb refuses a directory that
is not empty, writes `PG_VERSION` before it is done and fails when its
directory disappears; `pg_ctl start` refuses while another postmaster lives; a
postmaster whose pid file is gone shuts down after a while; a pid is reused.
`unclean` and `cut` are history: a failed or killed invocation that no release
has followed, and a lease whose cluster has been down.

`cluster` checks two processes, one project with or without a data directory,
every verb and two faults (410,416 states up to the symmetry of the processes):

- `LeaseRecorded`: while the cluster of a live run stays up, the registry has
  the run's reference, beside whole-file saves, prunes and reaps by others.
  A lease whose cluster has once been down (`cut`) is exempt, here and below,
  also when the database came back.
- `ReleaseSpares`: a release stops the postmaster only if no other standing run
  needs it and nobody asked for persistence. The decision is taken at the load
  and the stop happens later; the lock makes that one step for `upsert`.
- `QuietMeansDown`: when every process has gone, a cluster still up was asked
  for, unless something failed on that project after the last release. A dead
  run's reference does not pin it. One excuse, a recycled pid that is now a run
  of another project (`Misled`), takes two projects; only the theorem covers it.

`cluster_fight` refutes the documentation's claim that two runs on one project
do not fight (`src/docs/skydb/embedded-postgres.md:774`): of two first runs,
the one whose initdb comes second fails because the directory is not empty
and removes that directory, in which the first may have started its postmaster
and taken its lease. With `InitialData = {"ready"}` the same property fails in
another way: a run probes the cluster as up, another run releases and stops it,
and the first takes a reference to a stopped cluster, because its upsert does
not look again.

Bounds: two processes meet in every pair of steps; two faults are enough to
kill a holder of the lock and then a waiter, or a run and its successor.
The type invariant is left to the theorem `Typing`.

`LockSound` names an assumption the code does not enforce: only a dead holder's
lock grows older than `LOCK_STALE_SECS`, and two waiters do not both judge one
lock old. The code relies on it ("a minute is not a close call",
`db_cluster.rs:71`; "older than any legitimate hold could be", `:448`) to keep
what the lock promises ("cannot lose each other's entry", `:422`), but
`sky db stop --all` waits up to 60 seconds per cluster under the lock, so a live
holder can be robbed and a stop may then save its old copy over a new run's
reference. `LockSound = FALSE` puts those steps into the model; no run checks it
that way, and of the theorems only `Typing` covers it.

Proved in `ClusterProofs.tla`, for all sets of processes and projects, verbs
and numbers of faults:

- `Typing`: `TypeOK`, with sound and unsound locks.
- `LeasesKept` and `ReleasesSpare`: `LeaseRecorded` and `ReleaseSpares`, under
  `LockSound`. The invariant has four parts besides the types. `MutexInv`: at
  most one process is between load and unlock, and the lock file is then
  fresh. `DataInv`: a run whose cluster has stayed up has its data directory,
  so no reap drops its entry. `RefInv`: not only the registry but every copy on
  its way to disk has its reference; without that a save would not preserve
  `LeaseRecorded`. `StopInv`: a release on its way to `pg_ctl stop` has one
  target, its own, and its copy has no reference left.
- `QuietIsDown`: `QuietMeansDown`, under `LockSound`. The property speaks of states
  without processes only, so the invariant says who answers for a cluster that
  is up without an excuse (`AnsweredInv`): it is explicit, or somebody is about
  to register it, or a registered run will still release it, or a release is
  about to stop it. It says so of the registry and of every copy on its way to
  disk. A release may leave the cluster to a reference in the registry only
  because `PhaseInv` and `MutexInv` place the holder of that reference: a run
  that has not yet released.

Not modelled: `entry.pid` and the other fields that are only displayed, a pid file
that cannot be parsed, a version mismatch, a system without `ps`, checks of path
lengths and characters, an unreadable registry.

## 8. SpaSched and HoldFree: the Sky.Spa scheduler

In a Sky.Spa app some branches of `update` run on the server. The client sends
such a Msg as an RPC; a hold keeps ordinary Msgs waiting until it answers. The
compiler's split computes pairs (hold, input Msg) that commute, and the
scheduler lets a listed input Msg run ahead of the hold. The Rust code that
computes the table and the Go code that uses it are modelled together: neither
is correct alone.

`HoldFree` is `head_sets` and `hold_free_pairs` as operators over a report:
which fields each arm reads and writes, what each server branch may answer
with, what `subscriptions` reads. `SpaSched` is `spaSched`:

| TLA+ | Code (`spa_rpcqueue.go`) |
|---|---|
| `queue`, `hold`, `running`, `inflight`, `tickNet` | the fields of `spaSched` |
| `Dispatch`, `DispatchTick`, `DispatchFrom` with `HoldFreeNow`, `DispatchUrgent` | `dispatch`, `dispatchTick`, `dispatchFrom`, `holdFreeNow`, `dispatchUrgent` |
| `RunHead` with `Issue` and `FollowUpMsgs` | one turn of `drain`: the step, `issue`, `dispatchFirst` |
| `Settle` with `HoldAfter` and `TickNetAfter`, `ReportError` | `settle` with `tickNetEnd` and its clamp, `report` |
| `DeliverFragment` | `spaDeliverFragment` (`live_wasm.go`), which calls `step` itself |

The reference is Sky.Live, where a server branch runs in place. A step's `key`
is its place in that order: `<<3>>` is the third Msg, `<<3, 0>>` the result of
its hold, `<<3, 0, 1>>` the first follow-up. An async result takes a new place
when it arrives, as it does in Sky.Live. A Msg of `Sub.onFragment` does not go
through the scheduler: it runs when it arrives, whatever waits, and what it
issues is in flight beside the hold. That contradicts the comment on `step`
(`live_wasm.go:637`, "Every event reaches it through the scheduler") and the
scheduler's contract (`spa_rpcqueue.go:13`). The log marks such a step `around`.
The field sets of a step are what the
report says, or all fields where the report knows nothing.

`spa_sched` checks all of these for 446 apps: 432 plain ones (everything H, F,
C and `subscriptions` may read and write), 11 that the table must refuse, one
for each reason, and three with an internal follow-up, a poll and a second hold:

- `OvertakersCommute`: a step that ran before one Sky.Live runs earlier starts
  no command and shares no written field with it, so the model is Sky.Live's.
  Steps that ran around the queue are exempt as the earlier one: they do
  overtake what they clash with.
- `SubscriptionStateSerial`: what `subscriptions` reads after every step is what
  some prefix of Sky.Live's order leaves, never a mixture, as long as no step
  has run around the queue.
- `EveryMsgOnce`: every Msg runs once or waits once, a hold that ran is in flight
  or has exactly one result, and each follow-up that a result put at the head
  of the queue has run or waits, once. Fragments make no difference to it, nor
  to the next two.
- `NothingStranded`: Msgs wait only behind a hold in flight.
- `TickBusyExact`: the tick count equals the ticks' unsettled RPCs. The code
  counts the fetches of a tick's client commands in the same map; those are not
  modelled, so this speaks of RPCs only. With the clamp of `tickNetEnd` a count
  that is taken back too often would not go below zero, one that is not taken
  back is seen.

The family takes 1,404,108 states. The type invariant is left to the theorem
`Typed`. The comment on `holdFree` (`spa_rpcqueue.go:104-109`) says that a listed
Msg touches no field that `subscriptions` reads or writes; `hold_free_pairs`
asks for less (`SubsClash`): only that not both sides of the pair write
fields `subscriptions` reads. The two properties show that the weaker table is
enough.

Bounds: three Msgs or async results, one notice (a connection change or a
reported error), one follow-up per answer, one link per chain. A hold, a Msg
waiting behind it and an input that wants to overtake both are three Msgs; that
`holdFreeNow` asks for an empty queue matters only if a second hold waits,
which is the app `TwoHolds`. Deadlock is not checked: a client whose user is
idle is in a legitimate state. The properties are safety; that a queue drains
follows from `NothingStranded` if RPCs are answered, which nothing guarantees.

Not modelled: the tick gate (it only drops ticks), `typingSources` (rendering),
a guard that rejects a Msg, a step that panics, the command of `init`,
`onNavigate`'s Msg at boot,
which `spaPrePaintNavigate` runs before the first paint (`live_wasm.go:395`),
connection Msgs that are server branches, the client fetches that share
`tickNet` (`http_wasm.go:87`), `model.Page`, which `spaNavigate` and `spaApplyURL`
write outside any Msg (`live_wasm.go:374` and `:438`), a fragment delivered while
a step blocks, and a second `settle` of one job (`Settle` asks for a job in flight;
the code would queue the result again, and no caller settles twice). Visible in
the code and not checked by a run: the gate looks at RPCs in flight and not at ticks in the queue, so ticks
that arrive while another Msg's hold is retried do pile up behind it, although
`spa_tick.go` says that a poll never does.

Proved in `SpaSchedProofs.tla` and `SpaSubsProofs.tla`, for every app (`Reports` is any set of reports of
the right shape), any numbers of Msgs, notices, follow-ups and links:

- `Typed`: `TypeOK`.
- `OvertakingIsInvisible`: `OvertakersCommute`. What the run checks on 446 apps
  holds for all: the table of `hold_free_pairs` and the test of `holdFreeNow` are
  enough together, for what goes through the scheduler.
- `RunsOnce`: `EveryMsgOnce`, with the follow-ups; `NoneStranded`: `NothingStranded`;
  `TickGateExact`: `TickBusyExact`.
- `SubscriptionsSeeAPrefix`: `SubscriptionStateSerial`, as long as no step has
  run around the queue. `AroundStays` is the lemma that such a step is never
  undone, so a state without one is reached through states without one.

They share one invariant, because each part needs the others. `QueueInv`: of two
Msgs in the queue the first comes first in Sky.Live's order, or it is an input
or notice that may go ahead. `KeyInv`: every place is run or waits at most once
and follows its parent; its part `FollowInv` says that each follow-up of a step
that ran is there, and nothing but `RunHead` takes one from the queue. `JobInv`: a request in flight belongs to a Msg that
ran, its result is still to come, and its follow-ups are those the report
announced. `HoldInv`: the hold is in flight, all that waits comes after it, and
an input ahead of it is in the table. `OrderInv`: what ran comes before what is
still to run, or starts no command and shows no order against it or any
follow-up of it (`Shows`: they clash, or both write what `subscriptions` reads);
without the follow-ups the property would not survive the answer of the hold. `DrainInv` and `CountInv` are the last two properties, with
the finiteness of the requests in flight.

`SubscriptionsSeeAPrefix` needs one more part, `LastInv`: of the steps that ran
and wrote a field there is a last one, and of those that wrote something
`subscriptions` reads there is one that no other follows in Sky.Live's order.
That would be an induction over the log; as an invariant it grows with the log,
one step at a time. The prefix is cut after the second of these steps. By
`OrderInv` nothing still to come before the cut writes a field `subscriptions`
reads, and of two steps that wrote one such field the later to run is the later
in Sky.Live's order, so the last writer as run is the last writer of the prefix.

## 9. Not modelled

`PROJECT.json` has the reason for each component. In short:

- Most of `src/rust` (parsing, name resolution, type inference, lowering, code
  generation, the split generator, formatting, diagrams, the corpus tools, the
  command line) is batch functions from files to files: terms of unbounded size
  and no state that outlives a call or is shared with another. A bounded
  enumeration of programs would be a slower copy of the compiler's own test
  corpus, and what a recursive traversal computes is out of the prover's reach.
  The two parts of it with shared state or with a contract towards concurrent
  code, `db_cluster.rs` and the hold-free table, are modelled.
- `db_migrate.rs` and `db_provision.rs` have small algorithms that could be
  modelled; they are in the plan.
- Of the Go runtime, the session store and rotation, the RPC retry and
  deduplication, the telemetry spool and the topics are state machines a model
  would reach; they are in the plan, and their hazards are listed without a
  property.
- Codecs, data structures, UI and media are pure functions with unit and golden
  tests.
