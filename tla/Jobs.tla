-------------------------------- MODULE Jobs --------------------------------
(***************************************************************************)
(* The job queue of Std.Jobs over its SQL store                            *)
(* (src/runtime-go/rt/jobs/jobs.go, sqlite_store.go; jobs_kernel.go).      *)
(*                                                                         *)
(* Callers insert rows; each process runs one worker, a loop that claims   *)
(* the oldest due row under a lease, calls the job's handler, and deletes, *)
(* dead-letters or reschedules the row.  A store call is one statement (or *)
(* one SQLite transaction) and one action; anything happens between two.   *)
(*                                                                         *)
(* The bounds are constants: the clock stops at MaxTime and a time past it *)
(* is set to it, at most MaxFaults workers fail, and the two histories of  *)
(* a job count up to MaxAttempts and up to MaxFaults + 2.                  *)
(***************************************************************************)
EXTENDS Integers

CONSTANTS
    JobIds,       \* row ids; AUTOINCREMENT uses none of them twice
    Workers,      \* one per process that has called jobsBoot
    Handled,      \* worker -> the jobs whose name its process has defined
    Delays,       \* the delays enqueueIn is called with; enqueue's is 0
    MaxAttempts,
    Lease,        \* leaseNs, in ticks
    Hour,         \* the cap of BackoffFor, in ticks
    MaxTime, MaxFaults

ASSUME JobsAssumption ==
    /\ JobIds # {}
    /\ Handled \in [Workers -> SUBSET JobIds]
    /\ Delays \subseteq Nat
    /\ MaxAttempts \in Nat \ {0}
    /\ Lease \in Nat /\ Hour \in Nat \ {0}
    /\ MaxTime \in Nat /\ MaxFaults \in Nat

VARIABLES
    now,          \* time.Now
    rows,         \* _sky_jobs: id -> its row
    dead,         \* the ids in _sky_jobs_dead
    worker,       \* what each worker's loop is doing
    succeeded,    \* history: the jobs whose handler has returned nil
    failures,     \* history: job -> errors of its handler, up to MaxAttempts
    successes,    \* history: job -> successes of its handler, up to a bound
    cancelled,    \* history: the jobs Cancel returned nil for
    overrun,      \* history: a dispatch has outlived its lease
    faults        \* worker failures so far

history == <<succeeded, failures, successes, cancelled>>
vars == <<now, rows, dead, worker, history, overrun, faults>>

-----------------------------------------------------------------------------
Unclaimed == -1
Times == 0 .. MaxTime
AtMost(cap, n) == IF n > cap THEN cap ELSE n

\* state: "absent" is an id not handed out yet, "deleted" a row that is gone.
JobRow == [state : {"absent", "queued", "deleted"}, next : Times,
           claimed : Times \cup {Unclaimed}, attempts : 0 .. MaxAttempts - 1]

\* at: the time.Now of the claim; attempts: rec.Attempts, as claimed and then
\* as counted by dispatch; next: the rec.NextRunAt it is about to write.
WorkerState == [pc : {"idle", "claim", "handle", "complete", "deadLetter",
                      "reschedule"},
                job : JobIds, at : Times, attempts : 0 .. MaxAttempts,
                next : Times]

SuccessCap == MaxFaults + 2

TypeOK ==
    /\ now \in Times
    /\ rows \in [JobIds -> JobRow]
    /\ dead \subseteq JobIds
    /\ worker \in [Workers -> WorkerState]
    /\ succeeded \subseteq JobIds
    /\ failures \in [JobIds -> 0 .. MaxAttempts]
    /\ successes \in [JobIds -> 0 .. SuccessCap]
    /\ cancelled \subseteq JobIds
    /\ overrun \in BOOLEAN
    /\ faults \in 0 .. MaxFaults

Idle == [pc |-> "idle", job |-> CHOOSE j \in JobIds : TRUE, at |-> 0,
         attempts |-> 0, next |-> 0]

Init ==
    /\ now = 0
    /\ rows = [j \in JobIds |-> [state |-> "absent", next |-> 0,
                                 claimed |-> Unclaimed, attempts |-> 0]]
    /\ dead = {}
    /\ worker = [w \in Workers |-> Idle]
    /\ succeeded = {}
    /\ failures = [j \in JobIds |-> 0]
    /\ successes = [j \in JobIds |-> 0]
    /\ cancelled = {}
    /\ overrun = FALSE
    /\ faults = 0

Queued(j) == rows[j].state = "queued"

\* UPDATE and DELETE ... WHERE id = j: nothing happens when the row is gone.
Put(j, row) == rows' = [rows EXCEPT ![j] = IF Queued(j) THEN row ELSE @]
Delete(j) == Put(j, [rows[j] EXCEPT !.state = "deleted", !.claimed = Unclaimed,
                                    !.attempts = 0, !.next = 0])

-----------------------------------------------------------------------------
\* Callers: enqueue, enqueueIn and cancel.

Enqueue(j) ==
    /\ rows[j].state = "absent"
    /\ \E d \in Delays \cup {0} :
         rows' = [rows EXCEPT ![j] = [@ EXCEPT !.state = "queued",
                                               !.next = AtMost(MaxTime, now + d)]]
    /\ UNCHANGED <<now, dead, worker, history, overrun, faults>>

\* Mutated Cancellable: a claimed row is deleted too.
CancellableAnyway(j) == Queued(j)

Cancellable(j) == Queued(j) /\ rows[j].claimed = Unclaimed

\* A Cancel that finds no such row returns ErrJobNotFound and changes nothing.
Cancel(j) ==
    /\ Cancellable(j)
    /\ Delete(j)
    /\ cancelled' = cancelled \cup {j}
    /\ UNCHANGED <<now, dead, worker, succeeded, failures, successes, overrun,
                   faults>>

-----------------------------------------------------------------------------
\* The worker's loop: run, claimAndDispatch, dispatch.

Goto(w, next) == worker' = [worker EXCEPT ![w] = next]
Step(w, pc) == [worker[w] EXCEPT !.pc = pc]

Poll(w) ==
    /\ worker[w].pc = "idle"
    /\ Goto(w, [Idle EXCEPT !.pc = "claim", !.at = now])
    /\ UNCHANGED <<now, rows, dead, history, overrun, faults>>

\* Mutated Free: the claim of another worker is not looked at; a lease never
\* runs out.
FreeAlways(j, t) == TRUE
FreeIfUnclaimed(j, t) == rows[j].claimed = Unclaimed

Free(j, t) == rows[j].claimed = Unclaimed \/ rows[j].claimed < t - Lease

Ready(t) == {j \in JobIds : Queued(j) /\ rows[j].next <= t /\ Free(j, t)}

\* A job without a handler here goes straight to the dead letters.
Dispatch(w, j) == IF j \in Handled[w] THEN "handle" ELSE "deadLetter"

\* UPDATE ... RETURNING: the oldest ready row, chosen and claimed at once.
Claim(w) ==
    LET t == worker[w].at IN
    /\ worker[w].pc = "claim"
    /\ \/ Ready(t) = {} /\ Goto(w, Idle) /\ UNCHANGED rows
       \/ \E j \in Ready(t) :
            /\ \A k \in Ready(t) : rows[j].next <= rows[k].next
            /\ rows' = [rows EXCEPT ![j].claimed = t]
            /\ Goto(w, [worker[w] EXCEPT !.pc = Dispatch(w, j), !.job = j,
                                         !.attempts = rows[j].attempts])
    /\ UNCHANGED <<now, dead, history, overrun, faults>>

HandlerSucceeds(w) ==
    LET j == worker[w].job IN
    /\ worker[w].pc = "handle"
    /\ succeeded' = succeeded \cup {j}
    /\ successes' = [successes EXCEPT ![j] = AtMost(SuccessCap, @ + 1)]
    /\ Goto(w, Step(w, "complete"))
    /\ UNCHANGED <<now, rows, dead, failures, cancelled, overrun, faults>>

\* BackoffFor: 2^(attempts - 1) seconds, at most an hour, and up to a quarter
\* of that in jitter.
BackoffFor(attempts) ==
    LET exp == AtMost(Hour, 2 ^ (attempts - 1))
    IN  {d \in 0 .. 2 * Hour : d = exp \/ (exp < d /\ 4 * (d - exp) < exp)}

\* Mutated Exhausted: one attempt too many.
ExhaustedLate(attempts) == attempts > MaxAttempts

Exhausted(attempts) == attempts >= MaxAttempts

\* The handler returns an error, or panics under safeHandle.
HandlerFails(w) ==
    LET j == worker[w].job
        attempts == worker[w].attempts + 1
    IN  /\ worker[w].pc = "handle"
        /\ failures' = [failures EXCEPT ![j] = AtMost(MaxAttempts, @ + 1)]
        /\ \/ /\ Exhausted(attempts)
              /\ Goto(w, [worker[w] EXCEPT !.pc = "deadLetter",
                                           !.attempts = attempts])
           \/ /\ ~Exhausted(attempts)
              /\ \E d \in BackoffFor(attempts) :
                   Goto(w, [worker[w] EXCEPT !.pc = "reschedule",
                                             !.attempts = attempts,
                                             !.next = AtMost(MaxTime, now + d)])
        /\ UNCHANGED <<now, rows, dead, succeeded, successes, cancelled,
                       overrun, faults>>

\* Mutated Complete: the claim is cleared and the row left in place.
CompleteReleases(w) ==
    /\ worker[w].pc = "complete"
    /\ Put(worker[w].job, [rows[worker[w].job] EXCEPT !.claimed = Unclaimed])
    /\ Goto(w, Idle)
    /\ UNCHANGED <<now, dead, history, overrun, faults>>

Complete(w) ==
    /\ worker[w].pc = "complete"
    /\ Delete(worker[w].job)
    /\ Goto(w, Idle)
    /\ UNCHANGED <<now, dead, history, overrun, faults>>

\* Mutated Reschedule: an upsert, which brings back a row that is gone.
RescheduleUpserts(w) ==
    /\ worker[w].pc = "reschedule"
    /\ rows' = [rows EXCEPT ![worker[w].job] =
                  [state |-> "queued", next |-> worker[w].next,
                   claimed |-> Unclaimed, attempts |-> worker[w].attempts]]
    /\ Goto(w, Idle)
    /\ UNCHANGED <<now, dead, history, overrun, faults>>

\* Neither Reschedule nor Complete nor DeadLetter asks who holds the claim.
Reschedule(w) ==
    /\ worker[w].pc = "reschedule"
    /\ Put(worker[w].job, [rows[worker[w].job] EXCEPT
             !.next = worker[w].next, !.attempts = worker[w].attempts,
             !.claimed = Unclaimed])
    /\ Goto(w, Idle)
    /\ UNCHANGED <<now, dead, history, overrun, faults>>

DeadLetter(w) ==
    LET j == worker[w].job IN
    /\ worker[w].pc = "deadLetter"
    /\ dead' = IF Queued(j) THEN dead \cup {j} ELSE dead
    /\ Delete(j)
    /\ Goto(w, Idle)
    /\ UNCHANGED <<now, history, overrun, faults>>

\* The worker gives up what it is doing: its process dies or is stopped and
\* starts again, a panic reaches periodic.Guard, or a store call reports an
\* error.  A claim it holds stays.  A store call that takes effect and reports
\* an error is the call, then this action for the claim and nothing otherwise.
\* A bound: it happens only while the claim can still run out before MaxTime.
GiveUp(w) ==
    /\ worker[w].pc # "idle"
    /\ faults < MaxFaults
    /\ worker[w].at + Lease < MaxTime
    /\ faults' = faults + 1
    /\ Goto(w, Idle)
    /\ UNCHANGED <<now, rows, dead, history, overrun>>

-----------------------------------------------------------------------------
\* Time passes; overrun notes that a claim may now be taken from a live worker.
Tick ==
    /\ now < MaxTime
    /\ now' = now + 1
    /\ overrun' = (overrun \/ \E w \in Workers : worker[w].pc # "idle"
                                               /\ now >= worker[w].at + Lease)
    /\ UNCHANGED <<rows, dead, worker, history, faults>>

WorkerStep(w) ==
    \/ Poll(w) \/ Claim(w) \/ HandlerSucceeds(w) \/ HandlerFails(w)
    \/ Complete(w) \/ Reschedule(w) \/ DeadLetter(w)

Next ==
    \/ \E j \in JobIds : Enqueue(j) \/ Cancel(j)
    \/ \E w \in Workers : WorkerStep(w) \/ GiveUp(w)
    \/ Tick

Spec == Init /\ [][Next]_vars

\* A worker's loop runs for ever, and a handler and a store call return.
Fairness == (\A w \in Workers : WF_vars(WorkerStep(w))) /\ WF_vars(Tick)

FairSpec == Spec /\ Fairness

-----------------------------------------------------------------------------
\* The contract.

AtWork(w) == worker[w].pc \notin {"idle", "claim"}

\* Where the contract says a job stands.
Standing(j) ==
    CASE rows[j].state = "absent" -> "unknown"
      [] rows[j].state = "queued" -> "waiting"
      [] OTHER -> IF j \in dead THEN "dead"
                  ELSE IF j \in cancelled THEN "cancelled" ELSE "done"

Contract == INSTANCE JobContract
    WITH Known <- {j \in JobIds : \A w \in Workers : j \in Handled[w]},
         status <- [j \in JobIds |-> Standing(j)]

\* The queue over SQL implements the contract, also when a lease runs out under
\* a live worker whose late Reschedule, Complete or DeadLetter then meets the
\* claim of a peer or no row at all: no job is lost, none comes back, and none
\* is dead-lettered before MaxAttempts failures that really happened.
AtLeastOnce == Contract!Spec

-----------------------------------------------------------------------------
\* What the lease adds while no dispatch has outlived it.

\* Two workers are never at work on the same job (Claim's comment: "so
\* concurrent workers don't double-dispatch").
OneDispatch ==
    ~overrun => \A v, w \in Workers :
        AtWork(v) /\ AtWork(w) /\ worker[v].job = worker[w].job => v = w

\* Once Cancel has returned nil no worker is at work on the job: the DELETE
\* that looks at claimed_at and the claim exclude each other.
CancelExcludes ==
    ~overrun => \A w \in Workers : AtWork(w) => worker[w].job \notin cancelled

\* A handler succeeds once, and once more only for a worker that gave up between
\* the handler's success and the row's deletion (dispatch's comment).
SuccessOncePerFault == ~overrun => \A j \in JobIds : successes[j] <= 1 + faults

-----------------------------------------------------------------------------
\* Every job leaves the queue: the claim of a worker that gave up runs out, a
\* backoff ends, and the failures of a handler are counted to the end, whatever
\* late workers write into the row meanwhile.
EveryJobLeaves ==
    \A j \in JobIds : Queued(j) ~> rows[j].state = "deleted"
=============================================================================
