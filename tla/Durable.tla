------------------------------ MODULE Durable ------------------------------
(***************************************************************************)
(* The workflow engine of Std.Durable (src/sky-stdlib/Std/Durable.sky).    *)
(*                                                                         *)
(* A run is a row of a SQL table; what its body has done is a journal      *)
(* keyed by step.  Workers on any number of instances poll: each claims    *)
(* one due run under a lease and executes its body from the top, replaying *)
(* the journalled steps, until the body ends, fails, or suspends on a      *)
(* timer or on a signal.  The code opens no transaction: every Db.exec and *)
(* every query commits by itself, so each is one action here and anything  *)
(* may happen between two of them.                                         *)
(*                                                                         *)
(* The bounds are constants: the clock stops at MaxTime, at most MaxFaults *)
(* crashes and failed statements happen, and the two counters of a run     *)
(* (claims, executions of a step) stick at CounterCap.                     *)
(***************************************************************************)
EXTENDS Integers, Sequences, FiniteSets

CONSTANTS
    Runs,        \* run ids, the caller's idempotency keys
    Workers,     \* pollers: one per instance that mounts Durable.poll
    StepIds,     \* journal keys, of steps and of sleeps
    Signals,     \* names of signals
    Body,        \* run -> the durable operations of its body, in order
    Def,         \* run -> its workflow's name and the version start stamped
    Defs,        \* worker -> the set of definitions it passes to poll
    Policy,      \* worker -> "FailSafe" or "PinToStart"
    LeaseMs,     \* leaseMs, in ticks
    Retention,   \* the retentionMs compact is called with
    MaxTime, MaxFaults, CounterCap,
    Punctual,    \* TRUE assumes that no poll outlives its lease (see OnTime)
    LostReplies  \* TRUE lets a write that took effect be reported as failed

None == -1             \* SQL NULL, in a column that holds a time or a result
NoSignal == "none"     \* SQL NULL in waiting_signal
FarFuture == MaxTime + 1
Times == 0 .. MaxTime

Ops == [kind : {"step", "sleep"}, id : StepIds, ms : Nat]
         \cup [kind : {"await"}, id : Signals, ms : {0}]
Definitions == [name : STRING, version : STRING]

ASSUME DurableAssumption ==
    /\ MaxTime \in Nat /\ LeaseMs \in Nat /\ Retention \in Nat
    /\ MaxFaults \in Nat /\ CounterCap \in Nat \ {0}
    /\ Punctual \in BOOLEAN /\ LostReplies \in BOOLEAN
    /\ Runs # {} /\ NoSignal \notin Signals
    /\ Body \in [Runs -> Seq(Ops)]
    /\ Def \in [Runs -> Definitions]
    /\ Defs \in [Workers -> SUBSET Definitions]
    /\ Policy \in [Workers -> {"FailSafe", "PinToStart"}]

\* step's doc: an id is "stable and unique within the workflow body".
ASSUME UniqueIds ==
    \A r \in Runs : \A i, j \in DOMAIN Body[r] :
        /\ Body[r][i].kind # "await" /\ Body[r][j].kind # "await"
        /\ Body[r][i].id = Body[r][j].id
        => i = j

VARIABLES
    now,         \* Time.now, the clock every instance reads
    runs,        \* _sky_durable_runs: run -> its row
    journal,     \* _sky_durable_journal: run -> step -> recorded result
    signals,     \* _sky_durable_signals: the (run, name) pairs delivered
    worker,      \* what each poller is doing
    sender,      \* (run, name) -> the time read by a signal call in progress
    compactor,   \* the compact call in progress
    ran,         \* run -> step -> how often its effect has really happened
    sent,        \* every (run, name) pair ever delivered
    faults       \* crashes and failed statements so far

tables == <<runs, journal, signals>>
history == <<ran, sent>>
vars == <<now, tables, worker, sender, compactor, history, faults>>

-----------------------------------------------------------------------------
Claimable == {"running", "waiting"}
Terminal == {"done", "dead", "failed"}

\* status "absent" is a run id without a row.
Statuses == {"absent"} \cup Claimable \cup Terminal
RunRow == [status : Statuses,
           wake : 0 .. FarFuture, waiting : Signals \cup {NoSignal},
           claimed : Times \cup {None}, updated : Times,
           attempts : 0 .. CounterCap]

\* A poller is at the statement it executes next ("run" is the step's task).
BodyPcs == {"body", "run", "journal", "setWake", "setWaiting"}
SettlePcs == {"markFailed", "markDead", "releaseLease", "parkForVersion"}
Pcs == {"idle", "select", "take"} \cup BodyPcs \cup SettlePcs

\* now: the time the poll read first; ip: the body's current operation;
\* val: the result about to be journalled, or the wake time of a sleep.
WorkerState == [pc : Pcs, run : Runs, now : Times, ip : Nat \ {0},
                val : Nat]

Pairs == Runs \X Signals

TypeOK ==
    /\ now \in Times
    /\ runs \in [Runs -> RunRow]
    /\ journal \in [Runs -> [StepIds -> Nat \cup {None}]]
    /\ signals \subseteq Pairs
    /\ worker \in [Workers -> WorkerState]
    /\ sender \in [Pairs -> Times \cup {None}]
    /\ compactor \in [pc : {"idle", "journal", "signals"}, cutoff : Int]
    /\ ran \in [Runs -> [StepIds -> 0 .. CounterCap]]
    /\ sent \subseteq Pairs
    /\ faults \in 0 .. MaxFaults

Idle == [pc |-> "idle", run |-> CHOOSE r \in Runs : TRUE,
         now |-> 0, ip |-> 1, val |-> 0]

Init ==
    /\ now = 0
    /\ runs = [r \in Runs |-> [status |-> "absent", wake |-> 0,
                               waiting |-> NoSignal, claimed |-> None,
                               updated |-> 0, attempts |-> 0]]
    /\ journal = [r \in Runs |-> [k \in StepIds |-> None]]
    /\ signals = {}
    /\ worker = [w \in Workers |-> Idle]
    /\ sender = [p \in Pairs |-> None]
    /\ compactor = [pc |-> "idle", cutoff |-> 0]
    /\ ran = [r \in Runs |-> [k \in StepIds |-> 0]]
    /\ sent = {}
    /\ faults = 0

AtMost(cap, n) == IF n > cap THEN cap ELSE n

\* UPDATE _sky_durable_runs ... WHERE id = r
Update(r, row) == runs' = [runs EXCEPT ![r] = row]

-----------------------------------------------------------------------------
\* Callers: start and signal.

Start(r) ==
    /\ runs[r].status = "absent"                  \* ON CONFLICT DO NOTHING
    /\ Update(r, [runs[r] EXCEPT !.status = "running", !.wake = now,
                                 !.updated = now])
    /\ UNCHANGED <<now, journal, signals, worker, sender, compactor, history,
                   faults>>

\* signal is two statements: the row of the signal, then the wake of the run.
SignalInsert(p) ==
    /\ sender[p] = None
    /\ signals' = signals \cup {p}
    /\ sent' = sent \cup {p}
    /\ sender' = [sender EXCEPT ![p] = now]
    /\ UNCHANGED <<now, runs, journal, worker, compactor, ran, faults>>

SignalWake(p) ==
    /\ sender[p] # None
    /\ IF runs[p[1]].status = "absent" THEN UNCHANGED runs
       ELSE Update(p[1], [runs[p[1]] EXCEPT !.wake = sender[p],
                            !.waiting = NoSignal, !.updated = sender[p]])
    /\ sender' = [sender EXCEPT ![p] = None]
    /\ UNCHANGED <<now, journal, signals, worker, compactor, history, faults>>

\* The caller dies, or its second statement fails: the row stays, unannounced.
SignalFails(p) ==
    /\ sender[p] # None
    /\ faults < MaxFaults
    /\ faults' = faults + 1
    /\ sender' = [sender EXCEPT ![p] = None]
    /\ UNCHANGED <<now, tables, worker, compactor, history>>

-----------------------------------------------------------------------------
\* What the reply of a statement does to the poller that issued it.

Goto(w, next) == worker' = [worker EXCEPT ![w] = next] /\ UNCHANGED faults

Step(w, pc) == [worker[w] EXCEPT !.pc = pc]
NextOp(w) == [worker[w] EXCEPT !.pc = "body", !.ip = @ + 1, !.val = 0]

\* Mutated AfterError: step takes a failed journal write for a success.
WriteErrorIgnored(w) ==
    IF worker[w].pc = "journal" THEN NextOp(w)
    ELSE IF worker[w].pc \in BodyPcs THEN Step(w, "markFailed") ELSE Idle

\* advance wraps the body and markDone in Task.onError, so an error there
\* leads to markFailed; an error anywhere else ends the poll.
AfterError(w) ==
    IF worker[w].pc \in BodyPcs
    THEN [worker[w] EXCEPT !.pc = "markFailed", !.val = 0]
    ELSE Idle

\* A bound: a fault strikes only while the lease it may leave behind can
\* still run out before the clock stops.
MayFault(w) == faults < MaxFaults /\ worker[w].now + LeaseMs < MaxTime

Fault(w, next) ==
    /\ MayFault(w)
    /\ faults' = faults + 1
    /\ worker' = [worker EXCEPT ![w] = next]

\* A write that took effect: its reply arrives, or is lost and seen as an error.
Reply(w, next) == Goto(w, next) \/ (LostReplies /\ Fault(w, AfterError(w)))

-----------------------------------------------------------------------------
\* The runner: poll, claim, advance.

Poll(w) ==
    /\ worker[w].pc = "idle"
    /\ Goto(w, [Idle EXCEPT !.pc = "select", !.now = now])
    /\ UNCHANGED <<now, tables, sender, compactor, history>>

\* Mutated Free: the lease is not looked at; it never runs out.
FreeAlways(r, t) == TRUE
FreeIfNull(r, t) == runs[r].claimed = None

Free(r, t) == runs[r].claimed = None \/ runs[r].claimed < t - LeaseMs

Due(t) == {r \in Runs : /\ runs[r].status \in Claimable
                        /\ runs[r].wake <= t
                        /\ Free(r, t)}

\* ORDER BY wake_at LIMIT 1; the database breaks ties as it likes.
ClaimSelect(w) ==
    /\ worker[w].pc = "select"
    /\ LET due == Due(worker[w].now) IN
         \/ due = {} /\ Goto(w, Idle)
         \/ \E r \in due :
              /\ \A q \in due : runs[r].wake <= runs[q].wake
              /\ Goto(w, [worker[w] EXCEPT !.pc = "take", !.run = r])
    /\ UNCHANGED <<now, tables, sender, compactor, history>>

\* Mutated HasDef: the version is not compared.
HasName(w, r) == \E d \in Defs[w] : d.name = Def[r].name

\* findDef matches name and version, and only the name of a run stamped "".
HasDef(w, r) == \E d \in Defs[w] : /\ d.name = Def[r].name
                                   /\ Def[r].version \in {"", d.version}
AnyNamed(w, r) == \E d \in Defs[w] : d.name = Def[r].name

\* advance: the first thing a poller does with the run it claimed.
Advance(w, r) ==
    IF HasDef(w, r) THEN "body"
    ELSE IF ~AnyNamed(w, r) THEN "markDead"
    ELSE IF Policy[w] = "FailSafe" THEN "markFailed" ELSE "parkForVersion"

\* The guarded UPDATE: it looks at claimed_at again, and at nothing else.
ClaimTake(w) ==
    LET r == worker[w].run
        t == worker[w].now
    IN  /\ worker[w].pc = "take"
        /\ \/ /\ Free(r, t)
              /\ Update(r, [runs[r] EXCEPT !.claimed = t, !.updated = t,
                               !.status = "running",
                               !.attempts = AtMost(CounterCap, @ + 1)])
              /\ Reply(w, Step(w, Advance(w, r)))
           \/ /\ ~Free(r, t)
              /\ Goto(w, Idle)
              /\ UNCHANGED runs
        /\ UNCHANGED <<now, journal, signals, sender, compactor, history>>

-----------------------------------------------------------------------------
\* The body: step, sleep and awaitSignal.

InBody(w) == worker[w].pc = "body" /\ worker[w].ip <= Len(Body[worker[w].run])
Op(w) == Body[worker[w].run][worker[w].ip]

\* The rows of the two write-once tables, as the body looks at them.
Journalled(w) == journal[worker[w].run][Op(w).id] # None

\* Mutated Delivered: a run found parked on the signal is taken for woken by it.
DeliveredOrWoken(w) == \/ <<worker[w].run, Op(w).id>> \in signals
                       \/ runs[worker[w].run].waiting = Op(w).id

Delivered(w) == <<worker[w].run, Op(w).id>> \in signals

\* Mutated Recorded: the upsert replaces the row.
Replaced(old, new) == new

\* ON CONFLICT DO NOTHING: the first result recorded stays.
Recorded(old, new) == IF old = None THEN new ELSE old

\* step and sleep read the journal first; sleep reads the clock on a miss.  A
\* timer that would fire after the clock stops is set to that time (a bound).
ReadJournal(w) ==
    /\ InBody(w)
    /\ Op(w).kind \in {"step", "sleep"}
    /\ \/ Journalled(w) /\ Goto(w, NextOp(w))
       \/ ~Journalled(w) /\ Op(w).kind = "step" /\ Goto(w, Step(w, "run"))
       \/ /\ ~Journalled(w) /\ Op(w).kind = "sleep"
          /\ Goto(w, [worker[w] EXCEPT !.pc = "journal",
                                       !.val = AtMost(MaxTime, now + Op(w).ms)])
    /\ UNCHANGED <<now, tables, sender, compactor, history>>

\* The step's task: the effect happens; its result is the execution's number.
RunTask(w) ==
    LET r == worker[w].run
        k == Op(w).id
        n == AtMost(CounterCap, ran[r][k] + 1)
    IN  /\ worker[w].pc = "run"
        /\ ran' = [ran EXCEPT ![r][k] = n]
        /\ Goto(w, [worker[w] EXCEPT !.pc = "journal", !.val = n])
        /\ UNCHANGED <<now, tables, sender, compactor, sent>>

\* The application's own failures: a task returns Err, a codec does not decode.
BodyFails(w) ==
    /\ worker[w].pc \in {"body", "run"}
    /\ Goto(w, AfterError(w))
    /\ UNCHANGED <<now, tables, sender, compactor, history>>

WriteJournal(w) ==
    LET r == worker[w].run
        k == Op(w).id
    IN  /\ worker[w].pc = "journal"
        /\ journal' = [journal EXCEPT ![r][k] = Recorded(@, worker[w].val)]
        /\ Reply(w, IF Op(w).kind = "step" THEN NextOp(w) ELSE Step(w, "setWake"))
        /\ UNCHANGED <<now, runs, signals, sender, compactor, history>>

SetWake(w) ==
    LET r == worker[w].run IN
    /\ worker[w].pc = "setWake"
    /\ Update(r, [runs[r] EXCEPT !.wake = worker[w].val, !.updated = now])
    /\ Reply(w, [worker[w] EXCEPT !.pc = "releaseLease", !.val = 0])
    /\ UNCHANGED <<now, journal, signals, sender, compactor, history>>

AwaitSignal(w) ==
    /\ InBody(w)
    /\ Op(w).kind = "await"
    /\ Goto(w, IF Delivered(w) THEN NextOp(w) ELSE Step(w, "setWaiting"))
    /\ UNCHANGED <<now, tables, sender, compactor, history>>

SetWaitingSignal(w) ==
    LET r == worker[w].run IN
    /\ worker[w].pc = "setWaiting"
    /\ Update(r, [runs[r] EXCEPT !.status = "waiting", !.waiting = Op(w).id,
                                 !.wake = FarFuture, !.updated = now])
    /\ Reply(w, Step(w, "releaseLease"))
    /\ UNCHANGED <<now, journal, signals, sender, compactor, history>>

-----------------------------------------------------------------------------
\* The end of a poll.  None of these statements asks who holds the lease.

Settle(w, status) ==
    LET r == worker[w].run IN
    /\ Update(r, [runs[r] EXCEPT !.status = status, !.claimed = None,
                                 !.updated = now])
    /\ Reply(w, Idle)
    /\ UNCHANGED <<now, journal, signals, sender, compactor, history>>

MarkDone(w) ==
    /\ worker[w].pc = "body"
    /\ worker[w].ip > Len(Body[worker[w].run])
    /\ Settle(w, "done")

\* Mutated MarkFailed: a status no other statement of the module knows.
MarkError(w) == worker[w].pc = "markFailed" /\ Settle(w, "error")

MarkFailed(w) == worker[w].pc = "markFailed" /\ Settle(w, "failed")
MarkDead(w) == worker[w].pc = "markDead" /\ Settle(w, "dead")
ParkForVersion(w) == worker[w].pc = "parkForVersion" /\ Settle(w, "waiting")
ReleaseLease(w) ==
    /\ worker[w].pc = "releaseLease"
    /\ Settle(w, runs[worker[w].run].status)

\* The statement the poller is at fails without effect, or its process dies.
StatementFails(w) ==
    /\ worker[w].pc \notin {"idle", "run"}
    /\ Fault(w, AfterError(w))
    /\ UNCHANGED <<now, tables, sender, compactor, history>>

Crash(w) ==
    /\ worker[w].pc # "idle"
    /\ Fault(w, Idle)
    /\ UNCHANGED <<now, tables, sender, compactor, history>>

-----------------------------------------------------------------------------
\* compact: one cutoff, two DELETEs, each with its own look at the runs.

\* Mutated TerminalOlderThan: the retention is forgotten.
AnyTerminal(t) == {r \in Runs : runs[r].status \in Terminal}

TerminalOlderThan(t) ==
    {r \in Runs : runs[r].status \in Terminal /\ runs[r].updated <= t}

CompactBegin ==
    /\ compactor.pc = "idle"
    /\ compactor' = [pc |-> "journal", cutoff |-> now - Retention]
    /\ UNCHANGED <<now, tables, worker, sender, history, faults>>

CompactJournal ==
    /\ compactor.pc = "journal"
    /\ journal' = [r \in Runs |-> IF r \in TerminalOlderThan(compactor.cutoff)
                                  THEN [k \in StepIds |-> None]
                                  ELSE journal[r]]
    /\ compactor' = [compactor EXCEPT !.pc = "signals"]
    /\ UNCHANGED <<now, runs, signals, worker, sender, history, faults>>

CompactSignals ==
    /\ compactor.pc = "signals"
    /\ signals' = {p \in signals : p[1] \notin TerminalOlderThan(compactor.cutoff)}
    /\ compactor' = [pc |-> "idle", cutoff |-> 0]
    /\ UNCHANGED <<now, runs, journal, worker, sender, history, faults>>

CompactFails ==
    /\ compactor.pc # "idle"
    /\ compactor' = [pc |-> "idle", cutoff |-> 0]
    /\ UNCHANGED <<now, tables, worker, sender, history, faults>>

-----------------------------------------------------------------------------
\* Time passes.  Under Punctual no poll outlives the lease it takes, counted
\* from the time it read first, and no signal call takes longer than that.
OnTime ==
    /\ \A w \in Workers : worker[w].pc = "idle" \/ now < worker[w].now + LeaseMs
    /\ \A p \in Pairs : sender[p] = None \/ now < sender[p] + LeaseMs

Tick ==
    /\ now < MaxTime
    /\ Punctual => OnTime
    /\ now' = now + 1
    /\ UNCHANGED <<tables, worker, sender, compactor, history, faults>>

BodyStep(w) ==
    \/ ReadJournal(w) \/ RunTask(w) \/ BodyFails(w) \/ WriteJournal(w)
    \/ SetWake(w) \/ AwaitSignal(w) \/ SetWaitingSignal(w)

SettleStep(w) ==
    \/ MarkDone(w) \/ MarkFailed(w) \/ MarkDead(w) \/ ParkForVersion(w)
    \/ ReleaseLease(w)

WorkerStep(w) ==
    \/ Poll(w) \/ ClaimSelect(w) \/ ClaimTake(w)
    \/ BodyStep(w) \/ SettleStep(w)

Compact == CompactBegin \/ CompactJournal \/ CompactSignals \/ CompactFails

Next ==
    \/ \E r \in Runs : Start(r)
    \/ \E p \in Pairs : SignalInsert(p) \/ SignalWake(p) \/ SignalFails(p)
    \/ \E w \in Workers : WorkerStep(w) \/ StatementFails(w) \/ Crash(w)
    \/ Compact
    \/ Tick

Spec == Init /\ [][Next]_vars

\* A poller is mounted on a tick that keeps firing, a statement returns, and a
\* signal call that began ends.  Callers and compaction owe nothing.
Fairness ==
    /\ \A w \in Workers : WF_vars(WorkerStep(w))
    /\ \A p \in Pairs : WF_vars(SignalWake(p))
    /\ WF_vars(Tick)

FairSpec == Spec /\ Fairness

-----------------------------------------------------------------------------
\* Safety, for pollers that keep to their lease (Punctual).

Executing(w) == worker[w].pc \in BodyPcs \cup SettlePcs

\* Two pollers never execute the same run at once: the SELECT and the guarded
\* UPDATE of claim are two statements, and this is what they must add up to.
OneExecutor ==
    \A v, w \in Workers :
        Executing(v) /\ Executing(w) /\ worker[v].run = worker[w].run => v = w

\* A poller inside a body has behind it only operations a restart would also
\* find done: their results are in the journal, their signals in the table.
\* step, writeJournal and compact all have to respect it.
PositionJournalled ==
    \A w \in Workers : worker[w].pc \in BodyPcs =>
        \A i \in 1 .. worker[w].ip - 1 :
            LET op == Body[worker[w].run][i] IN
            IF op.kind = "await" THEN <<worker[w].run, op.id>> \in signals
            ELSE journal[worker[w].run][op.id] # None

\* The effect of a step happens once, and once more only for a fault: step's
\* contract.  Each crash or failed statement pays for one repetition, the ones
\* that strike elsewhere than between an effect and its journal row included.
EffectOncePerFault ==
    \A r \in Runs : \A k \in StepIds : ran[r][k] <= 1 + faults

\* The result a body goes on with after running a step is the one the journal
\* holds, so every later replay of the body takes the same path.
ReplayStable ==
    [][\A w \in Workers :
         LET r == worker[w].run
             k == Op(w).id
         IN worker[w].pc = "journal" /\ worker'[w].pc = "body"
              => journal'[r][k] = worker[w].val]_vars

\* A run turns done only when every operation of its body has happened.
DoneOnlyWhenComplete ==
    [][\A r \in Runs : runs[r].status # "done" /\ runs'[r].status = "done" =>
         \A i \in 1 .. Len(Body[r]) :
            IF Body[r][i].kind = "await" THEN <<r, Body[r][i].id>> \in signals
            ELSE journal[r][Body[r][i].id] # None]_vars

-----------------------------------------------------------------------------
\* Safety whatever the pollers' speed: also when a lease runs out under a live
\* worker, and when compact is called with no retention at all.

\* Effects happen in the body's order: none before an earlier step's effect has
\* happened, none behind an awaitSignal before that signal was delivered.
EffectsInOrder ==
    \A r \in Runs : \A j \in 1 .. Len(Body[r]) :
        Body[r][j].kind = "step" /\ ran[r][Body[r][j].id] > 0 =>
            \A i \in 1 .. j - 1 :
                /\ Body[r][i].kind = "step" => ran[r][Body[r][i].id] > 0
                /\ Body[r][i].kind = "await" => <<r, Body[r][i].id>> \in sent

\* A recorded result is never replaced, by a replay or by a racing worker
\* (writeJournal's comment), and only the history of a settled run is deleted.
JournalWriteOnce ==
    [][\A r \in Runs : \A k \in StepIds :
         journal[r][k] # None /\ journal'[r][k] # journal[r][k] =>
            journal'[r][k] = None /\ runs[r].status \in Terminal]_vars

\* The definitions of a poller that carry a run's name; its name and version.
Named(w, r) == {d \in Defs[w] : d.name = Def[r].name}
Own(w, r) == {d \in Named(w, r) : Def[r].version \in {"", d.version}}

\* A poller settles only what it has code for: done needs a definition of the
\* run's own name and version, a PinToStart poller leaves other versions alone,
\* and dead needs the name to be unknown to it (VersionPolicy's promise for a
\* rolling deploy, where old and new workers share the table).
VersionsRespected ==
    [][\A r \in Runs :
         runs[r].status \notin Terminal /\ runs'[r].status \in Terminal =>
           \E w \in Workers :
             /\ Executing(w) /\ worker[w].run = r /\ worker'[w] # worker[w]
             /\ runs'[r].status = "done" => Own(w, r) # {}
             /\ runs'[r].status = "dead" => Named(w, r) = {}
             /\ runs'[r].status = "failed" /\ Own(w, r) = {}
                  => Policy[w] = "FailSafe"]_vars

-----------------------------------------------------------------------------
\* Liveness.

\* A started run settles and stays settled: leases of crashed pollers run out,
\* sleeps end, and a peer resumes the run.
EveryRunSettles ==
    \A r \in Runs : runs[r].status # "absent" ~> [](runs[r].status \in Terminal)

-----------------------------------------------------------------------------
\* What the module's documentation says and the code does not keep.

\* Once signal has returned, the run it was sent to is not parked on it: "The run
\* becomes claimable immediately" (signal's doc).
NoLostSignal ==
    \A p \in signals :
        sender[p] = None =>
            ~ /\ runs[p[1]].status = "waiting" /\ runs[p[1]].waiting = p[2]
              /\ runs[p[1]].wake = FarFuture /\ runs[p[1]].claimed = None

\* A body goes past a sleep only when its time has come: "when the timer is due a
\* worker poll resumes the body and this returns" (sleep's doc).
SleepLasts ==
    \A w \in Workers : worker[w].pc \in BodyPcs =>
        \A i \in 1 .. worker[w].ip - 1 :
            Body[worker[w].run][i].kind = "sleep" =>
                journal[worker[w].run][Body[worker[w].run][i].id] <= now

\* A settled run stays as it settled: it keeps "its final status and result"
\* (compact's doc).
FinalStatusStays ==
    [][\A r \in Runs : runs[r].status \in Terminal =>
         runs'[r].status = runs[r].status]_vars

\* The database's choice between runs that are due since the same time.
Tied(r) == \E q \in Runs \ {r} : /\ runs[q].status \in Claimable
                                /\ runs[q].wake = runs[r].wake

\* A run that some poller has the code for settles: "A run whose registered
\* version DOES match ... always advance normally" (VersionPolicy's doc).  A tie
\* in wake_at excuses it: a run that waits waits behind an older one.
RunnableRunSettles ==
    \A r \in Runs :
        runs[r].status # "absent" /\ (\E w \in Workers : Own(w, r) # {})
            ~> runs[r].status \in Terminal \/ Tied(r)
=============================================================================
