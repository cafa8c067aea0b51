------------------------------ MODULE Cluster ------------------------------
(***************************************************************************)
(* The supervisor of a project's development PostgreSQL: `sky db start`,   *)
(* `sky db stop [--all]`, `sky db ps` and the reference that `sky run` and *)
(* `sky watch` hold (rust/crates/sky/src/db_cluster.rs).  Every invocation *)
(* is a process; the processes share the data directories, the socket      *)
(* directories, the postmasters and one registry, clusters.json, which a   *)
(* lock file protects.  Starting a cluster happens outside that lock.      *)
(*                                                                         *)
(* pc names the next step of a process, op what it was invoked for: a run  *)
(* is "acquire" until its app has exited and "release" from then on.  A    *)
(* process slot that dies is reused, as the kernel reuses a pid.           *)
(***************************************************************************)
EXTENDS Naturals, FiniteSets

CONSTANTS
    Procs,      \* process slots: the pids of sky invocations
    Projects,   \* project directories, one cluster each
    Verbs,      \* the commands in use: "acquire" (run and watch), "start", ...
    InitialData,  \* the states a data directory may be in at first
    MaxFaults,  \* bound on kills, failing tools and wiped directories
    LockSound   \* TRUE: only a dead holder's lock grows old, and no two waiters
                \* judge it old before either has removed it

ASSUME BoundAssumption == MaxFaults \in Nat
ASSUME VerbAssumption == Verbs \subseteq {"acquire", "start", "stop", "stopall", "ps"}
ASSUME DataAssumption == InitialData \subseteq {"absent", "ready"}
ASSUME SoundAssumption == LockSound \in BOOLEAN

VARIABLES
    registry,   \* clusters.json, per project
    lock,       \* clusters.lock: "free" (absent), "fresh" or "old"
    pg,         \* per project, its postmaster and the file postmaster.pid
    data,       \* per project, how far its data directory is initialised
    sock,       \* per project, whether its socket directory exists
    pc, op, dir,  \* per process: next step, purpose, project
    snap,       \* per process: the registry as loaded and edited
    todo,       \* per process: the clusters left to stop
    faults,     \* faults so far
    unclean,    \* history: per project, a failed invocation no release followed
    cut         \* history: per process, its cluster was down during its lease

invocation == <<pc, op, dir, snap, todo>>
disk == <<pg, data, sock>>
history == <<unclean, cut>>
vars == <<registry, lock, disk, invocation, faults, history>>

StartOps == {"acquire", "start"}
StopOps == {"stop", "stopall"}
RunOps == {"acquire", "release"}
Ops == StartOps \cup StopOps \cup RunOps \cup {"ps"}
Steps == {"probe", "branch", "judge", "clear", "initdb", "initdb2", "initdb3",
          "initdbFailed", "prepare", "pgstart", "pidfile", "reprobe", "lock",
          "break", "load", "pgstop", "rmsock", "save", "unlock", "running"}
Critical == {"load", "pgstop", "rmsock", "save", "unlock"}

Entry == [known : BOOLEAN, explicit : BOOLEAN, refs : SUBSET Procs]
NoEntry == [known |-> FALSE, explicit |-> FALSE, refs |-> {}]
NoClusters == [d \in Projects |-> NoEntry]

\* pg: "up" and "killed" leave postmaster.pid on disk, the latter without a
\* process; "lost" is a live postmaster whose postmaster.pid was deleted.
Postmaster == {"stopped", "up", "killed", "lost"}
DataDir == {"absent", "begun", "versioned", "ready"}

TypeOK ==
    /\ registry \in [Projects -> Entry]
    /\ lock \in {"free", "fresh", "old"}
    /\ pg \in [Projects -> Postmaster]
    /\ data \in [Projects -> DataDir]
    /\ sock \in [Projects -> BOOLEAN]
    /\ pc \in [Procs -> Steps \cup {"off"}]
    /\ op \in [Procs -> Ops \cup {"none"}]
    /\ dir \in [Procs -> Projects]
    /\ snap \in [Procs -> [Projects -> Entry]]
    /\ todo \in [Procs -> SUBSET Projects]
    /\ faults \in 0..MaxFaults
    /\ unclean \in [Projects -> BOOLEAN]
    /\ cut \in [Procs -> BOOLEAN]

Init ==
    /\ registry = NoClusters
    /\ lock = "free"
    /\ pg = [d \in Projects |-> "stopped"]
    /\ data \in [Projects -> InitialData]
    /\ sock = [d \in Projects |-> FALSE]
    /\ pc = [p \in Procs |-> "off"]
    /\ op = [p \in Procs |-> "none"]
    /\ dir \in [Procs -> Projects]
    /\ snap = [p \in Procs |-> NoClusters]
    /\ todo = [p \in Procs |-> {}]
    /\ faults = 0
    /\ unclean = [d \in Projects |-> FALSE]
    /\ cut = [p \in Procs |-> FALSE]

-----------------------------------------------------------------------------
\* PROBES AND THE PURE PART OF THE REGISTRY

\* probe_data_dir: PG_VERSION first, then a postmaster.pid that names a live
\* postgres.
Probe(d) ==
    CASE data[d] \in {"absent", "begun"} -> "vanished"
      [] data[d] \in {"versioned", "ready"} /\ pg[d] = "up" -> "running"
      [] OTHER -> "stopped"

\* Registry::reap_with: an entry whose data directory is gone is dropped.
Reap(reg) == [d \in Projects |-> IF Probe(d) = "vanished" THEN NoEntry ELSE reg[d]]

PrunedNever(refs) == refs

\* prune_refs with ref_is_live: the holder lives and is still a `sky run`.
Pruned(refs) == {q \in refs : op[q] \in RunOps}

UpsertedAlone(p, e) ==
    [known |-> TRUE, explicit |-> e.explicit \/ op[p] = "start",
     refs |-> IF op[p] = "acquire" THEN {p} ELSE Pruned(e.refs)]

\* What upsert makes of an entry for `sky db start` or for a run.
Upserted(p, e) ==
    [known |-> TRUE,
     explicit |-> e.explicit \/ op[p] = "start",
     refs |-> Pruned(e.refs) \cup (IF op[p] = "acquire" THEN {p} ELSE {})]

Released(p, e) == [e EXCEPT !.refs = Pruned(@) \ {p}]

KeepReferenced(e) == e.refs # {}

\* A release leaves the cluster up for a `sky db start` and for other runs.
Keep(e) == e.explicit \/ e.refs # {}

\* A stop by hand ends the persistence and every reference.
Cleared(e) == [known |-> e.known, explicit |-> FALSE, refs |-> {}]

Target(p) == CHOOSE d \in todo[p] : TRUE

\* The run p depends on the cluster of d.
Leased(p, d) == op[p] = "acquire" /\ pc[p] = "running" /\ dir[p] = d

\* A run that fails leaves behind whatever it started.
Blemished(p) ==
    IF op[p] \in StartOps \cup RunOps THEN [unclean EXCEPT ![dir[p]] = TRUE]
    ELSE unclean

\* The leases that are outstanding when the cluster of d goes down.
CutWith(d) == [p \in Procs |-> cut[p] \/ Leased(p, d)]

Fault == faults < MaxFaults /\ faults' = faults + 1

Goto(p, s) == pc' = [pc EXCEPT ![p] = s]

\* The process is gone: its slot is free.
Leave(p) ==
    /\ Goto(p, "off")
    /\ op' = [op EXCEPT ![p] = "none"]
    /\ snap' = [snap EXCEPT ![p] = NoClusters]
    /\ todo' = [todo EXCEPT ![p] = {}]
    /\ UNCHANGED dir

\* An invocation that returns Err before it holds the lock.
Fail(p) == Leave(p) /\ unclean' = Blemished(p) /\ UNCHANGED <<registry, lock, faults>>

-----------------------------------------------------------------------------
\* start_cluster, OUTSIDE THE LOCK

Spawn(p, o, d) ==
    /\ pc[p] = "off"
    /\ Goto(p, IF o \in StartOps THEN "probe" ELSE "lock")
    /\ op' = [op EXCEPT ![p] = o]
    /\ dir' = [dir EXCEPT ![p] = d]
    /\ UNCHANGED <<registry, lock, disk, snap, todo, faults, history>>

\* The steps of start_cluster share this frame.
Starting(p, s) ==
    /\ pc[p] = s
    /\ UNCHANGED <<registry, lock, op, dir, snap, todo, faults, history>>

ProbeDataDir(p) ==
    /\ Starting(p, "probe")
    /\ Goto(p, IF Probe(dir[p]) = "running" THEN "lock" ELSE "branch")
    /\ UNCHANGED disk

\* A directory with PG_VERSION, an absent one, and one without PG_VERSION.
Initialised(p) ==
    /\ data[dir[p]] \in {"versioned", "ready"}
    /\ Starting(p, "branch")
    /\ Goto(p, "judge")
    /\ UNCHANGED disk

Uninitialised(p) ==
    /\ data[dir[p]] = "absent"
    /\ Starting(p, "branch")
    /\ Goto(p, "initdb")
    /\ UNCHANGED disk

BranchFails(p) ==
    /\ pc[p] = "branch"
    /\ data[dir[p]] = "begun"
    /\ Fail(p)
    /\ UNCHANGED <<disk, cut>>

\* clear_stale_pidfile: a pid file that names no live process is to be cleared,
\* a missing one needs nothing, a live postmaster is an error.
JudgePidfile(p) ==
    /\ pg[dir[p]] # "up"
    /\ Starting(p, "judge")
    /\ Goto(p, IF pg[dir[p]] = "killed" THEN "clear" ELSE "prepare")
    /\ UNCHANGED disk

HolderAlive(p) ==
    /\ pc[p] = "judge"
    /\ pg[dir[p]] = "up"
    /\ Fail(p)
    /\ UNCHANGED <<disk, cut>>

\* clear_stale_pidfile removes the file it has judged stale; the file there
\* now may be another one.
ClearStalePidfile(p) ==
    /\ pg[dir[p]] \in {"killed", "up"}
    /\ Starting(p, "clear")
    /\ pg' = [pg EXCEPT ![dir[p]] = IF @ = "up" THEN "lost" ELSE "stopped"]
    /\ Goto(p, "prepare")
    /\ UNCHANGED <<data, sock>>

ClearFails(p) ==
    /\ pc[p] = "clear"
    /\ pg[dir[p]] \notin {"killed", "up"}
    /\ Fail(p)
    /\ UNCHANGED <<disk, cut>>

\* initdb: it refuses a directory that is not empty, writes PG_VERSION early
\* and fails when its directory is taken away.
InitdbStep(p, s, from, to, next) ==
    /\ Starting(p, s)
    /\ IF data[dir[p]] = from
       THEN data' = [data EXCEPT ![dir[p]] = to] /\ Goto(p, next)
       ELSE Goto(p, "initdbFailed") /\ UNCHANGED data
    /\ UNCHANGED <<pg, sock>>

RunInitdb(p) ==
    \/ InitdbStep(p, "initdb", "absent", "begun", "initdb2")
    \/ InitdbStep(p, "initdb2", "begun", "versioned", "initdb3")
    \/ InitdbStep(p, "initdb3", "versioned", "ready", "prepare")

\* initdb fails for a reason of its own (a full disk).
InitdbBreaks(p) ==
    /\ pc[p] \in {"initdb", "initdb2", "initdb3"}
    /\ Fault
    /\ Goto(p, "initdbFailed")
    /\ UNCHANGED <<registry, lock, disk, op, dir, snap, todo, history>>

\* run_initdb after a failure: remove_dir_all on the data directory.
RemoveDataDir(p) ==
    /\ pc[p] = "initdbFailed"
    /\ data' = [data EXCEPT ![dir[p]] = "absent"]
    /\ pg' = [pg EXCEPT ![dir[p]] = CASE @ = "up" -> "lost" [] @ = "killed" -> "stopped" [] OTHER -> @]
    /\ cut' = CutWith(dir[p])
    /\ Fail(p)
    /\ UNCHANGED sock

\* tune_conf and prepare_socket_dir.
Prepare(p) ==
    /\ data[dir[p]] = "ready"
    /\ Starting(p, "prepare")
    /\ sock' = [sock EXCEPT ![dir[p]] = TRUE]
    /\ Goto(p, "pgstart")
    /\ UNCHANGED <<pg, data>>

PrepareFails(p) ==
    /\ pc[p] = "prepare"
    /\ data[dir[p]] # "ready"
    /\ Fail(p)
    /\ UNCHANGED <<disk, cut>>

\* PostgreSQL refuses a second postmaster: by postmaster.pid, and by the lock
\* beside its socket.  It needs the data and the socket directory.
CanStart(d) == pg[d] \in {"stopped", "killed"} /\ data[d] = "ready" /\ sock[d]

RunPgCtlStart(p) ==
    /\ CanStart(dir[p])
    /\ Starting(p, "pgstart")
    /\ pg' = [pg EXCEPT ![dir[p]] = "up"]
    /\ Goto(p, "pidfile")
    /\ UNCHANGED <<data, sock>>

\* read_postmaster_pid after the success; without the file the start failed.
ReadPostmasterPid(p) ==
    /\ Starting(p, "pidfile")
    /\ Goto(p, IF pg[dir[p]] \in {"up", "killed"} THEN "lock" ELSE "reprobe")
    /\ UNCHANGED disk

PgCtlStartRefused(p) ==
    /\ ~CanStart(dir[p])
    /\ Starting(p, "pgstart")
    /\ Goto(p, "reprobe")
    /\ UNCHANGED disk

\* pg_ctl start fails for a reason of its own (a timeout, no memory).
PgCtlStartBreaks(p) ==
    /\ pc[p] = "pgstart"
    /\ Fault
    /\ Goto(p, "reprobe")
    /\ UNCHANGED <<registry, lock, disk, op, dir, snap, todo, history>>

\* The loser of two racing starts adopts the winner's postmaster.
Adopt(p) ==
    /\ Probe(dir[p]) = "running"
    /\ Starting(p, "reprobe")
    /\ Goto(p, "lock")
    /\ UNCHANGED disk

StartFails(p) ==
    /\ pc[p] = "reprobe"
    /\ Probe(dir[p]) # "running"
    /\ Fail(p)
    /\ UNCHANGED <<disk, cut>>

-----------------------------------------------------------------------------
\* THE REGISTRY LOCK

AcquireRegistryLock(p) ==
    /\ pc[p] = "lock"
    /\ lock = "free"
    /\ lock' = "fresh"
    /\ Goto(p, "load")
    /\ UNCHANGED <<registry, disk, op, dir, snap, todo, faults, history>>

\* lock_is_stale: the age of the file says nothing of its owner.
LockAges ==
    /\ lock = "fresh"
    /\ LockSound => \A p \in Procs : pc[p] \notin Critical
    /\ lock' = "old"
    /\ UNCHANGED <<registry, disk, invocation, faults, history>>

SeeStaleLock(p) ==
    /\ pc[p] = "lock"
    /\ lock = "old"
    /\ LockSound => \A q \in Procs : pc[q] # "break"
    /\ Goto(p, "break")
    /\ UNCHANGED <<registry, lock, disk, op, dir, snap, todo, faults, history>>

BreakLock(p) ==
    /\ pc[p] = "break"
    /\ lock' = "free"
    /\ Goto(p, "lock")
    /\ UNCHANGED <<registry, disk, op, dir, snap, todo, faults, history>>

\* Five seconds with the file in the way: the command gives up.
LockTimeout(p) ==
    /\ pc[p] = "lock"
    /\ lock # "free"
    /\ Fail(p)
    /\ UNCHANGED <<disk, cut>>

\* RegistryLock::drop, on every path out; a run that has its lease goes on.
Unlock(p) ==
    /\ pc[p] = "unlock"
    /\ lock' = "free"
    /\ IF op[p] = "acquire"
       THEN /\ Goto(p, "running")
            /\ snap' = [snap EXCEPT ![p] = NoClusters]
            /\ cut' = [cut EXCEPT ![p] = Probe(dir[p]) # "running"]
            /\ UNCHANGED <<op, dir, todo>>
       ELSE Leave(p) /\ UNCHANGED cut
    /\ UNCHANGED <<registry, disk, faults, unclean>>

-----------------------------------------------------------------------------
\* UNDER THE LOCK

\* The steps between Registry::load and Registry::save.
Loading(p, ops) ==
    /\ pc[p] = "load"
    /\ op[p] \in ops
    /\ UNCHANGED <<registry, lock, disk, op, dir>>

Loaded(p, reg, s) == snap' = [snap EXCEPT ![p] = reg] /\ Goto(p, s)

LoadUpsert(p) ==
    /\ Loading(p, StartOps)
    /\ LET reg == Reap(registry)
       IN  Loaded(p, [reg EXCEPT ![dir[p]] = Upserted(p, @)], "save")
    /\ UNCHANGED <<todo, faults, history>>

LoadPs(p) ==
    /\ Loading(p, {"ps"})
    /\ Loaded(p, Reap(registry), "save")
    /\ UNCHANGED <<todo, faults, history>>

\* The targets of a stop: its own cluster, or every registered one that runs.
Targets(p) ==
    {d \in Projects :
        /\ Probe(d) = "running"
        /\ IF op[p] = "stopall" THEN Reap(registry)[d].known ELSE d = dir[p]}

LoadStop(p) ==
    /\ Loading(p, StopOps)
    /\ Loaded(p, Reap(registry), IF Targets(p) = {} THEN "save" ELSE "pgstop")
    /\ todo' = [todo EXCEPT ![p] = Targets(p)]
    /\ UNCHANGED <<faults, history>>

\* The decision of release_run_ref: this was the last thing keeping it up.
MustStop(p) ==
    /\ registry[dir[p]].known
    /\ ~Keep(Released(p, registry[dir[p]]))
    /\ Probe(dir[p]) = "running"

\* A dead run's reference passes for live while its pid belongs to a run of
\* another project: the recorded command line does not name the project.
Misled(p) == \E q \in Released(p, registry[dir[p]]).refs : dir[q] # dir[p]

LoadRelease(p) ==
    /\ Loading(p, {"release"})
    /\ registry[dir[p]].known
    /\ Loaded(p, [registry EXCEPT ![dir[p]] = Released(p, @)],
              IF MustStop(p) THEN "pgstop" ELSE "save")
    /\ todo' = [todo EXCEPT ![p] = IF MustStop(p) THEN {dir[p]} ELSE {}]
    /\ unclean' = [unclean EXCEPT ![dir[p]] = Misled(p)]
    /\ UNCHANGED <<faults, cut>>

ReleaseUnknown(p) ==
    /\ Loading(p, {"release"})
    /\ ~registry[dir[p]].known
    /\ Goto(p, "unlock")
    /\ UNCHANGED <<snap, todo, faults, history>>

\* discover_pg_bins fails: the command ends without a save.
NoBins(p) ==
    /\ pc[p] = "load"
    /\ \/ op[p] = "release" /\ MustStop(p)
       \/ op[p] \in StopOps /\ Targets(p) # {}
    /\ Fault
    /\ Goto(p, "unlock")
    /\ unclean' = Blemished(p)
    /\ UNCHANGED <<registry, lock, disk, op, dir, snap, todo, cut>>

\* After one target: the next one, or the save.
NextTarget(p) ==
    /\ todo' = [todo EXCEPT ![p] = @ \ {Target(p)}]
    /\ Goto(p, IF todo[p] = {Target(p)} THEN "save" ELSE "pgstop")

\* pg_ctl stop succeeds.  A release has only its own reference to give up.
PgCtlStop(p) ==
    /\ pc[p] = "pgstop"
    /\ pg[Target(p)] = "up"
    /\ pg' = [pg EXCEPT ![Target(p)] = "stopped"]
    /\ snap' = IF op[p] \in StopOps
               THEN [snap EXCEPT ![p][Target(p)] = Cleared(@)]
               ELSE snap
    /\ Goto(p, "rmsock")
    /\ cut' = CutWith(Target(p))
    /\ UNCHANGED <<registry, lock, data, sock, op, dir, todo, faults, unclean>>

\* remove_socket_dir_if_empty.
RemoveSocketDir(p) ==
    /\ pc[p] = "rmsock"
    /\ sock' = [sock EXCEPT ![Target(p)] = @ /\ pg[Target(p)] \in {"up", "lost"}]
    /\ NextTarget(p)
    /\ UNCHANGED <<registry, lock, pg, data, snap, op, dir, faults, history>>

\* pg_ctl stop fails: there is no postmaster to stop any more, or it does not
\* stop in time.
PgCtlStopFails(p) ==
    /\ pc[p] = "pgstop"
    /\ IF pg[Target(p)] = "up" THEN Fault ELSE UNCHANGED faults
    /\ NextTarget(p)
    /\ unclean' = Blemished(p)
    /\ UNCHANGED <<registry, lock, disk, snap, op, dir, cut>>

Save(p) ==
    /\ pc[p] = "save"
    /\ registry' = snap[p]
    /\ Goto(p, "unlock")
    /\ UNCHANGED <<lock, disk, op, dir, snap, todo, faults, history>>

\* The temporary file or the rename fails: the command ends with an error, and
\* clusters.json is the one before.
SaveFails(p) ==
    /\ pc[p] = "save"
    /\ Fault
    /\ Leave(p)
    /\ lock' = "free"
    /\ unclean' = Blemished(p)
    /\ UNCHANGED <<registry, disk, cut>>

\* The app has exited: RunLease::drop.
AppExits(p) ==
    /\ pc[p] = "running"
    /\ op' = [op EXCEPT ![p] = "release"]
    /\ Goto(p, "lock")
    /\ cut' = [cut EXCEPT ![p] = FALSE]
    /\ UNCHANGED <<registry, lock, disk, dir, snap, todo, faults, unclean>>

-----------------------------------------------------------------------------
\* THE ENVIRONMENT

\* SIGKILL, or Ctrl-C: no destructor runs.
Kill(p) ==
    /\ pc[p] # "off"
    /\ Fault
    /\ Leave(p)
    /\ unclean' = Blemished(p)
    /\ cut' = [cut EXCEPT ![p] = FALSE]
    /\ UNCHANGED <<registry, lock, disk>>

KillPostmaster(d) ==
    /\ pg[d] = "up"
    /\ Fault
    /\ pg' = [pg EXCEPT ![d] = "killed"]
    /\ cut' = CutWith(d)
    /\ UNCHANGED <<registry, lock, data, sock, invocation, unclean>>

\* A postmaster that misses its postmaster.pid shuts down.
PostmasterNotices(d) ==
    /\ pg[d] = "lost"
    /\ pg' = [pg EXCEPT ![d] = "stopped"]
    /\ cut' = CutWith(d)
    /\ UNCHANGED <<registry, lock, data, sock, invocation, faults, unclean>>

\* rm -rf .skydata while nothing serves it.
Wipe(d) ==
    /\ data[d] # "absent"
    /\ pg[d] \in {"stopped", "killed"}
    /\ Fault
    /\ data' = [data EXCEPT ![d] = "absent"]
    /\ pg' = [pg EXCEPT ![d] = "stopped"]
    /\ cut' = CutWith(d)
    /\ UNCHANGED <<registry, lock, sock, invocation, unclean>>

Start(p) ==
    \/ ProbeDataDir(p) \/ Initialised(p) \/ Uninitialised(p) \/ BranchFails(p)
    \/ JudgePidfile(p) \/ HolderAlive(p) \/ ReadPostmasterPid(p)
    \/ ClearStalePidfile(p) \/ ClearFails(p) \/ RunInitdb(p) \/ InitdbBreaks(p)
    \/ RemoveDataDir(p) \/ Prepare(p) \/ PrepareFails(p) \/ RunPgCtlStart(p) \/ PgCtlStartRefused(p)
    \/ PgCtlStartBreaks(p) \/ Adopt(p) \/ StartFails(p)

Locking(p) ==
    \/ AcquireRegistryLock(p) \/ SeeStaleLock(p) \/ BreakLock(p)
    \/ LockTimeout(p) \/ Unlock(p) \/ SaveFails(p)

Locked(p) ==
    \/ LoadUpsert(p) \/ LoadPs(p) \/ LoadStop(p) \/ LoadRelease(p)
    \/ ReleaseUnknown(p) \/ NoBins(p) \/ PgCtlStop(p) \/ RemoveSocketDir(p)
    \/ PgCtlStopFails(p) \/ Save(p)

Next ==
    \/ \E p \in Procs, o \in Verbs, d \in Projects : Spawn(p, o, d)
    \/ \E p \in Procs : Start(p) \/ Locking(p) \/ Locked(p) \/ AppExits(p) \/ Kill(p)
    \/ \E d \in Projects : KillPostmaster(d) \/ PostmasterNotices(d) \/ Wipe(d)
    \/ LockAges

Spec == Init /\ [][Next]_vars

-----------------------------------------------------------------------------
\* PROPERTIES

\* While the cluster of a live run stays up, the registry holds the run's
\* reference: no other invocation's load and save, prune or reap drops it
\* (upsert, release_run_ref, prune_refs).
LeaseRecorded ==
    \A p \in Procs : Leased(p, dir[p]) /\ ~cut[p] => p \in registry[dir[p]].refs

\* A run that exits stops the postmaster only when nobody needs it: no other
\* run whose database is up, no cluster that `sky db start` made persistent
\* (release_run_ref).
ReleaseSpares ==
    [][\A p \in Procs : op[p] = "release" /\ PgCtlStop(p) =>
          /\ ~registry[Target(p)].explicit
          /\ \A q \in Procs : Leased(q, Target(p)) => cut[q]]_vars

\* `sky run` does not leak clusters: once every invocation is over, a cluster
\* that still runs was asked for by `sky db start`, unless an invocation on
\* it failed or was killed and no run has been released since.  A dead run's
\* reference does not pin it, whatever invocation on the same project has its
\* pid now (prune_refs, release_run_ref).
QuietMeansDown ==
    \A d \in Projects :
        /\ \A p \in Procs : pc[p] = "off"
        /\ ~unclean[d]
        /\ Probe(d) = "running"
        => registry[d].explicit

\* Two runs on one project do not fight: with no other command and no fault,
\* the cluster of a run is up from its lease to the exit of its app
\* (acquire_for_run, release_run_ref, run_initdb).
RunsDoNotFight ==
    \A p \in Procs : Leased(p, dir[p]) /\ faults = 0 => pg[dir[p]] = "up"

=============================================================================
