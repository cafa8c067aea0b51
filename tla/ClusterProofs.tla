--------------------------- MODULE ClusterProofs ---------------------------
(***************************************************************************)
(* Theorems about Cluster, for every set of processes, projects and verbs  *)
(* and any number of faults.                                               *)
(*                                                                         *)
(* TypeOK is inductive.  LeaseRecorded and ReleaseSpares hold while only   *)
(* dead holders' locks are broken (LockSound).  Their proof needs that the *)
(* lock excludes (MutexInv), that the data directory of a standing run is  *)
(* there, so that no reap drops its entry (DataInv), and that copies of    *)
(* the registry on their way to disk hold its reference too (RefInv).      *)
(* QuietMeansDown follows from who answers for a cluster that is up        *)
(* (AnsweredInv), under the same assumption.                               *)
(***************************************************************************)
EXTENDS Cluster, TLAPS

\* One process at most is between load and the drop of the lock, and then the
\* lock file is fresh; one at most is about to break an old lock.
MutexInv ==
    /\ \A p \in Procs : pc[p] \in Critical => lock = "fresh"
    /\ \A p, q \in Procs : pc[p] \in Critical /\ pc[q] \in Critical => p = q
    /\ \A p \in Procs : pc[p] = "break" => lock = "old"
    /\ \A p, q \in Procs : pc[p] = "break" /\ pc[q] = "break" => p = q

\* A run whose cluster has not been down since it took its lease.
Standing(p) == op[p] = "acquire" /\ pc[p] = "running" /\ ~cut[p]

\* A process between load and save.
Holding(p) == pc[p] \in {"pgstop", "rmsock", "save"}

\* A standing run has its data directory.
DataInv == \A p \in Procs : Standing(p) => data[dir[p]] \in {"versioned", "ready"}

\* The registry, and every copy of it that will be saved, has the reference of
\* every standing run, and of the run that is about to stand.
RefInv ==
    /\ \A p \in Procs : Standing(p) => p \in registry[dir[p]].refs
    /\ \A p, q \in Procs : Standing(p) /\ Holding(q) => p \in snap[q][dir[p]].refs
    /\ \A p \in Procs :
          pc[p] = "save" /\ op[p] = "acquire" => p \in snap[p][dir[p]].refs
    /\ \A p \in Procs :
          pc[p] = "unlock" /\ op[p] = "acquire" => p \in registry[dir[p]].refs
    /\ \A p \in Procs : pc[p] \in {"pgstop", "rmsock"} => op[p] # "acquire"

\* A release that will stop a cluster stops its own, which nobody holds.
StopInv ==
    \A p \in Procs :
        op[p] = "release" /\ pc[p] \in {"pgstop", "rmsock"} =>
            /\ todo[p] = {dir[p]}
            /\ snap[p][dir[p]].refs = {}
            /\ ~registry[dir[p]].explicit

-----------------------------------------------------------------------------
\* TYPES

USE DEF Ops, StartOps, StopOps, RunOps

LEMMA EntryTypes ==
  /\ NoEntry \in Entry
  /\ NoClusters \in [Projects -> Entry]
  BY DEF NoEntry, Entry, NoClusters

LEMMA ReapType ==
  ASSUME NEW reg \in [Projects -> Entry]
  PROVE  Reap(reg) \in [Projects -> Entry]
  BY EntryTypes DEF Reap

LEMMA UpsertedType ==
  ASSUME NEW p \in Procs, NEW e \in Entry
  PROVE  Upserted(p, e) \in Entry
  <1>1. e.refs \in SUBSET Procs /\ e.explicit \in BOOLEAN
    BY DEF Entry
  <1>2. Pruned(e.refs) \cup (IF op[p] = "acquire" THEN {p} ELSE {}) \in SUBSET Procs
    BY <1>1 DEF Pruned
  <1>3. (e.explicit \/ op[p] = "start") \in BOOLEAN
    OBVIOUS
  <1> QED BY <1>2, <1>3 DEF Upserted, Entry

LEMMA ReleasedType ==
  ASSUME NEW p \in Procs, NEW e \in Entry
  PROVE  /\ Released(p, e) \in Entry
         /\ Released(p, e).refs = Pruned(e.refs) \ {p}
         /\ Released(p, e).explicit = e.explicit
         /\ Released(p, e).known = e.known
  <1>1. Pruned(e.refs) \ {p} \in SUBSET Procs
    BY DEF Entry, Pruned
  <1> QED BY <1>1 DEF Released, Entry

LEMMA ClearedType ==
  ASSUME NEW reg \in [Projects -> Entry], NEW d
  PROVE  [reg EXCEPT ![d] = Cleared(@)] \in [Projects -> Entry]
  <1>1. \A e \in Entry : Cleared(e) \in Entry
    BY DEF Cleared, Entry
  <1>2. CASE d \in Projects
    <2>1. Cleared(reg[d]) \in Entry
      BY <1>1, <1>2
    <2> QED BY <1>2, <2>1
  <1>3. CASE d \notin Projects
    <2>1. [reg EXCEPT ![d] = Cleared(@)] = reg
      BY <1>3
    <2> QED BY <2>1
  <1> QED BY <1>2, <1>3

LEMMA FaultType ==
  ASSUME faults \in 0 .. MaxFaults, Fault
  PROVE  faults' \in 0 .. MaxFaults
  BY BoundAssumption DEF Fault

\* The variables an invocation owns, after a step that ends it.
LEMMA LeaveType ==
  ASSUME TypeOK, NEW p \in Procs, Leave(p)
  PROVE  /\ pc' \in [Procs -> Steps \cup {"off"}]
         /\ op' \in [Procs -> Ops \cup {"none"}]
         /\ dir' \in [Procs -> Projects]
         /\ snap' \in [Procs -> [Projects -> Entry]]
         /\ todo' \in [Procs -> SUBSET Projects]
  BY EntryTypes DEF TypeOK, Leave, Goto, Steps

LEMMA BlemishedType ==
  ASSUME TypeOK, NEW p \in Procs
  PROVE  Blemished(p) \in [Projects -> BOOLEAN]
  BY DEF TypeOK, Blemished

LEMMA CutType ==
  ASSUME TypeOK, NEW d
  PROVE  CutWith(d) \in [Procs -> BOOLEAN]
  BY DEF TypeOK, CutWith

LEMMA FailType ==
  ASSUME TypeOK, NEW p \in Procs, Fail(p), UNCHANGED <<disk, cut>>
  PROVE  TypeOK'
  BY LeaveType, BlemishedType DEF TypeOK, Fail, disk

\* A step of start_cluster that only moves on.
LEMMA StartingType ==
  ASSUME TypeOK, NEW p \in Procs, NEW s, NEW t \in Steps, Starting(p, s), Goto(p, t),
         pg' \in [Projects -> Postmaster], data' \in [Projects -> DataDir],
         sock' \in [Projects -> BOOLEAN]
  PROVE  TypeOK'
  BY DEF TypeOK, Starting, Goto, history

LEMMA StartType ==
  ASSUME TypeOK, NEW p \in Procs, Start(p)
  PROVE  TypeOK'
  <1> USE DEF Steps, disk
  <1>1. CASE ProbeDataDir(p)
    BY <1>1, StartingType DEF ProbeDataDir, TypeOK
  <1>2. CASE Initialised(p) \/ JudgePidfile(p) \/ ReadPostmasterPid(p)
    BY <1>2, StartingType DEF Initialised, JudgePidfile, ReadPostmasterPid, TypeOK
  <1>3. CASE Uninitialised(p)
    BY <1>3, StartingType DEF Uninitialised, TypeOK
  <1>4. CASE BranchFails(p) \/ HolderAlive(p)
    BY <1>4, FailType DEF BranchFails, HolderAlive
  <1>5. CASE ClearStalePidfile(p)
    <2>1. pg' \in [Projects -> Postmaster]
      BY <1>5 DEF ClearStalePidfile, TypeOK, Postmaster
    <2> QED BY <1>5, <2>1, StartingType DEF ClearStalePidfile, TypeOK
  <1>6. CASE ClearFails(p)
    BY <1>6, FailType DEF ClearFails
  <1>7. CASE RunInitdb(p)
    <2>1. ASSUME NEW s, NEW from, NEW to \in DataDir, NEW next \in Steps,
                 InitdbStep(p, s, from, to, next)
          PROVE  TypeOK'
      <3>1. data' \in [Projects -> DataDir]
        BY <2>1 DEF InitdbStep, TypeOK
      <3> QED BY <2>1, <3>1, StartingType DEF InitdbStep, TypeOK
    <2> QED BY <1>7, <2>1 DEF RunInitdb, DataDir
  <1>8. CASE InitdbBreaks(p)
    BY <1>8, FaultType DEF InitdbBreaks, TypeOK, Goto, history
  <1>9. CASE RemoveDataDir(p)
    <2>1. /\ data' \in [Projects -> DataDir]
          /\ pg' \in [Projects -> Postmaster]
          /\ cut' \in [Procs -> BOOLEAN]
      BY <1>9, CutType DEF RemoveDataDir, TypeOK, Postmaster, DataDir
    <2> QED BY <1>9, <2>1, LeaveType, BlemishedType DEF RemoveDataDir, Fail, TypeOK
  <1>10. CASE Prepare(p)
    <2>1. sock' \in [Projects -> BOOLEAN]
      BY <1>10 DEF Prepare, TypeOK
    <2> QED BY <1>10, <2>1, StartingType DEF Prepare, TypeOK
  <1>11. CASE PrepareFails(p)
    BY <1>11, FailType DEF PrepareFails
  <1>12. CASE RunPgCtlStart(p)
    <2>1. pg' \in [Projects -> Postmaster]
      BY <1>12 DEF RunPgCtlStart, TypeOK, Postmaster
    <2> QED BY <1>12, <2>1, StartingType DEF RunPgCtlStart, TypeOK
  <1>13. CASE PgCtlStartRefused(p)
    BY <1>13, StartingType DEF PgCtlStartRefused, TypeOK
  <1>14. CASE PgCtlStartBreaks(p)
    BY <1>14, FaultType DEF PgCtlStartBreaks, TypeOK, Goto, history
  <1>15. CASE Adopt(p)
    BY <1>15, StartingType DEF Adopt, TypeOK
  <1>16. CASE StartFails(p)
    BY <1>16, FailType DEF StartFails
  <1> QED BY <1>1, <1>2, <1>3, <1>4, <1>5, <1>6, <1>7, <1>8, <1>9, <1>10, <1>11,
             <1>12, <1>13, <1>14, <1>15, <1>16 DEF Start

LEMMA LockingType ==
  ASSUME TypeOK, NEW p \in Procs, Locking(p)
  PROVE  TypeOK'
  <1> USE DEF Steps, disk, history
  <1>1. CASE AcquireRegistryLock(p)
    BY <1>1 DEF AcquireRegistryLock, TypeOK, Goto
  <1>2. CASE SeeStaleLock(p)
    BY <1>2 DEF SeeStaleLock, TypeOK, Goto
  <1>3. CASE BreakLock(p)
    BY <1>3 DEF BreakLock, TypeOK, Goto
  <1>4. CASE LockTimeout(p)
    BY <1>4, FailType DEF LockTimeout
  <1>5. CASE Unlock(p)
    <2>1. CASE op[p] = "acquire"
      <3>1. snap' \in [Procs -> [Projects -> Entry]]
        BY <1>5, <2>1, EntryTypes DEF Unlock, TypeOK
      <3>2. cut' \in [Procs -> BOOLEAN]
        BY <1>5, <2>1 DEF Unlock, TypeOK
      <3> QED BY <1>5, <2>1, <3>1, <3>2 DEF Unlock, TypeOK, Goto
    <2>2. CASE op[p] # "acquire"
      BY <1>5, <2>2, LeaveType DEF Unlock, TypeOK
    <2> QED BY <2>1, <2>2
  <1>6. CASE SaveFails(p)
    BY <1>6, LeaveType, FaultType, BlemishedType DEF SaveFails, TypeOK
  <1> QED BY <1>1, <1>2, <1>3, <1>4, <1>5, <1>6 DEF Locking

\* Under the lock, before the save.
LEMMA LoadedType ==
  ASSUME TypeOK, NEW p \in Procs, NEW ops, NEW reg \in [Projects -> Entry], NEW s \in Steps,
         Loading(p, ops), Loaded(p, reg, s),
         todo' \in [Procs -> SUBSET Projects], faults' \in 0 .. MaxFaults,
         unclean' \in [Projects -> BOOLEAN], cut' \in [Procs -> BOOLEAN]
  PROVE  TypeOK'
  BY DEF TypeOK, Loading, Loaded, Goto, disk

LEMMA NextTargetType ==
  ASSUME TypeOK, NEW p \in Procs, NextTarget(p)
  PROVE  /\ pc' \in [Procs -> Steps \cup {"off"}]
         /\ todo' \in [Procs -> SUBSET Projects]
  BY DEF TypeOK, NextTarget, Goto, Steps

LEMMA LockedType ==
  ASSUME TypeOK, NEW p \in Procs, Locked(p)
  PROVE  TypeOK'
  <1> USE DEF Steps, disk, history
  <1>0. /\ registry \in [Projects -> Entry] /\ dir[p] \in Projects
        /\ Reap(registry) \in [Projects -> Entry]
    BY ReapType DEF TypeOK
  <1>1. CASE LoadUpsert(p)
    <2> DEFINE reg == Reap(registry)
    <2>1. [reg EXCEPT ![dir[p]] = Upserted(p, @)] \in [Projects -> Entry]
      BY <1>0, UpsertedType
    <2> QED BY <1>1, <2>1, LoadedType DEF LoadUpsert, TypeOK
  <1>2. CASE LoadPs(p)
    BY <1>2, <1>0, LoadedType DEF LoadPs, TypeOK
  <1>3. CASE LoadStop(p)
    <2>1. todo' \in [Procs -> SUBSET Projects]
      BY <1>3 DEF LoadStop, TypeOK, Targets
    <2> QED BY <1>3, <1>0, <2>1, LoadedType DEF LoadStop, TypeOK
  <1>4. CASE LoadRelease(p)
    <2>1. [registry EXCEPT ![dir[p]] = Released(p, @)] \in [Projects -> Entry]
      BY <1>0, ReleasedType
    <2>2. todo' \in [Procs -> SUBSET Projects]
      BY <1>4, <1>0 DEF LoadRelease, TypeOK
    <2>3. Misled(p) \in BOOLEAN
      BY DEF Misled
    <2>4. unclean' \in [Projects -> BOOLEAN]
      BY <1>4, <2>3 DEF LoadRelease, TypeOK
    <2> QED BY <1>4, <2>1, <2>2, <2>4, LoadedType DEF LoadRelease, TypeOK
  <1>5. CASE ReleaseUnknown(p)
    BY <1>5 DEF ReleaseUnknown, Loading, TypeOK, Goto
  <1>6. CASE NoBins(p)
    BY <1>6, FaultType, BlemishedType DEF NoBins, TypeOK, Goto
  <1>7. CASE PgCtlStop(p)
    <2>1. pg' \in [Projects -> Postmaster]
      BY <1>7 DEF PgCtlStop, TypeOK, Postmaster
    <2>2. snap' \in [Procs -> [Projects -> Entry]]
      <3> DEFINE cleared == [snap[p] EXCEPT ![Target(p)] = Cleared(@)]
      <3>2. cleared \in [Projects -> Entry]
        BY ClearedType DEF TypeOK
      <3>3. snap' = snap \/ snap' = [snap EXCEPT ![p] = cleared]
        BY <1>7 DEF PgCtlStop
      <3> QED BY <3>2, <3>3 DEF TypeOK
    <2>3. cut' \in [Procs -> BOOLEAN]
      BY <1>7, CutType DEF PgCtlStop
    <2> QED BY <1>7, <2>1, <2>2, <2>3 DEF PgCtlStop, TypeOK, Goto
  <1>8. CASE RemoveSocketDir(p)
    <2>1. sock' \in [Projects -> BOOLEAN]
      BY <1>8 DEF RemoveSocketDir, TypeOK
    <2> QED BY <1>8, <2>1, NextTargetType DEF RemoveSocketDir, TypeOK
  <1>9. CASE PgCtlStopFails(p)
    BY <1>9, NextTargetType, FaultType, BlemishedType DEF PgCtlStopFails, TypeOK
  <1>10. CASE Save(p)
    BY <1>10 DEF Save, TypeOK, Goto
  <1> QED BY <1>1, <1>2, <1>3, <1>4, <1>5, <1>6, <1>7, <1>8, <1>9, <1>10 DEF Locked

LEMMA TypeStep ==
  ASSUME TypeOK, [Next]_vars
  PROVE  TypeOK'
  <1> USE DEF Steps, disk, history, invocation
  <1>1. ASSUME NEW p \in Procs, NEW o \in Verbs, NEW d \in Projects, Spawn(p, o, d)
        PROVE  TypeOK'
    BY <1>1, VerbAssumption DEF Spawn, TypeOK, Goto
  <1>2. ASSUME NEW p \in Procs, AppExits(p)
        PROVE  TypeOK'
    BY <1>2 DEF AppExits, TypeOK, Goto
  <1>3. ASSUME NEW p \in Procs, Kill(p)
        PROVE  TypeOK'
    <2>1. cut' \in [Procs -> BOOLEAN]
      BY <1>3 DEF Kill, TypeOK
    <2> QED BY <1>3, <2>1, LeaveType, FaultType, BlemishedType DEF Kill, TypeOK
  <1>4. ASSUME NEW d \in Projects, KillPostmaster(d)
        PROVE  TypeOK'
    BY <1>4, FaultType, CutType DEF KillPostmaster, TypeOK, Postmaster
  <1>5. ASSUME NEW d \in Projects, PostmasterNotices(d)
        PROVE  TypeOK'
    BY <1>5, CutType DEF PostmasterNotices, TypeOK, Postmaster
  <1>6. ASSUME NEW d \in Projects, Wipe(d)
        PROVE  TypeOK'
    BY <1>6, FaultType, CutType DEF Wipe, TypeOK, Postmaster, DataDir
  <1>7. CASE LockAges
    BY <1>7 DEF LockAges, TypeOK
  <1>8. CASE UNCHANGED vars
    BY <1>8 DEF vars, TypeOK
  <1> QED BY <1>1, <1>2, <1>3, <1>4, <1>5, <1>6, <1>7, <1>8, StartType, LockingType,
             LockedType DEF Next

LEMMA InitType ==
  ASSUME Init
  PROVE  TypeOK
  <1>1. data \in [Projects -> DataDir] /\ pg \in [Projects -> Postmaster]
    BY DataAssumption DEF Init, DataDir, Postmaster
  <1>2. faults \in 0 .. MaxFaults
    BY BoundAssumption DEF Init
  <1>3. /\ registry \in [Projects -> Entry]
        /\ snap \in [Procs -> [Projects -> Entry]]
        /\ todo \in [Procs -> SUBSET Projects]
    BY EntryTypes DEF Init
  <1> QED BY <1>1, <1>2, <1>3 DEF Init, TypeOK

\* The registry, the files and every invocation's copy of them keep their
\* types, whatever races, is killed or fails.
THEOREM Typing == Spec => []TypeOK
  <1>1. Init => TypeOK
    BY InitType
  <1>2. TypeOK /\ [Next]_vars => TypeOK'
    BY TypeStep
  <1> QED BY <1>1, <1>2, PTL DEF Spec

-----------------------------------------------------------------------------
\* THE LOCK

LEMMA OutsideMutex ==
  ASSUME TypeOK, MutexInv, NEW p \in Procs, NEW s, s \notin Critical, s # "break",
         Goto(p, s), lock' = lock
  PROVE  MutexInv'
  BY DEF TypeOK, MutexInv, Goto

LEMMA InsideMutex ==
  ASSUME TypeOK, MutexInv, NEW p \in Procs, NEW s \in Critical, pc[p] \in Critical,
         Goto(p, s), lock' = lock
  PROVE  MutexInv'
  BY DEF TypeOK, MutexInv, Goto, Critical

\* Starting and failing happen outside the lock.
LEMMA StartOutside ==
  ASSUME TypeOK, NEW p \in Procs, Start(p)
  PROVE  /\ lock' = lock /\ registry' = registry
         /\ \E s \in Steps \cup {"off"} :
               s \notin Critical \cup {"break", "running"} /\ Goto(p, s)
         /\ pc[p] \notin Critical \cup {"break", "running"}
         /\ \A q \in Procs : q # p =>
               /\ op'[q] = op[q] /\ dir'[q] = dir[q] /\ snap'[q] = snap[q]
               /\ todo'[q] = todo[q] /\ (cut[q] => cut'[q])
  <1> USE DEF Steps, Critical, history
  <1>1. ASSUME NEW s, Starting(p, s)
        PROVE  /\ lock' = lock /\ registry' = registry /\ pc[p] = s
               /\ op' = op /\ dir' = dir /\ snap' = snap /\ todo' = todo /\ cut' = cut
    BY <1>1 DEF Starting
  <1>2. ASSUME Fail(p)
        PROVE  /\ lock' = lock /\ registry' = registry /\ Goto(p, "off") /\ dir' = dir
               /\ \A q \in Procs : q # p =>
                    op'[q] = op[q] /\ snap'[q] = snap[q] /\ todo'[q] = todo[q]
    BY <1>2 DEF Fail, Leave, TypeOK
  <1>3. CASE ProbeDataDir(p)
    BY <1>1, <1>3 DEF ProbeDataDir
  <1>4. CASE Initialised(p) \/ JudgePidfile(p) \/ ReadPostmasterPid(p)
    BY <1>1, <1>4 DEF Initialised, JudgePidfile, ReadPostmasterPid
  <1>5. CASE Uninitialised(p)
    BY <1>1, <1>5 DEF Uninitialised
  <1>6. CASE BranchFails(p) \/ HolderAlive(p)
    BY <1>2, <1>6 DEF BranchFails, HolderAlive
  <1>7. CASE ClearStalePidfile(p)
    BY <1>1, <1>7 DEF ClearStalePidfile
  <1>8. CASE ClearFails(p)
    BY <1>2, <1>8 DEF ClearFails
  <1>9. CASE RunInitdb(p)
    BY <1>1, <1>9 DEF RunInitdb, InitdbStep
  <1>10. CASE InitdbBreaks(p)
    BY <1>10 DEF InitdbBreaks
  <1>11. CASE RemoveDataDir(p)
    BY <1>2, <1>11 DEF RemoveDataDir, CutWith
  <1>12. CASE Prepare(p)
    BY <1>1, <1>12 DEF Prepare
  <1>13. CASE PrepareFails(p)
    BY <1>2, <1>13 DEF PrepareFails
  <1>14. CASE RunPgCtlStart(p)
    BY <1>1, <1>14 DEF RunPgCtlStart
  <1>15. CASE PgCtlStartRefused(p)
    BY <1>1, <1>15 DEF PgCtlStartRefused
  <1>16. CASE PgCtlStartBreaks(p)
    BY <1>16 DEF PgCtlStartBreaks
  <1>17. CASE Adopt(p)
    BY <1>1, <1>17 DEF Adopt
  <1>18. CASE StartFails(p)
    BY <1>2, <1>18 DEF StartFails
  <1> QED BY <1>3, <1>4, <1>5, <1>6, <1>7, <1>8, <1>9, <1>10, <1>11, <1>12, <1>13,
             <1>14, <1>15, <1>16, <1>17, <1>18 DEF Start

\* Loading, stopping and saving happen under the lock.
LEMMA LockedInside ==
  ASSUME NEW p \in Procs, Locked(p)
  PROVE  /\ lock' = lock /\ op' = op /\ dir' = dir /\ pc[p] \in Critical
         /\ \E s \in {"pgstop", "rmsock", "save", "unlock"} : Goto(p, s)
  BY DEF Locked, LoadUpsert, LoadPs, LoadStop, LoadRelease, ReleaseUnknown, NoBins,
         PgCtlStop, RemoveSocketDir, PgCtlStopFails, Save, Loading, Loaded, NextTarget,
         Critical

LEMMA MutexStep ==
  ASSUME LockSound, TypeOK, MutexInv, [Next]_vars
  PROVE  MutexInv'
  <1>1. ASSUME NEW p \in Procs, NEW o \in Verbs, NEW d \in Projects, Spawn(p, o, d)
        PROVE  MutexInv'
    BY <1>1, OutsideMutex DEF Spawn, Critical
  <1>2. ASSUME NEW p \in Procs, Start(p)
        PROVE  MutexInv'
    BY <1>2, StartOutside, OutsideMutex
  <1>3. ASSUME NEW p \in Procs, Locked(p)
        PROVE  MutexInv'
    BY <1>3, LockedInside, InsideMutex DEF Critical
  <1>4. ASSUME NEW p \in Procs, AppExits(p) \/ Kill(p) \/ LockTimeout(p)
        PROVE  MutexInv'
    BY <1>4, OutsideMutex DEF AppExits, Kill, LockTimeout, Fail, Leave, Critical
  <1>5. ASSUME NEW p \in Procs, AcquireRegistryLock(p)
        PROVE  MutexInv'
    BY <1>5 DEF AcquireRegistryLock, MutexInv, TypeOK, Goto, Critical
  <1>6. ASSUME NEW p \in Procs, SeeStaleLock(p)
        PROVE  MutexInv'
    BY <1>6 DEF SeeStaleLock, MutexInv, TypeOK, Goto, Critical
  <1>7. ASSUME NEW p \in Procs, BreakLock(p)
        PROVE  MutexInv'
    BY <1>7 DEF BreakLock, MutexInv, TypeOK, Goto, Critical
  <1>8. ASSUME NEW p \in Procs, Unlock(p)
        PROVE  MutexInv'
    <2>1. Goto(p, "running") \/ Goto(p, "off")
      BY <1>8 DEF Unlock, Leave
    <2> QED BY <1>8, <2>1 DEF Unlock, MutexInv, TypeOK, Goto, Critical
  <1>9. CASE LockAges
    BY <1>9 DEF LockAges, MutexInv, invocation
  <1>10. ASSUME NEW d \in Projects, KillPostmaster(d) \/ PostmasterNotices(d) \/ Wipe(d)
         PROVE  MutexInv'
    BY <1>10 DEF KillPostmaster, PostmasterNotices, Wipe, MutexInv, invocation
  <1>11. CASE UNCHANGED vars
    BY <1>11 DEF vars, MutexInv, invocation
  <1>12. ASSUME NEW p \in Procs, SaveFails(p)
         PROVE  MutexInv'
    BY <1>12 DEF SaveFails, Leave, MutexInv, TypeOK, Goto, Critical
  <1> QED BY <1>1, <1>2, <1>3, <1>4, <1>5, <1>6, <1>7, <1>8, <1>9, <1>10, <1>11,
             <1>12
          DEF Next, Locking

-----------------------------------------------------------------------------
\* REFERENCES

Inv == TypeOK /\ MutexInv /\ DataInv /\ RefInv /\ StopInv

Marked == {"pgstop", "rmsock", "save", "unlock", "running"}

\* The step leaves q's invocation alone; its cluster may go down.
Kept(q) ==
    /\ pc'[q] = pc[q] /\ op'[q] = op[q] /\ dir'[q] = dir[q]
    /\ snap'[q] = snap[q] /\ todo'[q] = todo[q] /\ (cut[q] => cut'[q])

\* Steps of invocations that neither hold a copy of the registry nor stand
\* afterwards.
LEMMA OutsideStep ==
  ASSUME Inv, registry' = registry,
         \A q \in Procs : Kept(q) \/ pc'[q] \notin Marked
  PROVE  /\ RefInv' /\ StopInv'
         /\ \A q \in Procs : Standing(q)' => Standing(q) /\ dir'[q] = dir[q]
  <1>1. \A q \in Procs : Standing(q)' => Standing(q) /\ dir'[q] = dir[q]
    BY DEF Standing, Kept, Marked
  <1>2. \A q \in Procs : Holding(q)' => Holding(q) /\ snap'[q] = snap[q]
    BY DEF Holding, Kept, Marked
  <1>3. RefInv'
    <2>1. \A p \in Procs : Standing(p)' => p \in registry'[dir'[p]].refs
      BY <1>1 DEF Inv, RefInv
    <2>2. \A p, q \in Procs : Standing(p)' /\ Holding(q)' => p \in snap'[q][dir'[p]].refs
      BY <1>1, <1>2 DEF Inv, RefInv
    <2>3. \A p \in Procs : pc'[p] = "save" /\ op'[p] = "acquire" => p \in snap'[p][dir'[p]].refs
      BY DEF Inv, RefInv, Kept, Marked
    <2>4. \A p \in Procs : pc'[p] = "unlock" /\ op'[p] = "acquire" => p \in registry'[dir'[p]].refs
      BY DEF Inv, RefInv, Kept, Marked
    <2>5. \A p \in Procs : pc'[p] \in {"pgstop", "rmsock"} => op'[p] # "acquire"
      BY DEF Inv, RefInv, Kept, Marked
    <2> QED BY <2>1, <2>2, <2>3, <2>4, <2>5 DEF RefInv
  <1>4. StopInv'
    BY DEF Inv, StopInv, Kept, Marked
  <1> QED BY <1>1, <1>3, <1>4

\* Steps of the process that holds the lock.
LEMMA InsideStep ==
  ASSUME Inv, NEW p \in Procs, pc[p] \in Critical, op' = op, dir' = dir,
         NEW t \in {"pgstop", "rmsock", "save", "unlock"}, Goto(p, t),
         \A q \in Procs : cut[q] => cut'[q],
         \A q \in Procs : Standing(q)' => q \in registry'[dir[q]].refs,
         t # "unlock" => \A q \in Procs : Standing(q)' => q \in snap'[p][dir[q]].refs,
         t = "save" /\ op[p] = "acquire" => p \in snap'[p][dir[p]].refs,
         t = "unlock" /\ op[p] = "acquire" => p \in registry'[dir[p]].refs,
         t \in {"pgstop", "rmsock"} => op[p] # "acquire",
         t \in {"pgstop", "rmsock"} /\ op[p] = "release" =>
            todo'[p] = {dir[p]} /\ snap'[p][dir[p]].refs = {} /\ ~registry'[dir[p]].explicit
  PROVE  RefInv' /\ StopInv'
  <1>1. pc'[p] = t /\ \A q \in Procs : q # p => pc'[q] = pc[q] /\ pc[q] \notin Critical
    BY DEF Inv, TypeOK, MutexInv, Goto
  <1>2. \A q \in Procs : pc'[q] \in {"pgstop", "rmsock", "save", "unlock"} => q = p
    BY <1>1 DEF Critical
  <1>3. RefInv'
    BY <1>1, <1>2 DEF RefInv, Holding
  <1>4. StopInv'
    BY <1>1, <1>2 DEF StopInv
  <1> QED BY <1>3, <1>4

\* A run does not come to stand in a step under the lock.
LEMMA InsideStanding ==
  ASSUME Inv, NEW p \in Procs, Locked(p)
  PROVE  /\ \A q \in Procs : cut[q] => cut'[q]
         /\ \A q \in Procs : Standing(q)' => Standing(q) /\ dir'[q] = dir[q] /\ q # p
         /\ data' = data
  <1>1. \A q \in Procs : cut[q] => cut'[q]
    BY DEF Locked, LoadUpsert, LoadPs, LoadStop, LoadRelease, ReleaseUnknown, NoBins,
           PgCtlStop, RemoveSocketDir, PgCtlStopFails, Save, Loading, CutWith, history
  <1>2. data' = data
    BY DEF Locked, LoadUpsert, LoadPs, LoadStop, LoadRelease, ReleaseUnknown, NoBins,
           PgCtlStop, RemoveSocketDir, PgCtlStopFails, Save, Loading, disk
  <1>3. PICK t \in {"pgstop", "rmsock", "save", "unlock"} : Goto(p, t)
    BY LockedInside
  <1>4. pc'[p] = t /\ \A q \in Procs : q # p => pc'[q] = pc[q]
    BY <1>3 DEF Goto, Inv, TypeOK
  <1> QED BY <1>1, <1>2, <1>4, LockedInside DEF Standing

\* A reap keeps the entry of a standing run.
LEMMA ReapKeeps ==
  ASSUME Inv, NEW q \in Procs, Standing(q)
  PROVE  /\ Reap(registry)[dir[q]] = registry[dir[q]]
         /\ q \in Pruned(registry[dir[q]].refs)
  <1>1. dir[q] \in Projects /\ data[dir[q]] \in {"versioned", "ready"}
    BY DEF Inv, TypeOK, DataInv
  <1>2. Probe(dir[q]) # "vanished"
    BY <1>1 DEF Probe
  <1> QED BY <1>1, <1>2 DEF Reap, Inv, RefInv, Pruned, Standing

LEMMA LockedStep ==
  ASSUME Inv, NEW p \in Procs, Locked(p)
  PROVE  RefInv' /\ StopInv'
  <1>0. /\ pc[p] \in Critical /\ op' = op /\ dir' = dir
        /\ \A q \in Procs : cut[q] => cut'[q]
        /\ \A q \in Procs : Standing(q)' => Standing(q) /\ q # p
        /\ p \in DOMAIN snap /\ dir[p] \in Projects /\ \A q \in Procs : dir[q] \in Projects
        /\ p \in DOMAIN todo
    BY LockedInside, InsideStanding DEF Inv, TypeOK
  <1>1. \A q \in Procs : Standing(q) => q \in registry[dir[q]].refs
    BY DEF Inv, RefInv
  <1>2. /\ registry \in [Projects -> Entry]
        /\ Reap(registry) \in [Projects -> Entry]
    BY ReapType DEF Inv, TypeOK
  <1>3. \A q \in Procs : Standing(q) => q \in Reap(registry)[dir[q]].refs
    BY <1>1, ReapKeeps
  <1>4. CASE LoadUpsert(p)
    <2> DEFINE reg == [Reap(registry) EXCEPT ![dir[p]] = Upserted(p, @)]
    <2>1. snap'[p] = reg /\ Goto(p, "save") /\ registry' = registry
      BY <1>4, <1>0 DEF LoadUpsert, Loading, Loaded
    <2>2. \A q \in Procs : Standing(q) => q \in reg[dir[q]].refs
      <3> SUFFICES ASSUME NEW q \in Procs, Standing(q)
                   PROVE  q \in reg[dir[q]].refs
        OBVIOUS
      <3>1. CASE dir[q] = dir[p]
        <4>1. reg[dir[q]] = Upserted(p, Reap(registry)[dir[q]])
          BY <3>1, <1>0, <1>2
        <4>2. q \in Pruned(Reap(registry)[dir[q]].refs)
          BY ReapKeeps
        <4> QED BY <4>1, <4>2 DEF Upserted
      <3>2. CASE dir[q] # dir[p]
        <4>1. reg[dir[q]] = Reap(registry)[dir[q]]
          BY <3>2, <1>0, <1>2
        <4> QED BY <4>1, <1>3
      <3> QED BY <3>1, <3>2
    <2>3. op[p] = "acquire" => p \in reg[dir[p]].refs
      <3>1. reg[dir[p]] = Upserted(p, Reap(registry)[dir[p]])
        BY <1>0, <1>2
      <3> QED BY <3>1 DEF Upserted
    <2> HIDE DEF reg
    <2> QED BY <1>0, <1>1, <2>1, <2>2, <2>3, InsideStep
  <1>5. CASE LoadPs(p)
    <2>1. snap'[p] = Reap(registry) /\ Goto(p, "save") /\ registry' = registry /\ op[p] = "ps"
      BY <1>5, <1>0 DEF LoadPs, Loading, Loaded
    <2> QED BY <1>0, <1>1, <1>3, <2>1, InsideStep
  <1>6. CASE LoadStop(p)
    <2>1. /\ snap'[p] = Reap(registry) /\ registry' = registry /\ op[p] \in StopOps
          /\ Goto(p, "save") \/ Goto(p, "pgstop")
      BY <1>6, <1>0 DEF LoadStop, Loading, Loaded
    <2> QED BY <1>0, <1>1, <1>3, <2>1, InsideStep
  <1>7. CASE LoadRelease(p)
    <2> DEFINE reg == [registry EXCEPT ![dir[p]] = Released(p, @)]
    <2>1. /\ snap'[p] = reg /\ registry' = registry /\ op[p] = "release"
          /\ Goto(p, IF MustStop(p) THEN "pgstop" ELSE "save")
          /\ MustStop(p) => todo'[p] = {dir[p]}
      BY <1>7, <1>0 DEF LoadRelease, Loading, Loaded
    <2>2. reg[dir[p]] = Released(p, registry[dir[p]]) /\ registry[dir[p]] \in Entry
      BY <1>0, <1>2
    <2>3. \A q \in Procs : Standing(q) /\ q # p => q \in reg[dir[q]].refs
      <3> SUFFICES ASSUME NEW q \in Procs, Standing(q), q # p
                   PROVE  q \in reg[dir[q]].refs
        OBVIOUS
      <3>1. CASE dir[q] = dir[p]
        BY <3>1, <2>2, ReapKeeps, ReleasedType
      <3>2. CASE dir[q] # dir[p]
        <4>1. reg[dir[q]] = registry[dir[q]]
          BY <3>2, <1>0, <1>2
        <4> QED BY <4>1, <1>1
      <3> QED BY <3>1, <3>2
    <2>4. MustStop(p) => reg[dir[p]].refs = {} /\ ~registry[dir[p]].explicit
      BY <2>2, ReleasedType DEF MustStop, Keep
    <2> HIDE DEF reg
    <2>5. CASE MustStop(p)
      BY <1>0, <1>1, <2>1, <2>3, <2>4, <2>5, InsideStep
    <2>6. CASE ~MustStop(p)
      BY <1>0, <1>1, <2>1, <2>3, <2>6, InsideStep
    <2> QED BY <2>5, <2>6
  <1>8. CASE ReleaseUnknown(p)
    <2>1. Goto(p, "unlock") /\ registry' = registry /\ op[p] = "release"
      BY <1>8 DEF ReleaseUnknown, Loading
    <2> QED BY <1>0, <1>1, <2>1, InsideStep
  <1>9. CASE NoBins(p)
    <2>1. Goto(p, "unlock") /\ registry' = registry /\ op[p] # "acquire"
      BY <1>9 DEF NoBins
    <2> QED BY <1>0, <1>1, <2>1, InsideStep
  <1>10. ASSUME pc[p] \in {"pgstop", "rmsock"}
         PROVE  /\ op[p] # "acquire"
                /\ \A q \in Procs : Standing(q) => q \in snap[p][dir[q]].refs
                /\ op[p] = "release" =>
                      /\ todo[p] = {dir[p]} /\ Target(p) = dir[p]
                      /\ snap[p][dir[p]].refs = {} /\ ~registry[dir[p]].explicit
    BY <1>10 DEF Inv, RefInv, StopInv, Holding, Target
  <1>11. CASE PgCtlStop(p)
    <2>1. /\ pc[p] = "pgstop" /\ Goto(p, "rmsock") /\ registry' = registry /\ todo' = todo
          /\ cut' = CutWith(Target(p))
      BY <1>11 DEF PgCtlStop
    <2>2. op[p] = "release" => snap' = snap
      BY <1>11 DEF PgCtlStop
    <2>3. \A q \in Procs : Standing(q)' => dir[q] # Target(p)
      BY <1>0, <2>1 DEF CutWith, Standing, Leased
    <2>4. \A d \in Projects : d # Target(p) => snap'[p][d] = snap[p][d]
      BY <1>11, <1>0 DEF PgCtlStop, Inv, TypeOK
    <2>5. \A q \in Procs : Standing(q)' => q \in snap'[p][dir[q]].refs
      BY <1>0, <1>10, <2>1, <2>3, <2>4
    <2> QED BY <1>0, <1>1, <1>10, <2>1, <2>2, <2>5, InsideStep
  <1>12. CASE RemoveSocketDir(p) \/ PgCtlStopFails(p)
    <2>1. /\ pc[p] \in {"pgstop", "rmsock"} /\ registry' = registry /\ snap' = snap
          /\ Goto(p, IF todo[p] = {Target(p)} THEN "save" ELSE "pgstop")
      BY <1>12 DEF RemoveSocketDir, PgCtlStopFails, NextTarget
    <2>2. op[p] = "release" => Goto(p, "save")
      BY <1>10, <2>1
    <2>3. CASE Goto(p, "save")
      BY <1>0, <1>1, <1>10, <2>1, <2>3, InsideStep
    <2>4. CASE Goto(p, "pgstop") /\ op[p] # "release"
      BY <1>0, <1>1, <1>10, <2>1, <2>4, InsideStep
    <2> QED BY <2>1, <2>2, <2>3, <2>4
  <1>13. CASE Save(p)
    <2>1. pc[p] = "save" /\ registry' = snap[p] /\ Goto(p, "unlock")
      BY <1>13 DEF Save
    <2>2. /\ \A q \in Procs : Standing(q) => q \in snap[p][dir[q]].refs
          /\ op[p] = "acquire" => p \in snap[p][dir[p]].refs
      BY <2>1 DEF Inv, RefInv, Holding
    <2> QED BY <1>0, <2>1, <2>2, InsideStep
  <1> QED BY <1>4, <1>5, <1>6, <1>7, <1>8, <1>9, <1>11, <1>12, <1>13 DEF Locked

\* A run comes to stand when it leaves the lock.
LEMMA LeaseStep ==
  ASSUME Inv, NEW p \in Procs, Unlock(p), op[p] = "acquire"
  PROVE  DataInv' /\ RefInv' /\ StopInv'
  <1>1. /\ pc[p] = "unlock" /\ pc' = [pc EXCEPT ![p] = "running"]
        /\ snap' = [snap EXCEPT ![p] = NoClusters]
        /\ cut' = [cut EXCEPT ![p] = Probe(dir[p]) # "running"]
        /\ registry' = registry /\ op' = op /\ dir' = dir /\ todo' = todo /\ data' = data
    BY DEF Unlock, Goto, disk
  <1>2. \A q \in Procs : q # p => Kept(q)
    BY <1>1 DEF Kept, Inv, TypeOK
  <1>3. \A q \in Procs : pc'[q] \notin {"pgstop", "rmsock", "save", "unlock"}
    BY <1>1 DEF Inv, TypeOK, MutexInv, Critical
  <1>4. \A q \in Procs : Standing(q)' /\ q # p => Standing(q)
    BY <1>2 DEF Kept, Standing
  <1>5. p \in registry[dir[p]].refs
    BY <1>1 DEF Inv, RefInv
  <1>6. Standing(p)' => data[dir[p]] \in {"versioned", "ready"}
    BY <1>1 DEF Standing, Probe, Inv, TypeOK
  <1>7. DataInv'
    BY <1>1, <1>4, <1>6 DEF DataInv, Inv
  <1>8. RefInv'
    BY <1>1, <1>3, <1>4, <1>5 DEF RefInv, Inv, Holding
  <1>9. StopInv'
    BY <1>3 DEF StopInv
  <1> QED BY <1>7, <1>8, <1>9

\* Who is left standing has its data directory, if the step leaves it alone.
LEMMA DataKept ==
  ASSUME Inv, \A q \in Procs : Standing(q)' => Standing(q) /\ dir'[q] = dir[q],
         \A q \in Procs : Standing(q)' /\ data[dir[q]] \in {"versioned", "ready"} =>
             data'[dir[q]] \in {"versioned", "ready"}
  PROVE  DataInv'
  BY DEF Inv, DataInv

LEMMA StartStep ==
  ASSUME Inv, NEW p \in Procs, Start(p)
  PROVE  DataInv' /\ RefInv' /\ StopInv'
  <1>1. \A q \in Procs : Kept(q) \/ pc'[q] \notin Marked
    BY StartOutside DEF Kept, Marked, Critical, Goto, Inv, TypeOK
  <1>2. /\ RefInv' /\ StopInv'
        /\ \A q \in Procs : Standing(q)' => Standing(q) /\ dir'[q] = dir[q]
    BY <1>1, StartOutside, OutsideStep DEF Inv
  <1>3. \A q \in Procs : Standing(q)' /\ data[dir[q]] \in {"versioned", "ready"} =>
             data'[dir[q]] \in {"versioned", "ready"}
    <2>1. /\ dir[p] \in Projects /\ data \in [Projects -> DataDir]
          /\ \A q \in Procs : dir[q] \in Projects
      BY DEF Inv, TypeOK
    <2>2. CASE data' = data
      BY <2>2
    <2>3. CASE RunInitdb(p)
      BY <2>1, <2>3 DEF RunInitdb, InitdbStep
    <2>4. CASE RemoveDataDir(p)
      <3>1. \A q \in Procs : Standing(q)' => dir[q] # dir[p]
        BY <1>2, <2>4 DEF RemoveDataDir, CutWith, Leased, Standing
      <3> QED BY <2>1, <2>4, <3>1 DEF RemoveDataDir
    <2> QED BY <2>2, <2>3, <2>4
        DEF Start, ProbeDataDir, Initialised, Uninitialised, BranchFails, JudgePidfile,
            HolderAlive, ReadPostmasterPid, ClearStalePidfile, ClearFails, InitdbBreaks, Prepare, PrepareFails, RunPgCtlStart,
            PgCtlStartRefused, PgCtlStartBreaks, Adopt, StartFails, disk
  <1> QED BY <1>2, <1>3, DataKept

\* Steps outside the lock that touch no data directory.
LEMMA AsideStep ==
  ASSUME Inv, registry' = registry, data' = data,
         \A q \in Procs : Kept(q) \/ pc'[q] \notin Marked
  PROVE  DataInv' /\ RefInv' /\ StopInv'
  BY OutsideStep, DataKept

LEMMA InvStep ==
  ASSUME LockSound, Inv, [Next]_vars
  PROVE  Inv'
  <1>0. TypeOK' /\ MutexInv'
    BY TypeStep, MutexStep DEF Inv
  <1> USE DEF disk, history, invocation
  <1>1. ASSUME NEW p \in Procs, NEW o \in Verbs, NEW d \in Projects, Spawn(p, o, d)
        PROVE  DataInv' /\ RefInv' /\ StopInv'
    BY <1>1, AsideStep DEF Spawn, Goto, Kept, Marked, Inv, TypeOK
  <1>2. ASSUME NEW p \in Procs, Locked(p)
        PROVE  DataInv' /\ RefInv' /\ StopInv'
    BY <1>2, LockedStep, InsideStanding, DataKept
  <1>3. ASSUME NEW p \in Procs, AcquireRegistryLock(p) \/ SeeStaleLock(p) \/ BreakLock(p)
        PROVE  DataInv' /\ RefInv' /\ StopInv'
    BY <1>3, AsideStep
    DEF AcquireRegistryLock, SeeStaleLock, BreakLock, Goto, Kept, Marked, Inv, TypeOK
  <1>4. ASSUME NEW p \in Procs, LockTimeout(p) \/ SaveFails(p)
        PROVE  DataInv' /\ RefInv' /\ StopInv'
    BY <1>4, AsideStep
    DEF LockTimeout, SaveFails, Fail, Leave, Goto, Kept, Marked, Inv, TypeOK
  <1>5. ASSUME NEW p \in Procs, Unlock(p)
        PROVE  DataInv' /\ RefInv' /\ StopInv'
    <2>1. CASE op[p] # "acquire"
      BY <1>5, <2>1, AsideStep DEF Unlock, Leave, Goto, Kept, Marked, Inv, TypeOK
    <2> QED BY <1>5, <2>1, LeaseStep
  <1>6. ASSUME NEW p \in Procs, AppExits(p)
        PROVE  DataInv' /\ RefInv' /\ StopInv'
    BY <1>6, AsideStep DEF AppExits, Goto, Kept, Marked, Inv, TypeOK
  <1>7. ASSUME NEW p \in Procs, Kill(p)
        PROVE  DataInv' /\ RefInv' /\ StopInv'
    BY <1>7, AsideStep DEF Kill, Leave, Goto, Kept, Marked, Inv, TypeOK
  <1>8. ASSUME NEW d \in Projects, KillPostmaster(d) \/ PostmasterNotices(d)
        PROVE  DataInv' /\ RefInv' /\ StopInv'
    BY <1>8, AsideStep DEF KillPostmaster, PostmasterNotices, Kept, CutWith
  <1>9. ASSUME NEW d \in Projects, Wipe(d)
        PROVE  DataInv' /\ RefInv' /\ StopInv'
    <2>1. \A q \in Procs : Kept(q)
      BY <1>9 DEF Wipe, Kept, CutWith
    <2>2. /\ RefInv' /\ StopInv'
          /\ \A q \in Procs : Standing(q)' => Standing(q) /\ dir'[q] = dir[q]
      BY <1>9, <2>1, OutsideStep DEF Wipe
    <2>3. \A q \in Procs : Standing(q)' => dir[q] # d
      BY <1>9, <2>2 DEF Wipe, CutWith, Leased, Standing
    <2> QED BY <1>9, <2>2, <2>3, DataKept DEF Wipe, Inv, TypeOK
  <1>10. ASSUME LockAges \/ UNCHANGED vars
         PROVE  DataInv' /\ RefInv' /\ StopInv'
    BY <1>10, AsideStep DEF LockAges, vars, Kept
  <1> QED BY <1>0, <1>1, <1>2, <1>3, <1>4, <1>5, <1>6, <1>7, <1>8, <1>9, <1>10, StartStep
          DEF Next, Locking, Inv

LEMMA InvHolds ==
  ASSUME LockSound
  PROVE  Spec => []Inv
  <1>1. Init => Inv
    <2>1. Init => TypeOK
      BY InitType
    <2>2. ASSUME Init
          PROVE  MutexInv /\ DataInv /\ RefInv /\ StopInv
      BY <2>2 DEF Init, MutexInv, DataInv, RefInv, StopInv, Standing, Holding, Critical
    <2> QED BY <2>1, <2>2 DEF Inv
  <1>2. Inv /\ [Next]_vars => Inv'
    BY InvStep
  <1> QED BY <1>1, <1>2, PTL DEF Spec

\* For any number of invocations and projects: while only dead holders' locks
\* are broken, the registry has the reference of every live run whose cluster
\* has stayed up (upsert, release_run_ref, prune_refs, reap_with).
THEOREM LeasesKept ==
  ASSUME LockSound
  PROVE  Spec => []LeaseRecorded
  <1>1. Inv => LeaseRecorded
    BY DEF Inv, RefInv, LeaseRecorded, Leased, Standing
  <1> QED BY <1>1, InvHolds, PTL

\* Under the same assumption the postmaster that a leaving run stops is needed
\* by no other run, and no `sky db start` has asked for it (release_run_ref).
THEOREM ReleasesSpare ==
  ASSUME LockSound
  PROVE  Spec => ReleaseSpares
  <1>1. Inv /\ [Next]_vars =>
           [\A p \in Procs : op[p] = "release" /\ PgCtlStop(p) =>
              /\ ~registry[Target(p)].explicit
              /\ \A q \in Procs : Leased(q, Target(p)) => cut[q]]_vars
    <2> SUFFICES ASSUME Inv, NEW p \in Procs, op[p] = "release", PgCtlStop(p)
                 PROVE  /\ ~registry[Target(p)].explicit
                        /\ \A q \in Procs : Leased(q, Target(p)) => cut[q]
      OBVIOUS
    <2>1. pc[p] = "pgstop"
      BY DEF PgCtlStop
    <2>2. /\ Target(p) = dir[p]
          /\ snap[p][dir[p]].refs = {} /\ ~registry[dir[p]].explicit
      BY <2>1 DEF Inv, StopInv, Target
    <2>3. \A q \in Procs : Standing(q) => q \in snap[p][dir[q]].refs
      BY <2>1 DEF Inv, RefInv, Holding
    <2> QED BY <2>2, <2>3 DEF Leased, Standing
  <1> QED BY <1>1, InvHolds, PTL DEF Spec, ReleaseSpares

-----------------------------------------------------------------------------
\* WHO ANSWERS FOR A CLUSTER

StartSteps == {"probe", "branch", "judge", "clear", "initdb", "initdb2", "initdb3",
               "initdbFailed", "prepare", "pgstart", "pidfile", "reprobe"}

\* What the step of an invocation says of its purpose and of its copy.
PhaseInv ==
    \A p \in Procs :
        /\ pc[p] = "off" => op[p] = "none"
        /\ pc[p] \in StartSteps => op[p] \in StartOps
        /\ op[p] = "release" => pc[p] \in {"lock", "break"} \cup Critical
        /\ pc[p] \in {"pgstop", "rmsock"} => op[p] \notin StartOps
        /\ pc[p] = "save" /\ op[p] = "acquire" => snap[p][dir[p]].known
        /\ pc[p] = "save" /\ op[p] = "start" => snap[p][dir[p]].explicit

\* The cluster is up, and no failure has excused that.
Up(d) == Probe(d) = "running" /\ ~unclean[d]

\* An invocation that will register the cluster or fail, a registered run whose
\* release is still to come, and a release that is about to stop it.
Starter(p, d) ==
    dir[p] = d /\ op[p] \in StartOps /\ pc[p] \notin {"unlock", "running", "off"}
Runner(p, d) ==
    /\ dir[p] = d
    /\ \/ op[p] = "acquire" /\ pc[p] \in {"unlock", "running"}
       \/ op[p] = "release" /\ pc[p] \in {"lock", "break", "load"}
Stopper(p, d) == dir[p] = d /\ op[p] = "release" /\ pc[p] = "pgstop"

Answered(reg, d) ==
    Up(d) => \/ reg[d].explicit
             \/ \E p \in Procs :
                   Starter(p, d) \/ (reg[d].known /\ Runner(p, d)) \/ Stopper(p, d)

\* Someone answers for every cluster that is up, by the registry and by the
\* copy that will replace it.
AnsweredInv ==
    /\ \A d \in Projects : Answered(registry, d)
    /\ \A q \in Procs, d \in Projects : Holding(q) => Answered(snap[q], d)

QuietInv == Inv /\ PhaseInv /\ AnsweredInv

\* A step of p that leaves the other invocations alone.
LEMMA PhaseKept ==
  ASSUME PhaseInv, NEW p \in Procs,
         \A q \in Procs : q # p =>
             pc'[q] = pc[q] /\ op'[q] = op[q] /\ dir'[q] = dir[q] /\ snap'[q] = snap[q],
         pc'[p] = "off" => op'[p] = "none",
         pc'[p] \in StartSteps => op'[p] \in StartOps,
         op'[p] = "release" => pc'[p] \in {"lock", "break"} \cup Critical,
         pc'[p] \in {"pgstop", "rmsock"} => op'[p] \notin StartOps,
         pc'[p] = "save" /\ op'[p] = "acquire" => snap'[p][dir'[p]].known,
         pc'[p] = "save" /\ op'[p] = "start" => snap'[p][dir'[p]].explicit
  PROVE  PhaseInv'
  <1> SUFFICES ASSUME NEW q \in Procs
               PROVE  /\ pc'[q] = "off" => op'[q] = "none"
                      /\ pc'[q] \in StartSteps => op'[q] \in StartOps
                      /\ op'[q] = "release" => pc'[q] \in {"lock", "break"} \cup Critical
                      /\ pc'[q] \in {"pgstop", "rmsock"} => op'[q] \notin StartOps
                      /\ pc'[q] = "save" /\ op'[q] = "acquire" => snap'[q][dir'[q]].known
                      /\ pc'[q] = "save" /\ op'[q] = "start" => snap'[q][dir'[q]].explicit
    BY DEF PhaseInv
  <1>1. CASE q = p
    BY <1>1
  <1>2. CASE q # p
    BY <1>2 DEF PhaseInv
  <1> QED BY <1>1, <1>2

\* Leaving: p is off, and nobody else moves.
LEMMA LeavePhase ==
  ASSUME Inv, PhaseInv, NEW p \in Procs, Leave(p)
  PROVE  /\ PhaseInv' /\ pc'[p] = "off" /\ dir' = dir
         /\ \A q \in Procs : q # p =>
               pc'[q] = pc[q] /\ op'[q] = op[q] /\ dir'[q] = dir[q] /\ snap'[q] = snap[q]
  <1>1. /\ pc'[p] = "off" /\ op'[p] = "none" /\ dir' = dir
        /\ \A q \in Procs : q # p =>
              pc'[q] = pc[q] /\ op'[q] = op[q] /\ dir'[q] = dir[q] /\ snap'[q] = snap[q]
    BY DEF Leave, Goto, Inv, TypeOK
  <1>2. PhaseInv'
    BY <1>1, PhaseKept DEF StartSteps
  <1> QED BY <1>1, <1>2

\* A step that changes no more than its place.
LEMMA GotoPhase ==
  ASSUME Inv, PhaseInv, NEW p \in Procs, NEW s, Goto(p, s),
         op' = op, dir' = dir, snap' = snap,
         s \notin {"off", "save", "pgstop", "rmsock"}, s \in StartSteps => op[p] \in StartOps,
         op[p] = "release" => s \in {"lock", "break"} \cup Critical
  PROVE  PhaseInv'
  <1>1. pc'[p] = s /\ \A q \in Procs : q # p => pc'[q] = pc[q]
    BY DEF Goto, Inv, TypeOK
  <1> QED BY <1>1, PhaseKept

\* The registry stays, nobody who answers for a cluster that is up leaves, and
\* who brings one up answers for it.
LEMMA AnsweredKept ==
  ASSUME AnsweredInv, registry' = registry,
         \A d \in Projects : Up(d)' => Up(d) \/ \E p \in Procs : Starter(p, d)',
         \A d \in Projects, q \in Procs : Up(d)' =>
             /\ Starter(q, d) => Starter(q, d)'
             /\ Runner(q, d) => Runner(q, d)'
             /\ Stopper(q, d) => Stopper(q, d)'
             /\ Holding(q)' => Holding(q) /\ snap'[q][d] = snap[q][d]
  PROVE  AnsweredInv'
  <1>1. \A d \in Projects : Answered(registry, d)'
    BY DEF AnsweredInv, Answered
  <1>2. ASSUME NEW q \in Procs, NEW d \in Projects, Holding(q)'
        PROVE  Answered(snap[q], d)'
    <2> SUFFICES ASSUME Up(d)'
                 PROVE  \/ snap'[q][d].explicit
                        \/ \E p \in Procs : \/ Starter(p, d)'
                                            \/ snap'[q][d].known /\ Runner(p, d)'
                                            \/ Stopper(p, d)'
      BY DEF Answered
    <2>1. Holding(q) /\ snap'[q][d] = snap[q][d]
      BY <1>2
    <2>2. CASE Up(d)
      <3>1. Answered(snap[q], d)
        BY <2>1 DEF AnsweredInv
      <3> QED BY <3>1, <2>1, <2>2 DEF Answered
    <2> QED BY <2>2
  <1> QED BY <1>1, <1>2 DEF AnsweredInv

\* The same for a step of p with the others left alone.
LEMMA AnsweredAlone ==
  ASSUME Inv, AnsweredInv, NEW p \in Procs, registry' = registry, dir'[p] = dir[p],
         \A q \in Procs : q # p =>
             pc'[q] = pc[q] /\ op'[q] = op[q] /\ dir'[q] = dir[q] /\ snap'[q] = snap[q],
         \A d \in Projects : Up(d)' => Up(d) \/ Starter(p, d)',
         Up(dir[p])' =>
             /\ Starter(p, dir[p]) => Starter(p, dir[p])'
             /\ Runner(p, dir[p]) => Runner(p, dir[p])'
             /\ Stopper(p, dir[p]) => Stopper(p, dir[p])',
         Holding(p)' => Holding(p) /\ \A d \in Projects : Up(d)' => snap'[p][d] = snap[p][d]
  PROVE  AnsweredInv'
  <1>1. \A q \in Procs, d \in Projects : Up(d)' =>
             /\ Starter(q, d) => Starter(q, d)'
             /\ Runner(q, d) => Runner(q, d)'
             /\ Stopper(q, d) => Stopper(q, d)'
    <2> SUFFICES ASSUME NEW q \in Procs, NEW d \in Projects, Up(d)'
                 PROVE  /\ Starter(q, d) => Starter(q, d)'
                        /\ Runner(q, d) => Runner(q, d)'
                        /\ Stopper(q, d) => Stopper(q, d)'
      OBVIOUS
    <2>1. CASE q # p
      BY <2>1 DEF Starter, Runner, Stopper
    <2>2. CASE q = p /\ d = dir[p]
      BY <2>2
    <2>3. CASE q = p /\ d # dir[p]
      BY <2>3 DEF Starter, Runner, Stopper
    <2> QED BY <2>1, <2>2, <2>3
  <1>2. \A q \in Procs, d \in Projects : Up(d)' /\ Holding(q)' =>
             Holding(q) /\ snap'[q][d] = snap[q][d]
    <2>1. \A q \in Procs : q # p => (Holding(q)' <=> Holding(q))
      BY DEF Holding
    <2> QED BY <2>1
  <1> QED BY <1>1, <1>2, AnsweredKept

\* A probe depends on the files of its project alone.
LEMMA ProbeKept ==
  ASSUME NEW d, pg'[d] = pg[d], data'[d] = data[d]
  PROVE  Probe(d)' = Probe(d)
  BY DEF Probe

\* An invocation that is killed or fails is noted, and nobody waits for it.
LEMMA GoneQuiet ==
  ASSUME QuietInv, NEW p \in Procs, Leave(p), unclean' = Blemished(p), registry' = registry,
         \A d \in Projects : Probe(d)' = "running" => Probe(d) = "running"
  PROVE  PhaseInv' /\ AnsweredInv'
  <1>1. /\ PhaseInv' /\ pc'[p] = "off" /\ dir' = dir
        /\ \A q \in Procs : q # p =>
              pc'[q] = pc[q] /\ op'[q] = op[q] /\ dir'[q] = dir[q] /\ snap'[q] = snap[q]
    BY LeavePhase DEF QuietInv
  <1>2. dir[p] \in Projects /\ unclean \in [Projects -> BOOLEAN]
    BY DEF QuietInv, Inv, TypeOK
  <1>3. \A d \in Projects : Up(d)' => Up(d)
    <2>1. \A d \in Projects : unclean[d] => unclean'[d]
      BY <1>2 DEF Blemished
    <2> QED BY <2>1 DEF Up
  <1>4. CASE op[p] \in StartOps \cup RunOps
    <2>1. unclean'[dir[p]]
      BY <1>2, <1>4 DEF Blemished
    <2>2. ~Up(dir[p])'
      BY <1>1, <2>1 DEF Up
    <2>3. ~Holding(p)'
      BY <1>1 DEF Holding
    <2> QED BY <1>1, <1>3, <2>2, <2>3, AnsweredAlone DEF QuietInv
  <1>5. CASE op[p] \notin StartOps \cup RunOps
    <2>1. ~Starter(p, dir[p]) /\ ~Runner(p, dir[p]) /\ ~Stopper(p, dir[p])
      BY <1>5 DEF Starter, Runner, Stopper
    <2>2. ~Holding(p)'
      BY <1>1 DEF Holding
    <2> QED BY <1>1, <1>3, <2>1, <2>2, AnsweredAlone DEF QuietInv
  <1> QED BY <1>1, <1>4, <1>5

\* A step of start_cluster that goes on: p still answers for its cluster.
LEMMA StartingQuiet ==
  ASSUME QuietInv, NEW p \in Procs, pc[p] \in StartSteps, NEW s \in StartSteps \cup {"lock"},
         Goto(p, s), registry' = registry, op' = op, dir' = dir, snap' = snap,
         unclean' = unclean,
         \A d \in Projects : Probe(d)' = "running" => Probe(d) = "running" \/ d = dir[p]
  PROVE  PhaseInv' /\ AnsweredInv'
  <1>1. op[p] \in StartOps
    BY DEF QuietInv, PhaseInv
  <1>2. PhaseInv'
    BY <1>1, GotoPhase DEF QuietInv, StartSteps
  <1>3. pc'[p] = s /\ \A q \in Procs : q # p => pc'[q] = pc[q]
    BY DEF Goto, QuietInv, Inv, TypeOK
  <1>4. Starter(p, dir[p])' /\ ~Runner(p, dir[p]) /\ ~Stopper(p, dir[p]) /\ ~Holding(p)'
    BY <1>1, <1>3 DEF Starter, Runner, Stopper, Holding, StartSteps
  <1>5. \A d \in Projects : Up(d)' => Up(d) \/ Starter(p, d)'
    <2>1. \A d \in Projects : d = dir[p] => Starter(p, d)'
      BY <1>4
    <2> QED BY <2>1 DEF Up
  <1> QED BY <1>2, <1>3, <1>4, <1>5, AnsweredAlone DEF QuietInv

LEMMA StartQuiet ==
  ASSUME QuietInv, NEW p \in Procs, Start(p)
  PROVE  PhaseInv' /\ AnsweredInv'
  <1> USE DEF history, disk
  <1>0. /\ dir[p] \in Projects /\ pg \in [Projects -> Postmaster]
        /\ data \in [Projects -> DataDir]
    BY DEF QuietInv, Inv, TypeOK
  <1>1. ASSUME NEW s \in StartSteps, NEW t \in StartSteps \cup {"lock"}, Starting(p, s),
               Goto(p, t),
               \A d \in Projects : d # dir[p] => pg'[d] = pg[d] /\ data'[d] = data[d]
        PROVE  PhaseInv' /\ AnsweredInv'
    <2>1. \A d \in Projects : Probe(d)' = "running" => Probe(d) = "running" \/ d = dir[p]
      BY <1>1, ProbeKept
    <2> QED BY <1>1, <2>1, StartingQuiet DEF Starting
  <1>2. ASSUME NEW s \in StartSteps, NEW t \in StartSteps, pc[p] = s, Goto(p, t),
               UNCHANGED <<registry, lock, disk, op, dir, snap, todo, history>>
        PROVE  PhaseInv' /\ AnsweredInv'
    <2>1. \A d \in Projects : Probe(d)' = Probe(d)
      BY <1>2, ProbeKept
    <2> QED BY <1>2, <2>1, StartingQuiet
  <1>3. ASSUME Fail(p), \A d \in Projects : Probe(d)' = "running" => Probe(d) = "running"
        PROVE  PhaseInv' /\ AnsweredInv'
    BY <1>3, GoneQuiet DEF Fail
  <1>4. ASSUME Fail(p), UNCHANGED <<disk, cut>>
        PROVE  PhaseInv' /\ AnsweredInv'
    <2>1. \A d \in Projects : Probe(d)' = Probe(d)
      BY <1>4, ProbeKept
    <2> QED BY <1>3, <1>4, <2>1
  <1>5. CASE ProbeDataDir(p) \/ Initialised(p) \/ Uninitialised(p) \/ JudgePidfile(p)
             \/ ReadPostmasterPid(p) \/ PgCtlStartRefused(p) \/ Adopt(p)
    BY <1>1, <1>5
    DEF ProbeDataDir, Initialised, Uninitialised, JudgePidfile, ReadPostmasterPid,
        PgCtlStartRefused, Adopt, StartSteps
  <1>6. CASE BranchFails(p) \/ HolderAlive(p) \/ ClearFails(p) \/ PrepareFails(p)
             \/ StartFails(p)
    BY <1>4, <1>6 DEF BranchFails, HolderAlive, ClearFails, PrepareFails, StartFails
  <1>7. CASE InitdbBreaks(p) \/ PgCtlStartBreaks(p)
    BY <1>2, <1>7 DEF InitdbBreaks, PgCtlStartBreaks, StartSteps
  <1>8. CASE ClearStalePidfile(p) \/ Prepare(p) \/ RunPgCtlStart(p)
    BY <1>0, <1>1, <1>8 DEF ClearStalePidfile, Prepare, RunPgCtlStart, StartSteps
  <1>9. CASE RunInitdb(p)
    <2>1. ASSUME NEW s \in StartSteps, NEW from, NEW to, NEW next \in StartSteps,
                 InitdbStep(p, s, from, to, next)
          PROVE  PhaseInv' /\ AnsweredInv'
      <3>1. \A d \in Projects : d # dir[p] => pg'[d] = pg[d] /\ data'[d] = data[d]
        BY <1>0, <2>1 DEF InitdbStep
      <3>2. Goto(p, next) \/ Goto(p, "initdbFailed")
        BY <2>1 DEF InitdbStep
      <3> QED BY <1>1, <2>1, <3>1, <3>2 DEF InitdbStep, StartSteps
    <2> QED BY <1>9, <2>1 DEF RunInitdb, StartSteps
  <1>10. CASE RemoveDataDir(p)
    <2>1. \A d \in Projects : d # dir[p] => Probe(d)' = Probe(d)
      BY <1>0, <1>10, ProbeKept DEF RemoveDataDir
    <2>2. data'[dir[p]] = "absent"
      BY <1>0, <1>10 DEF RemoveDataDir
    <2>3. \A d \in Projects : Probe(d)' = "running" => Probe(d) = "running"
      BY <2>1, <2>2 DEF Probe
    <2> QED BY <1>3, <1>10, <2>3 DEF RemoveDataDir
  <1> QED BY <1>5, <1>6, <1>7, <1>8, <1>9, <1>10 DEF Start

\* The steps around the lock.
LEMMA LockingQuiet ==
  ASSUME QuietInv, NEW p \in Procs, Locking(p)
  PROVE  PhaseInv' /\ AnsweredInv'
  <1> USE DEF history, disk
  <1>0. \A d \in Projects : Probe(d)' = Probe(d)
    <2>1. pg' = pg /\ data' = data
      BY DEF Locking, AcquireRegistryLock, SeeStaleLock, BreakLock, LockTimeout, Unlock,
             SaveFails
    <2> QED BY <2>1, ProbeKept
  <1>1. CASE AcquireRegistryLock(p) \/ SeeStaleLock(p) \/ BreakLock(p)
    <2>1. PICK s \in {"load", "break", "lock"} : Goto(p, s)
      BY <1>1 DEF AcquireRegistryLock, SeeStaleLock, BreakLock
    <2>2. /\ pc[p] \in {"lock", "break"} /\ registry' = registry /\ op' = op /\ dir' = dir
          /\ snap' = snap /\ unclean' = unclean
      BY <1>1 DEF AcquireRegistryLock, SeeStaleLock, BreakLock
    <2>3. PhaseInv'
      BY <2>1, <2>2, GotoPhase DEF QuietInv, StartSteps, Critical
    <2>4. pc'[p] = s /\ \A q \in Procs : q # p => pc'[q] = pc[q]
      BY <2>1 DEF Goto, QuietInv, Inv, TypeOK
    <2>5. /\ Starter(p, dir[p]) => Starter(p, dir[p])'
          /\ Runner(p, dir[p]) => Runner(p, dir[p])'
          /\ ~Stopper(p, dir[p]) /\ ~Holding(p)'
      BY <2>2, <2>4 DEF Starter, Runner, Stopper, Holding
    <2>6. \A d \in Projects : Up(d)' => Up(d)
      BY <1>0, <2>2 DEF Up
    <2> QED BY <2>2, <2>3, <2>4, <2>5, <2>6, AnsweredAlone DEF QuietInv
  <1>2. CASE LockTimeout(p) \/ SaveFails(p)
    BY <1>0, <1>2, GoneQuiet DEF LockTimeout, SaveFails, Fail
  <1>3. CASE Unlock(p) /\ op[p] = "acquire"
    <2>1. /\ pc'[p] = "running" /\ pc[p] = "unlock" /\ op' = op /\ dir' = dir
          /\ registry' = registry /\ unclean' = unclean
          /\ \A q \in Procs : q # p => pc'[q] = pc[q] /\ snap'[q] = snap[q]
      BY <1>3 DEF Unlock, Goto, QuietInv, Inv, TypeOK
    <2>2. PhaseInv'
      BY <1>3, <2>1, PhaseKept DEF QuietInv, StartSteps
    <2>3. Runner(p, dir[p])' /\ ~Starter(p, dir[p]) /\ ~Stopper(p, dir[p]) /\ ~Holding(p)'
      BY <1>3, <2>1 DEF Starter, Runner, Stopper, Holding
    <2>4. \A d \in Projects : Up(d)' => Up(d)
      BY <1>0, <2>1 DEF Up
    <2> QED BY <2>1, <2>2, <2>3, <2>4, AnsweredAlone DEF QuietInv
  <1>4. CASE Unlock(p) /\ op[p] # "acquire"
    <2>1. Leave(p) /\ pc[p] = "unlock" /\ registry' = registry /\ unclean' = unclean
      BY <1>4 DEF Unlock
    <2>2. /\ PhaseInv' /\ pc'[p] = "off" /\ dir' = dir
          /\ \A q \in Procs : q # p =>
                pc'[q] = pc[q] /\ op'[q] = op[q] /\ dir'[q] = dir[q] /\ snap'[q] = snap[q]
      BY <2>1, LeavePhase DEF QuietInv
    <2>3. ~Runner(p, dir[p]) /\ ~Starter(p, dir[p]) /\ ~Stopper(p, dir[p]) /\ ~Holding(p)'
      BY <1>4, <2>1, <2>2 DEF Starter, Runner, Stopper, Holding
    <2>4. \A d \in Projects : Up(d)' => Up(d)
      BY <1>0, <2>1 DEF Up
    <2> QED BY <2>1, <2>2, <2>3, <2>4, AnsweredAlone DEF QuietInv
  <1> QED BY <1>1, <1>2, <1>3, <1>4 DEF Locking

\* The only process between load and save, after a load.
LEMMA LoadAnswered ==
  ASSUME QuietInv, NEW p \in Procs, pc[p] = "load", registry' = registry,
         \A q \in Procs : q # p =>
             pc'[q] = pc[q] /\ op'[q] = op[q] /\ dir'[q] = dir[q] /\ snap'[q] = snap[q],
         \A d \in Projects : Answered(registry, d)',
         \A d \in Projects : Holding(p)' => Answered(snap[p], d)'
  PROVE  AnsweredInv'
  <1>1. \A q \in Procs : q # p => ~Holding(q)'
    BY DEF QuietInv, Inv, MutexInv, Critical, Holding
  <1>2. ASSUME NEW q \in Procs, NEW d \in Projects, Holding(q)'
        PROVE  Answered(snap[q], d)'
    BY <1>1, <1>2
  <1> QED BY <1>2 DEF AnsweredInv

\* Registry::load with the reap, for a command that is no release.
LEMMA LoadQuiet ==
  ASSUME QuietInv, NEW p \in Procs, LoadUpsert(p) \/ LoadPs(p) \/ LoadStop(p)
  PROVE  PhaseInv' /\ AnsweredInv'
  <1> USE DEF history, disk
  <1>0. /\ pc[p] = "load" /\ op[p] # "release" /\ op' = op /\ dir' = dir
        /\ registry' = registry /\ unclean' = unclean /\ pg' = pg /\ data' = data
    BY DEF LoadUpsert, LoadPs, LoadStop, Loading
  <1>1. dir[p] \in Projects /\ registry \in [Projects -> Entry]
        /\ Reap(registry) \in [Projects -> Entry]
    BY ReapType DEF QuietInv, Inv, TypeOK
  <1>2. /\ \A q \in Procs : q # p => pc'[q] = pc[q] /\ snap'[q] = snap[q]
        /\ pc'[p] \in {"save", "pgstop"}
        /\ pc'[p] = "pgstop" => op[p] \notin StartOps
    BY DEF LoadUpsert, LoadPs, LoadStop, Loading, Loaded, Goto, QuietInv, Inv, TypeOK
  <1>3. \A d \in Projects : Probe(d) = "running" => Reap(registry)[d] = registry[d]
    BY DEF Reap
  <1>4. /\ \A d \in Projects : Probe(d) = "running" =>
              snap'[p][d] = registry[d] \/ (d = dir[p] /\ op[p] \in StartOps /\ pc'[p] = "save")
        /\ op[p] = "acquire" => snap'[p][dir[p]].known
        /\ op[p] = "start" => snap'[p][dir[p]].explicit
    <2>1. CASE LoadUpsert(p)
      <3> DEFINE reg == Reap(registry)
                 new == [reg EXCEPT ![dir[p]] = Upserted(p, @)]
      <3>1. snap'[p] = new /\ op[p] \in StartOps /\ pc'[p] = "save"
        BY <2>1 DEF LoadUpsert, Loading, Loaded, Goto, QuietInv, Inv, TypeOK
      <3>2. /\ \A d \in Projects : d # dir[p] => new[d] = reg[d]
            /\ new[dir[p]] = Upserted(p, reg[dir[p]])
        BY <1>1
      <3>3. /\ Upserted(p, reg[dir[p]]).known
            /\ op[p] = "start" => Upserted(p, reg[dir[p]]).explicit
        BY DEF Upserted
      <3> HIDE DEF new, reg
      <3>4. \A d \in Projects : Probe(d) = "running" => reg[d] = registry[d]
        BY <1>3 DEF reg
      <3> QED BY <3>1, <3>2, <3>3, <3>4
    <2>2. CASE LoadPs(p) \/ LoadStop(p)
      <3>1. snap'[p] = Reap(registry) /\ op[p] \notin StartOps
        BY <2>2 DEF LoadPs, LoadStop, Loading, Loaded, QuietInv, Inv, TypeOK
      <3> QED BY <1>3, <3>1
    <2> QED BY <2>1, <2>2
  <1>5. PhaseInv'
    BY <1>0, <1>2, <1>4, PhaseKept DEF QuietInv, StartSteps
  <1>6. \A d \in Projects : Up(d)' <=> Up(d)
    BY <1>0, ProbeKept DEF Up
  <1>7. \A q \in Procs, d \in Projects :
           /\ Starter(q, d) => Starter(q, d)'
           /\ Runner(q, d) => Runner(q, d)'
           /\ Stopper(q, d) => Stopper(q, d)'
    BY <1>0, <1>2 DEF Starter, Runner, Stopper
  <1>8. \A d \in Projects : Answered(registry, d)'
    BY <1>0, <1>6, <1>7 DEF QuietInv, AnsweredInv, Answered
  <1>9. ASSUME NEW d \in Projects
        PROVE  Answered(snap[p], d)'
    <2> SUFFICES ASSUME Up(d)'
                 PROVE  \/ snap'[p][d].explicit
                        \/ \E q \in Procs : \/ Starter(q, d)'
                                            \/ snap'[p][d].known /\ Runner(q, d)'
                                            \/ Stopper(q, d)'
      BY DEF Answered
    <2>1. Up(d) /\ Probe(d) = "running"
      BY <1>6 DEF Up
    <2>2. CASE snap'[p][d] = registry[d]
      BY <1>7, <2>1, <2>2 DEF QuietInv, AnsweredInv, Answered
    <2>3. CASE d = dir[p] /\ op[p] \in StartOps /\ pc'[p] = "save"
      <3>1. Starter(p, d)'
        BY <1>0, <2>3 DEF Starter
      <3> QED BY <3>1
    <2> QED BY <1>4, <2>1, <2>2, <2>3
  <1> QED BY <1>0, <1>2, <1>5, <1>8, <1>9, LoadAnswered

\* release_run_ref: it stops the cluster, or leaves it to who still needs it.
LEMMA ReleaseQuiet ==
  ASSUME QuietInv, NEW p \in Procs, LoadRelease(p)
  PROVE  PhaseInv' /\ AnsweredInv'
  <1> USE DEF history, disk
  <1> DEFINE mine == Released(p, registry[dir[p]])
  <1>0. /\ pc[p] = "load" /\ op[p] = "release" /\ op' = op /\ dir' = dir
        /\ registry' = registry /\ pg' = pg /\ data' = data
        /\ registry[dir[p]].known
    BY DEF LoadRelease, Loading
  <1>1. /\ dir[p] \in Projects /\ registry \in [Projects -> Entry]
        /\ unclean \in [Projects -> BOOLEAN]
    BY DEF QuietInv, Inv, TypeOK
  <1>2. /\ \A q \in Procs : q # p => pc'[q] = pc[q] /\ snap'[q] = snap[q]
        /\ pc'[p] = IF MustStop(p) THEN "pgstop" ELSE "save"
        /\ snap'[p] = [registry EXCEPT ![dir[p]] = mine]
    BY DEF LoadRelease, Loading, Loaded, Goto, QuietInv, Inv, TypeOK
  <1>3. /\ \A d \in Projects : d # dir[p] => snap'[p][d] = registry[d]
        /\ snap'[p][dir[p]] = mine
    BY <1>1, <1>2
  <1>4. /\ mine.refs = Pruned(registry[dir[p]].refs) \ {p}
        /\ mine.explicit = registry[dir[p]].explicit
        /\ mine.known
        /\ mine.refs \subseteq Procs
    <2>1. registry[dir[p]] \in Entry
      BY <1>1
    <2>2. mine \in Entry
      BY <2>1, ReleasedType
    <2> QED BY <1>0, <2>1, <2>2, ReleasedType DEF Entry
  <1>5. PhaseInv'
    BY <1>0, <1>2, PhaseKept DEF QuietInv, StartSteps, Critical
  <1>6. \A d \in Projects : d # dir[p] => (Up(d)' <=> Up(d))
    <2>1. \A d \in Projects : d # dir[p] => unclean'[d] = unclean[d]
      BY <1>1 DEF LoadRelease
    <2> QED BY <1>0, <2>1, ProbeKept DEF Up
  <1>7. Up(dir[p])' => Probe(dir[p]) = "running" /\ ~Misled(p)
    <2>1. unclean'[dir[p]] = Misled(p)
      BY <1>1 DEF LoadRelease
    <2>2. Probe(dir[p])' = Probe(dir[p])
      BY <1>0, ProbeKept
    <2> QED BY <1>0, <2>1, <2>2 DEF Up
  <1>8. ASSUME NEW d \in Projects, NEW q \in Procs, d # dir[p]
        PROVE  /\ Starter(q, d) => Starter(q, d)'
               /\ Runner(q, d) => Runner(q, d)'
               /\ Stopper(q, d) => Stopper(q, d)'
    BY <1>0, <1>2, <1>8 DEF Starter, Runner, Stopper
  <1>9. ASSUME Up(dir[p])'
        PROVE  \/ Stopper(p, dir[p])'
               \/ mine.explicit
               \/ \E q \in Procs : Starter(q, dir[p])' \/ Runner(q, dir[p])'
    <2>1. CASE MustStop(p)
      BY <1>0, <1>2, <2>1 DEF Stopper
    <2>2. CASE ~MustStop(p) /\ ~mine.explicit
      <3>1. mine.refs # {}
        BY <1>0, <1>7, <1>9, <2>2 DEF MustStop, Keep
      <3>2. PICK q \in mine.refs : TRUE
        BY <3>1
      <3>3. q \in Procs /\ q # p /\ op[q] \in RunOps /\ dir[q] = dir[p]
        BY <1>4, <1>7, <1>9, <3>2 DEF Misled, Pruned
      <3>4. pc[q] # "off" /\ pc[q] \notin Critical
        BY <1>0, <3>3 DEF QuietInv, PhaseInv, Inv, MutexInv, Critical
      <3>5. op[q] = "release" => pc[q] \in {"lock", "break"}
        BY <3>3, <3>4 DEF QuietInv, PhaseInv
      <3>6. Starter(q, dir[p])' \/ Runner(q, dir[p])'
        BY <1>0, <1>2, <3>3, <3>4, <3>5 DEF Starter, Runner
      <3> QED BY <3>3, <3>6
    <2> QED BY <2>1, <2>2
  <1> HIDE DEF mine
  <1>10. ASSUME NEW d \in Projects
         PROVE  Answered(registry, d)' /\ Answered(snap[p], d)'
    <2>1. CASE d # dir[p]
      <3>1. Answered(registry, d)
        BY DEF QuietInv, AnsweredInv
      <3>2. Up(d)' => \/ registry[d].explicit
                      \/ \E q \in Procs : \/ Starter(q, d)'
                                          \/ registry[d].known /\ Runner(q, d)'
                                          \/ Stopper(q, d)'
        BY <1>6, <1>8, <2>1, <3>1 DEF Answered
      <3> QED BY <1>0, <1>3, <2>1, <3>2 DEF Answered
    <2>2. CASE d = dir[p]
      <3>1. Up(d)' => \/ mine.explicit
                      \/ \E q \in Procs : Starter(q, d)' \/ Runner(q, d)' \/ Stopper(q, d)'
        BY <1>0, <1>9, <2>2
      <3> QED BY <1>0, <1>3, <1>4, <2>2, <3>1 DEF Answered
    <2> QED BY <2>1, <2>2
  <1> QED BY <1>0, <1>2, <1>5, <1>10, LoadAnswered

\* A release whose cluster is not registered, and a command without tools.
LEMMA NothingToDoQuiet ==
  ASSUME QuietInv, NEW p \in Procs, ReleaseUnknown(p) \/ NoBins(p)
  PROVE  PhaseInv' /\ AnsweredInv'
  <1> USE DEF history, disk
  <1>0. /\ pc[p] = "load" /\ op' = op /\ dir' = dir /\ snap' = snap
        /\ registry' = registry /\ pg' = pg /\ data' = data /\ Goto(p, "unlock")
    BY DEF ReleaseUnknown, NoBins, Loading
  <1>1. /\ dir[p] \in Projects /\ unclean \in [Projects -> BOOLEAN]
        /\ pc'[p] = "unlock" /\ \A q \in Procs : q # p => pc'[q] = pc[q]
    BY <1>0 DEF QuietInv, Inv, TypeOK, Goto
  <1>2. PhaseInv'
    BY <1>0, GotoPhase DEF QuietInv, StartSteps, Critical
  <1>3. ~Holding(p)'
    BY <1>1 DEF Holding
  <1>4. CASE ReleaseUnknown(p)
    <2>1. op[p] = "release" /\ ~registry[dir[p]].known /\ unclean' = unclean
      BY <1>4 DEF ReleaseUnknown, Loading
    <2>2. \A d \in Projects : Up(d)' <=> Up(d)
      BY <1>0, <2>1, ProbeKept DEF Up
    <2>3. \A d \in Projects : ~Starter(p, d) /\ ~Stopper(p, d) /\ ~(registry[d].known /\ Runner(p, d))
      BY <1>0, <2>1 DEF Starter, Runner, Stopper
    <2>4. \A q \in Procs, d \in Projects : q # p =>
             /\ Starter(q, d) => Starter(q, d)'
             /\ Runner(q, d) => Runner(q, d)'
             /\ Stopper(q, d) => Stopper(q, d)'
      BY <1>0, <1>1 DEF Starter, Runner, Stopper
    <2>5. ASSUME NEW d \in Projects
          PROVE  Answered(registry, d)'
      <3>1. Answered(registry, d)
        BY DEF QuietInv, AnsweredInv
      <3> QED BY <1>0, <2>2, <2>3, <2>4, <3>1 DEF Answered
    <2> QED BY <1>0, <1>1, <1>2, <1>3, <2>5, LoadAnswered
  <1>5. CASE NoBins(p)
    <2>1. unclean' = Blemished(p) /\ op[p] \in {"release"} \cup StopOps
      BY <1>5 DEF NoBins
    <2>2. \A d \in Projects : Up(d)' => Up(d)
      <3>1. \A d \in Projects : unclean[d] => unclean'[d]
        BY <1>1, <2>1 DEF Blemished
      <3> QED BY <1>0, <3>1, ProbeKept DEF Up
    <2>3. CASE op[p] = "release"
      <3>1. unclean'[dir[p]]
        BY <1>1, <2>1, <2>3 DEF Blemished
      <3>2. ~Up(dir[p])'
        BY <1>0, <3>1 DEF Up
      <3> QED BY <1>0, <1>1, <1>2, <1>3, <2>2, <3>2, AnsweredAlone DEF QuietInv
    <2>4. CASE op[p] \in StopOps
      <3>1. ~Starter(p, dir[p]) /\ ~Runner(p, dir[p]) /\ ~Stopper(p, dir[p])
        BY <2>4 DEF Starter, Runner, Stopper
      <3> QED BY <1>0, <1>1, <1>2, <1>3, <2>2, <3>1, AnsweredAlone DEF QuietInv
    <2> QED BY <2>1, <2>3, <2>4
  <1> QED BY <1>4, <1>5

\* pg_ctl stop, with the bookkeeping after each target.
LEMMA StoppingQuiet ==
  ASSUME QuietInv, NEW p \in Procs, PgCtlStop(p) \/ RemoveSocketDir(p) \/ PgCtlStopFails(p)
  PROVE  PhaseInv' /\ AnsweredInv'
  <1> USE DEF history, disk
  <1>0. /\ pc[p] \in {"pgstop", "rmsock"} /\ op' = op /\ dir' = dir
        /\ registry' = registry
    BY DEF PgCtlStop, RemoveSocketDir, PgCtlStopFails
  <1>1. op[p] \notin StartOps
    BY <1>0 DEF QuietInv, PhaseInv
  <1>2. pc'[p] \in {"pgstop", "rmsock", "save"} /\ \A q \in Procs : q # p => pc'[q] = pc[q]
    BY DEF PgCtlStop, RemoveSocketDir, PgCtlStopFails, NextTarget, Goto, QuietInv, Inv, TypeOK
  <1>3. \A q \in Procs : q # p => snap'[q] = snap[q]
    BY DEF PgCtlStop, RemoveSocketDir, PgCtlStopFails, QuietInv, Inv, TypeOK
  <1>4. PhaseInv'
    BY <1>0, <1>1, <1>2, <1>3, PhaseKept DEF QuietInv, StartSteps, Critical
  <1>5. Holding(p) /\ ~Starter(p, dir[p]) /\ ~Runner(p, dir[p])
    BY <1>0, <1>1 DEF Holding, Starter, Runner
  <1>6. CASE RemoveSocketDir(p)
    <2>1. pc[p] = "rmsock" /\ snap' = snap /\ unclean' = unclean /\ pg' = pg /\ data' = data
      BY <1>6 DEF RemoveSocketDir
    <2>2. ~Stopper(p, dir[p])
      BY <2>1 DEF Stopper
    <2>3. \A d \in Projects : Up(d)' => Up(d)
      BY <2>1, ProbeKept DEF Up
    <2> QED BY <1>0, <1>2, <1>4, <1>5, <2>1, <2>2, <2>3, AnsweredAlone DEF QuietInv
  <1>7. CASE PgCtlStopFails(p)
    <2>1. snap' = snap /\ unclean' = Blemished(p) /\ pg' = pg /\ data' = data
      BY <1>7 DEF PgCtlStopFails
    <2>2. dir[p] \in Projects /\ unclean \in [Projects -> BOOLEAN]
      BY DEF QuietInv, Inv, TypeOK
    <2>3. \A d \in Projects : Up(d)' => Up(d)
      <3>1. \A d \in Projects : unclean[d] => unclean'[d]
        BY <2>1, <2>2 DEF Blemished
      <3> QED BY <2>1, <3>1, ProbeKept DEF Up
    <2>4. Stopper(p, dir[p]) => ~Up(dir[p])'
      <3>1. ASSUME op[p] = "release"
            PROVE  unclean'[dir[p]]
        BY <2>1, <2>2, <3>1 DEF Blemished
      <3> QED BY <1>0, <3>1 DEF Stopper, Up
    <2> QED BY <1>0, <1>2, <1>4, <1>5, <2>1, <2>3, <2>4, AnsweredAlone DEF QuietInv
  <1>8. CASE PgCtlStop(p)
    <2>1. /\ pc[p] = "pgstop" /\ unclean' = unclean /\ data' = data
          /\ pg' = [pg EXCEPT ![Target(p)] = "stopped"]
      BY <1>8 DEF PgCtlStop
    <2>2. pg \in [Projects -> Postmaster] /\ snap \in [Procs -> [Projects -> Entry]]
      BY DEF QuietInv, Inv, TypeOK
    <2>3. \A d \in Projects : Probe(d)' = "running" => Probe(d) = "running" /\ d # Target(p)
      <3>1. ASSUME NEW d \in Projects, d # Target(p)
            PROVE  Probe(d)' = Probe(d)
        BY <2>1, <2>2, <3>1, ProbeKept
      <3>2. ASSUME NEW d \in Projects, d = Target(p)
            PROVE  Probe(d)' # "running"
        <4>1. pg'[d] = "stopped"
          BY <2>1, <2>2, <3>2
        <4> QED BY <4>1 DEF Probe
      <3> QED BY <3>1, <3>2
    <2>4. \A d \in Projects : Up(d)' => Up(d) /\ d # Target(p)
      BY <2>1, <2>3 DEF Up
    <2>5. \A d \in Projects : d # Target(p) => snap'[p][d] = snap[p][d]
      BY <1>8, <2>2 DEF PgCtlStop
    <2>6. Stopper(p, dir[p]) => ~Up(dir[p])'
      <3>1. op[p] = "release" => Target(p) = dir[p]
        BY <2>1 DEF QuietInv, Inv, StopInv, Target
      <3>2. dir[p] \in Projects
        BY DEF QuietInv, Inv, TypeOK
      <3> QED BY <1>0, <2>4, <3>1, <3>2 DEF Stopper
    <2> QED BY <1>0, <1>2, <1>3, <1>4, <1>5, <2>4, <2>5, <2>6, AnsweredAlone DEF QuietInv
  <1> QED BY <1>6, <1>7, <1>8

\* The copy becomes the registry; who started the cluster has registered it.
LEMMA SaveQuiet ==
  ASSUME QuietInv, NEW p \in Procs, Save(p)
  PROVE  PhaseInv' /\ AnsweredInv'
  <1> USE DEF history, disk
  <1>0. /\ pc[p] = "save" /\ op' = op /\ dir' = dir /\ snap' = snap /\ unclean' = unclean
        /\ registry' = snap[p] /\ pg' = pg /\ data' = data /\ Goto(p, "unlock")
    BY DEF Save
  <1>1. pc'[p] = "unlock" /\ \A q \in Procs : q # p => pc'[q] = pc[q]
    BY <1>0 DEF QuietInv, Inv, TypeOK, Goto
  <1>2. PhaseInv'
    BY <1>0, GotoPhase DEF QuietInv, StartSteps, Critical
  <1>3. \A q \in Procs : ~Holding(q)'
    BY <1>0, <1>1 DEF QuietInv, Inv, MutexInv, Critical, Holding
  <1>4. \A q \in Procs, d \in Projects : q # p =>
           /\ Starter(q, d) => Starter(q, d)'
           /\ Runner(q, d) => Runner(q, d)'
           /\ Stopper(q, d) => Stopper(q, d)'
    BY <1>0, <1>1 DEF Starter, Runner, Stopper
  <1>5. ASSUME NEW d \in Projects
        PROVE  Answered(registry, d)'
    <2> SUFFICES ASSUME Up(d)'
                 PROVE  \/ snap[p][d].explicit
                        \/ \E q \in Procs : \/ Starter(q, d)'
                                            \/ snap[p][d].known /\ Runner(q, d)'
                                            \/ Stopper(q, d)'
      BY <1>0 DEF Answered
    <2>1. Up(d)
      BY <1>0, ProbeKept DEF Up
    <2>2. Answered(snap[p], d)
      BY <1>0 DEF QuietInv, AnsweredInv, Holding
    <2>3. CASE Starter(p, d) /\ op[p] = "acquire"
      <3>1. Runner(p, d)' /\ snap[p][d].known
        BY <1>0, <1>1, <2>3 DEF Runner, Starter, QuietInv, PhaseInv
      <3> QED BY <3>1
    <2>4. CASE Starter(p, d) /\ op[p] = "start"
      BY <1>0, <2>4 DEF Starter, QuietInv, PhaseInv
    <2>5. Starter(p, d) => op[p] \in {"acquire", "start"}
      BY DEF Starter
    <2>6. ~Runner(p, d) /\ ~Stopper(p, d)
      BY <1>0 DEF Runner, Stopper
    <2> QED BY <1>4, <2>1, <2>2, <2>3, <2>4, <2>5, <2>6 DEF Answered
  <1> QED BY <1>2, <1>3, <1>5 DEF AnsweredInv

\* Steps of the environment, which can only bring a cluster down.
LEMMA EnvironmentQuiet ==
  ASSUME QuietInv, UNCHANGED <<registry, pc, op, dir, snap, unclean>>,
         \A d \in Projects : Probe(d)' = "running" => Probe(d) = "running"
  PROVE  PhaseInv' /\ AnsweredInv'
  <1>1. PhaseInv'
    BY DEF QuietInv, PhaseInv
  <1>2. \A d \in Projects : Up(d)' => Up(d)
    BY DEF Up
  <1>3. \A q \in Procs, d \in Projects :
           /\ Starter(q, d) => Starter(q, d)'
           /\ Runner(q, d) => Runner(q, d)'
           /\ Stopper(q, d) => Stopper(q, d)'
           /\ Holding(q)' => Holding(q) /\ snap'[q][d] = snap[q][d]
    BY DEF Starter, Runner, Stopper, Holding
  <1> QED BY <1>1, <1>2, <1>3, AnsweredKept DEF QuietInv

LEMMA QuietStep ==
  ASSUME LockSound, QuietInv, [Next]_vars
  PROVE  QuietInv'
  <1> USE DEF disk, history, invocation
  <1>0. Inv'
    BY InvStep DEF QuietInv
  <1>t. pg \in [Projects -> Postmaster] /\ data \in [Projects -> DataDir]
    BY DEF QuietInv, Inv, TypeOK
  <1>1. ASSUME NEW p \in Procs, NEW o \in Verbs, NEW d \in Projects, Spawn(p, o, d)
        PROVE  PhaseInv' /\ AnsweredInv'
    <2>1. /\ pc[p] = "off" /\ pc'[p] = IF o \in StartOps THEN "probe" ELSE "lock"
          /\ op'[p] = o /\ registry' = registry /\ unclean' = unclean
          /\ pg' = pg /\ data' = data /\ snap' = snap
          /\ \A q \in Procs : q # p => pc'[q] = pc[q] /\ op'[q] = op[q] /\ dir'[q] = dir[q]
      BY <1>1 DEF Spawn, Goto, QuietInv, Inv, TypeOK
    <2>2. PhaseInv'
      BY <2>1, PhaseKept, VerbAssumption DEF QuietInv, StartSteps, Critical
    <2>3. \A e \in Projects : Up(e)' => Up(e)
      BY <2>1, ProbeKept DEF Up
    <2>4. op[p] = "none"
      BY <2>1 DEF QuietInv, PhaseInv
    <2>5. ~Holding(p)' /\ \A e : ~Starter(p, e) /\ ~Runner(p, e) /\ ~Stopper(p, e)
      BY <2>1, <2>4 DEF Holding, Starter, Runner, Stopper
    <2>6. \A q \in Procs, e \in Projects : q # p =>
             /\ Starter(q, e) => Starter(q, e)'
             /\ Runner(q, e) => Runner(q, e)'
             /\ Stopper(q, e) => Stopper(q, e)'
             /\ Holding(q)' => Holding(q) /\ snap'[q][e] = snap[q][e]
      BY <2>1 DEF Starter, Runner, Stopper, Holding
    <2> QED BY <2>1, <2>2, <2>3, <2>5, <2>6, AnsweredKept DEF QuietInv
  <1>2. ASSUME NEW p \in Procs, AppExits(p)
        PROVE  PhaseInv' /\ AnsweredInv'
    <2>1. /\ pc[p] = "running" /\ pc'[p] = "lock" /\ op'[p] = "release" /\ dir' = dir
          /\ registry' = registry /\ unclean' = unclean
          /\ pg' = pg /\ data' = data /\ snap' = snap
          /\ \A q \in Procs : q # p => pc'[q] = pc[q] /\ op'[q] = op[q]
      BY <1>2 DEF AppExits, Goto, QuietInv, Inv, TypeOK
    <2>2. PhaseInv'
      BY <2>1, PhaseKept DEF QuietInv, StartSteps
    <2>3. \A d \in Projects : Up(d)' => Up(d)
      BY <2>1, ProbeKept DEF Up
    <2>4. Runner(p, dir[p])' /\ ~Starter(p, dir[p]) /\ ~Stopper(p, dir[p]) /\ ~Holding(p)'
      BY <2>1 DEF Starter, Runner, Stopper, Holding
    <2> QED BY <2>1, <2>2, <2>3, <2>4, AnsweredAlone DEF QuietInv
  <1>3. ASSUME NEW p \in Procs, Kill(p)
        PROVE  PhaseInv' /\ AnsweredInv'
    BY <1>3, GoneQuiet, ProbeKept DEF Kill
  <1>4. ASSUME NEW d \in Projects, KillPostmaster(d) \/ PostmasterNotices(d) \/ Wipe(d)
        PROVE  PhaseInv' /\ AnsweredInv'
    <2>1. pg'[d] # "up"
      BY <1>4, <1>t DEF KillPostmaster, PostmasterNotices, Wipe
    <2>2. \A e \in Projects : e # d => pg'[e] = pg[e] /\ data'[e] = data[e]
      BY <1>4, <1>t DEF KillPostmaster, PostmasterNotices, Wipe
    <2>3. \A e \in Projects : Probe(e)' = "running" => Probe(e) = "running"
      <3>1. \A e \in Projects : e # d => Probe(e)' = Probe(e)
        BY <2>2, ProbeKept
      <3>2. Probe(d)' # "running"
        BY <2>1 DEF Probe
      <3> QED BY <3>1, <3>2
    <2>4. UNCHANGED <<registry, pc, op, dir, snap, unclean>>
      BY <1>4 DEF KillPostmaster, PostmasterNotices, Wipe
    <2> QED BY <2>3, <2>4, EnvironmentQuiet
  <1>5. ASSUME LockAges \/ UNCHANGED vars
        PROVE  PhaseInv' /\ AnsweredInv'
    <2>1. UNCHANGED <<registry, pc, op, dir, snap, unclean, pg, data>>
      BY <1>5 DEF LockAges, vars
    <2> QED BY <2>1, ProbeKept, EnvironmentQuiet
  <1>6. ASSUME NEW p \in Procs, Locked(p)
        PROVE  PhaseInv' /\ AnsweredInv'
    BY <1>6, LoadQuiet, ReleaseQuiet, NothingToDoQuiet, StoppingQuiet, SaveQuiet DEF Locked
  <1>7. PhaseInv' /\ AnsweredInv'
    BY <1>1, <1>2, <1>3, <1>4, <1>5, <1>6, StartQuiet, LockingQuiet DEF Next
  <1> QED BY <1>0, <1>7 DEF QuietInv

LEMMA QuietInit ==
  ASSUME Init
  PROVE  QuietInv
  <1>1. TypeOK
    BY InitType
  <1>2. MutexInv /\ DataInv /\ RefInv /\ StopInv
    BY DEF Init, MutexInv, DataInv, RefInv, StopInv, Standing, Holding, Critical
  <1>3. PhaseInv
    BY DEF Init, PhaseInv, StartSteps
  <1>4. \A d \in Projects : Probe(d) # "running"
    BY DEF Init, Probe
  <1>5. AnsweredInv
    BY <1>4 DEF AnsweredInv, Answered, Up
  <1> QED BY <1>1, <1>2, <1>3, <1>5 DEF QuietInv, Inv

\* For any number of invocations and projects, any faults, and while only dead
\* holders' locks are broken: when every invocation is over, a cluster that
\* still runs was asked for by `sky db start`, unless an invocation on it
\* failed or was killed and no run has been released since (acquire_for_run,
\* release_run_ref, prune_refs).
THEOREM QuietIsDown ==
  ASSUME LockSound
  PROVE  Spec => []QuietMeansDown
  <1>1. Init => QuietInv
    BY QuietInit
  <1>2. QuietInv /\ [Next]_vars => QuietInv'
    BY QuietStep
  <1>3. QuietInv => QuietMeansDown
    <2> SUFFICES ASSUME QuietInv, NEW d \in Projects, \A p \in Procs : pc[p] = "off",
                        ~unclean[d], Probe(d) = "running"
                 PROVE  registry[d].explicit
      BY DEF QuietMeansDown
    <2>1. \A p \in Procs : ~Starter(p, d) /\ ~Runner(p, d) /\ ~Stopper(p, d)
      BY DEF Starter, Runner, Stopper
    <2> QED BY <2>1 DEF QuietInv, AnsweredInv, Answered, Up
  <1> QED BY <1>1, <1>2, <1>3, PTL DEF Spec

=============================================================================
