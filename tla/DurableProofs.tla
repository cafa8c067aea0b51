--------------------------- MODULE DurableProofs ---------------------------
(***************************************************************************)
(* Theorems about Durable, for every set of runs, workers, steps and       *)
(* signals, every body, every lease and every bound.                       *)
(*                                                                         *)
(* TypeOK is not inductive: SetWaitingSignal writes the name of the current *)
(* operation into waiting_signal and SetWake writes val into wake_at, so    *)
(* the proof also needs that a poller at those statements stands at an     *)
(* operation of that kind (PositionOK).                                    *)
(*                                                                         *)
(* OneExecutor holds because a claim is a lease (LeaseInv): a poller that  *)
(* executes a run stands behind the run's claimed_at, and that claim has   *)
(* not run out while the poller keeps to its lease.                        *)
(***************************************************************************)
EXTENDS Durable, TLAPS

OpAt(s) == Body[s.run][s.ip]

\* What the state of a poller says of the operation it stands at.
Good(s) ==
    /\ s.pc \in {"run", "journal", "setWake", "setWaiting"}
         => s.ip <= Len(Body[s.run])
    /\ s.pc = "run" => OpAt(s).kind = "step"
    /\ s.pc = "journal" => OpAt(s).kind # "await"
    /\ s.pc = "setWaiting" => OpAt(s).kind = "await"
    /\ s.pc = "setWake" => s.val <= MaxTime
    /\ s.pc = "journal" /\ OpAt(s).kind # "step" => s.val <= MaxTime

PositionOK == \A w \in Workers : Good(worker[w])

TypeInv == TypeOK /\ PositionOK

-----------------------------------------------------------------------------
\* The fixed part of a poller that does nothing.
LEMMA IdleType == Idle \in WorkerState /\ Good(Idle) /\ Idle.pc = "idle"
  <1>1. (CHOOSE r \in Runs : TRUE) \in Runs
    BY DurableAssumption
  <1> QED BY <1>1, DurableAssumption
          DEF Idle, WorkerState, Good, Pcs, BodyPcs, SettlePcs, Times

\* Saturation keeps a counter within its cap.
LEMMA AtMostType ==
  ASSUME NEW cap \in Nat, NEW n \in Nat
  PROVE  /\ AtMost(cap, n) \in Nat /\ AtMost(cap, n) \in 0 .. cap
         /\ AtMost(cap, n) <= cap /\ AtMost(cap, n) <= n
  BY DEF AtMost

\* An operation of a body is one of Ops.
LEMMA OpType ==
  ASSUME NEW r \in Runs, NEW i \in Nat \ {0}, i <= Len(Body[r])
  PROVE  /\ Body[r][i] \in Ops
         /\ Body[r][i].kind \in {"step", "sleep", "await"}
         /\ Body[r][i].ms \in Nat
         /\ Body[r][i].kind = "await" => Body[r][i].id \in Signals
         /\ Body[r][i].kind # "await" => Body[r][i].id \in StepIds
  <1>1. Body[r] \in Seq(Ops)
    BY DurableAssumption
  <1>2. Body[r][i] \in Ops
    BY <1>1
  <1> QED BY <1>2 DEF Ops

\* The poller an error leaves behind is well formed.
LEMMA AfterErrorType ==
  ASSUME TypeInv, NEW w \in Workers
  PROVE  AfterError(w) \in WorkerState /\ Good(AfterError(w))
  <1>1. worker[w] \in WorkerState
    BY DEF TypeInv, TypeOK
  <1> QED BY <1>1, IdleType DEF AfterError, Good, WorkerState, Pcs, SettlePcs

\* Replacing one poller's state by a well-formed one keeps all well formed.
LEMMA WorkerUpdate ==
  ASSUME TypeInv, NEW w \in Workers, NEW next,
         next \in WorkerState, Good(next),
         worker' = [worker EXCEPT ![w] = next]
  PROVE  worker' \in [Workers -> WorkerState] /\ PositionOK'
  <1>1. worker \in [Workers -> WorkerState] /\ PositionOK
    BY DEF TypeInv, TypeOK
  <1>2. worker' \in [Workers -> WorkerState]
    BY <1>1
  <1>3. ASSUME NEW v \in Workers PROVE Good(worker'[v])
    BY <1>1, <1>3 DEF PositionOK
  <1>4. PositionOK'
    BY <1>3 DEF PositionOK, Good, OpAt
  <1> QED BY <1>2, <1>4

\* Whatever reply a statement gets, pollers and the fault count stay typed.
LEMMA ReplyType ==
  ASSUME TypeInv, NEW w \in Workers, NEW next, next \in WorkerState, Good(next),
         Reply(w, next)
  PROVE  worker' \in [Workers -> WorkerState] /\ PositionOK' /\ faults' \in 0 .. MaxFaults
  <1>0. faults \in 0 .. MaxFaults /\ MaxFaults \in Nat
    BY DurableAssumption DEF TypeInv, TypeOK
  <1>1. CASE Goto(w, next)
    BY <1>0, <1>1, WorkerUpdate DEF Goto
  <1>2. CASE Fault(w, AfterError(w))
    <2>1. worker' = [worker EXCEPT ![w] = AfterError(w)]
      BY <1>2 DEF Fault
    <2>2. faults' \in 0 .. MaxFaults
      BY <1>0, <1>2 DEF Fault, MayFault
    <2> QED BY <2>1, <2>2, AfterErrorType, WorkerUpdate
  <1> QED BY <1>1, <1>2 DEF Reply

LEMMA GotoType ==
  ASSUME TypeInv, NEW w \in Workers, NEW next, next \in WorkerState, Good(next),
         Goto(w, next)
  PROVE  worker' \in [Workers -> WorkerState] /\ PositionOK' /\ faults' \in 0 .. MaxFaults
  BY ReplyType DEF Reply

\* A time is a wake time, and the bounds of the clock are naturals.
LEMMA TimeFacts ==
  /\ \A t \in Times : t \in 0 .. FarFuture /\ t \in Nat
  /\ FarFuture \in 0 .. FarFuture
  BY DurableAssumption DEF Times, FarFuture

LEMMA StatusFacts ==
  /\ "running" \in Statuses /\ "waiting" \in Statuses /\ "done" \in Statuses
  /\ "failed" \in Statuses /\ "dead" \in Statuses /\ "absent" \in Statuses
  BY DEF Statuses, Claimable, Terminal

\* The rows of the table are well formed, and so is the clock.
LEMMA TypeFacts ==
  ASSUME TypeInv
  PROVE  /\ now \in Times
         /\ \A r \in Runs : runs[r] \in RunRow
         /\ \A w \in Workers : worker[w] \in WorkerState /\ Good(worker[w])
  BY DEF TypeInv, TypeOK, PositionOK

\* An UPDATE that writes a well-formed row keeps the table well formed.
LEMMA RowUpdate ==
  ASSUME TypeInv, NEW r \in Runs, NEW row \in RunRow, Update(r, row)
  PROVE  runs' \in [Runs -> RunRow]
  BY DEF TypeInv, TypeOK, Update

-----------------------------------------------------------------------------
LEMMA InitType == Init => TypeInv
  <1> SUFFICES ASSUME Init PROVE TypeInv
    OBVIOUS
  <1> USE DurableAssumption DEF Init
  <1>1. worker \in [Workers -> WorkerState]
    BY IdleType
  <1>2. PositionOK
    BY IdleType DEF PositionOK
  <1>3. runs \in [Runs -> RunRow]
    BY StatusFacts, TimeFacts DEF RunRow, Times
  <1>4. /\ now \in Times /\ signals \subseteq Pairs /\ sent \subseteq Pairs
        /\ faults \in 0 .. MaxFaults
        /\ sender \in [Pairs -> Times \cup {None}]
        /\ compactor \in [pc : {"idle", "journal", "signals"}, cutoff : Int]
    BY DEF Times, None
  <1>5. /\ journal \in [Runs -> [StepIds -> Nat \cup {None}]]
        /\ ran \in [Runs -> [StepIds -> 0 .. CounterCap]]
    BY DEF None
  <1> QED BY <1>1, <1>2, <1>3, <1>4, <1>5 DEF TypeInv, TypeOK

\* start, signal, compact and the clock leave the pollers alone.
LEMMA CallerType ==
  ASSUME TypeInv,
         \/ \E r \in Runs : Start(r)
         \/ \E p \in Pairs : SignalInsert(p) \/ SignalWake(p) \/ SignalFails(p)
         \/ Compact
         \/ Tick
  PROVE  TypeInv'
  <1> USE DurableAssumption DEF tables, history
  <1>0. worker' = worker
    BY DEF Start, SignalInsert, SignalWake, SignalFails, Compact, CompactBegin,
           CompactJournal, CompactSignals, CompactFails, Tick
  <1>1. PositionOK'
    BY <1>0 DEF TypeInv, PositionOK, Good, OpAt
  <1>2. ASSUME NEW r \in Runs, Start(r) PROVE TypeOK'
    <2>1. [runs[r] EXCEPT !.status = "running", !.wake = now, !.updated = now]
            \in RunRow
      BY TypeFacts, TimeFacts, StatusFacts DEF RunRow
    <2>2. runs' \in [Runs -> RunRow]
      BY <2>1, <1>2, RowUpdate DEF Start
    <2> QED BY <2>2, <1>2 DEF Start, TypeInv, TypeOK
  <1>3. ASSUME NEW p \in Pairs, SignalInsert(p) PROVE TypeOK'
    BY <1>3 DEF SignalInsert, TypeInv, TypeOK
  <1>4. ASSUME NEW p \in Pairs, SignalWake(p) PROVE TypeOK'
    <2>1. p[1] \in Runs /\ sender[p] \in Times
      BY <1>4 DEF SignalWake, TypeInv, TypeOK, Pairs
    <2>2. [runs[p[1]] EXCEPT !.wake = sender[p], !.waiting = NoSignal,
                             !.updated = sender[p]] \in RunRow
      BY <2>1, TypeFacts, TimeFacts DEF RunRow
    <2>3. runs' \in [Runs -> RunRow]
      BY <1>4, <2>1, <2>2, RowUpdate DEF SignalWake, TypeInv, TypeOK
    <2> QED BY <1>4, <2>3 DEF SignalWake, TypeInv, TypeOK
  <1>5. ASSUME NEW p \in Pairs, SignalFails(p) PROVE TypeOK'
    BY <1>5 DEF SignalFails, TypeInv, TypeOK
  <1>6. CASE CompactBegin
    BY <1>6, <1>1 DEF CompactBegin, TypeInv, TypeOK, Times
  <1>7. CASE CompactJournal
    BY <1>7, <1>1 DEF CompactJournal, TypeInv, TypeOK
  <1>8. CASE CompactSignals
    BY <1>8, <1>1 DEF CompactSignals, TypeInv, TypeOK
  <1>9. CASE CompactFails
    BY <1>9, <1>1 DEF CompactFails, TypeInv, TypeOK
  <1>10. CASE Tick
    BY <1>10, <1>1 DEF Tick, TypeInv, TypeOK, Times
  <1> QED
    BY <1>1, <1>2, <1>3, <1>4, <1>5, <1>6, <1>7, <1>8, <1>9, <1>10
       DEF Compact, TypeInv

\* A statement that only moves its poller on.
LEMMA MoveType ==
  ASSUME TypeInv, NEW w \in Workers, NEW next, next \in WorkerState, Good(next),
         Goto(w, next),
         UNCHANGED <<now, tables, sender, compactor, history>>
  PROVE  TypeInv'
  BY GotoType DEF TypeInv, TypeOK, tables, history

\* A statement that writes the row of a run.
LEMMA WriteRowType ==
  ASSUME TypeInv, NEW w \in Workers, NEW next, next \in WorkerState, Good(next),
         NEW r \in Runs, NEW row \in RunRow, Update(r, row),
         Reply(w, next),
         UNCHANGED <<now, journal, signals, sender, compactor, history>>
  PROVE  TypeInv'
  <1>1. runs' \in [Runs -> RunRow]
    BY RowUpdate
  <1> QED BY <1>1, ReplyType DEF TypeInv, TypeOK, history

\* poll and claim.
LEMMA ClaimType ==
  ASSUME TypeInv, NEW w \in Workers, Poll(w) \/ ClaimSelect(w) \/ ClaimTake(w)
  PROVE  TypeInv'
  <1> USE TypeFacts, IdleType
  <1>1. CASE Poll(w)
    <2>1. [Idle EXCEPT !.pc = "select", !.now = now] \in WorkerState
      BY DEF WorkerState, Pcs
    <2>2. Good([Idle EXCEPT !.pc = "select", !.now = now])
      BY DEF Good, WorkerState
    <2> QED BY <1>1, <2>1, <2>2, MoveType DEF Poll
  <1>2. CASE ClaimSelect(w)
    <2>1. CASE Goto(w, Idle)
      BY <1>2, <2>1, MoveType DEF ClaimSelect
    <2>2. ASSUME NEW r \in Runs,
                 Goto(w, [worker[w] EXCEPT !.pc = "take", !.run = r])
          PROVE  TypeInv'
      <3>1. [worker[w] EXCEPT !.pc = "take", !.run = r] \in WorkerState
        BY DEF WorkerState, Pcs
      <3>2. Good([worker[w] EXCEPT !.pc = "take", !.run = r])
        BY DEF Good, WorkerState
      <3> QED BY <1>2, <2>2, <3>1, <3>2, MoveType DEF ClaimSelect
    <2> QED BY <1>2, <2>1, <2>2 DEF ClaimSelect, Due
  <1>3. CASE ClaimTake(w)
    <2> DEFINE r == worker[w].run
               t == worker[w].now
               row == [runs[r] EXCEPT !.claimed = t, !.updated = t,
                         !.status = "running",
                         !.attempts = AtMost(CounterCap, @ + 1)]
               next == Step(w, Advance(w, r))
    <2>1. r \in Runs /\ t \in Times
      BY DEF WorkerState
    <2>2. AtMost(CounterCap, runs[r].attempts + 1) \in 0 .. CounterCap
      <3>1. CounterCap \in Nat /\ runs[r].attempts + 1 \in Nat
        BY <2>1, DurableAssumption DEF RunRow
      <3> QED BY <3>1, AtMostType
    <2>3. row \in RunRow
      BY <2>1, <2>2, StatusFacts DEF RunRow
    <2>4. Advance(w, r) \in {"body", "markDead", "markFailed", "parkForVersion"}
      BY DEF Advance
    <2>5. next \in WorkerState /\ Good(next)
      <3>1. Advance(w, r) \in Pcs
        BY <2>4 DEF Pcs, BodyPcs, SettlePcs
      <3>2. next \in WorkerState
        BY <3>1 DEF Step, WorkerState
      <3>3. next.pc = Advance(w, r)
        BY DEF Step, WorkerState
      <3> QED BY <2>4, <3>2, <3>3 DEF Good
    <2>6. CASE Update(r, row) /\ Reply(w, next)
      <3> HIDE DEF row, next
      <3> QED BY <1>3, <2>1, <2>3, <2>5, <2>6, WriteRowType DEF ClaimTake
    <2>7. CASE Goto(w, Idle) /\ UNCHANGED runs
      BY <1>3, <2>7, MoveType DEF ClaimTake, tables
    <2> QED BY <1>3, <2>6, <2>7 DEF ClaimTake
  <1> QED BY <1>1, <1>2, <1>3

\* The body's statements.
LEMMA BodyType ==
  ASSUME TypeInv, NEW w \in Workers, BodyStep(w)
  PROVE  TypeInv'
  <1> DEFINE r == worker[w].run
             s == worker[w]
  <1>0. /\ s \in WorkerState /\ Good(s)
        /\ r \in Runs /\ s.ip \in Nat \ {0} /\ s.val \in Nat
        /\ now \in Times /\ now \in Nat /\ MaxTime \in Nat
    BY TypeFacts, TimeFacts, DurableAssumption DEF WorkerState
  <1>1. NextOp(w) \in WorkerState /\ Good(NextOp(w))
    <2>1. s.ip + 1 \in Nat \ {0}
      BY <1>0
    <2>2. NextOp(w) \in WorkerState
      BY <1>0, <2>1 DEF NextOp, WorkerState, Pcs, BodyPcs
    <2> QED BY <1>0, <2>2 DEF NextOp, WorkerState, Good
  <1>2. ASSUME s.ip <= Len(Body[r])
        PROVE  /\ Op(w) = OpAt(s) /\ Op(w).kind \in {"step", "sleep", "await"}
               /\ Op(w).ms \in Nat
               /\ Op(w).kind = "await" => Op(w).id \in Signals
               /\ Op(w).kind # "await" => Op(w).id \in StepIds
    BY <1>0, <1>2, OpType DEF Op, OpAt
  <1>3. CASE ReadJournal(w)
    <2>0. InBody(w) /\ s.ip <= Len(Body[r])
      BY <1>3 DEF ReadJournal, InBody
    <2>1. CASE Goto(w, NextOp(w))
      BY <1>3, <2>1, <1>1, MoveType DEF ReadJournal
    <2>2. CASE Op(w).kind = "step" /\ Goto(w, Step(w, "run"))
      <3>1. Step(w, "run") \in WorkerState /\ Good(Step(w, "run"))
        BY <1>0, <1>2, <2>0, <2>2
           DEF Step, WorkerState, Good, Pcs, BodyPcs, OpAt
      <3> QED BY <1>3, <2>2, <3>1, MoveType DEF ReadJournal
    <2>3. CASE /\ Op(w).kind = "sleep"
               /\ Goto(w, [s EXCEPT !.pc = "journal",
                                    !.val = AtMost(MaxTime, now + Op(w).ms)])
      <3>1. now + Op(w).ms \in Nat
        BY <1>0, <1>2, <2>0
      <3>2. /\ AtMost(MaxTime, now + Op(w).ms) \in Nat
            /\ AtMost(MaxTime, now + Op(w).ms) <= MaxTime
        BY <1>0, <3>1, AtMostType
      <3> DEFINE next == [s EXCEPT !.pc = "journal",
                                   !.val = AtMost(MaxTime, now + Op(w).ms)]
      <3>3. next \in WorkerState
        BY <1>0, <3>2 DEF WorkerState, Pcs, BodyPcs
      <3>4. Good(next)
        BY <1>0, <1>2, <2>0, <2>3, <3>2 DEF WorkerState, Good, OpAt
      <3> QED BY <1>3, <2>3, <3>3, <3>4, MoveType DEF ReadJournal
    <2> QED BY <1>3, <2>1, <2>2, <2>3 DEF ReadJournal
  <1>4. CASE RunTask(w)
    <2> DEFINE k == Op(w).id
               n == AtMost(CounterCap, ran[r][k] + 1)
               next == [s EXCEPT !.pc = "journal", !.val = n]
    <2>0. s.pc = "run" /\ s.ip <= Len(Body[r]) /\ Op(w).kind = "step"
      BY <1>0, <1>2, <1>4 DEF RunTask, Good
    <2>1. k \in StepIds
      BY <1>2, <2>0
    <2>2. ran \in [Runs -> [StepIds -> 0 .. CounterCap]] /\ CounterCap \in Nat
      BY DurableAssumption DEF TypeInv, TypeOK
    <2>3. n \in 0 .. CounterCap
      <3>1. CounterCap \in Nat /\ ran[r][k] + 1 \in Nat
        BY <1>0, <2>1, <2>2
      <3> QED BY <3>1, AtMostType
    <2>n. n \in Nat
      BY <2>2, <2>3
    <2> HIDE DEF n
    <2>4. next \in WorkerState
      BY <1>0, <2>n DEF WorkerState, Pcs, BodyPcs
    <2>5. Good(next)
      BY <1>0, <1>2, <2>0, <2>4 DEF WorkerState, Good, OpAt
    <2>6. Goto(w, next) /\ ran' = [ran EXCEPT ![r][k] = n]
      BY <1>4 DEF RunTask, n
    <2>7. ran' \in [Runs -> [StepIds -> 0 .. CounterCap]]
      BY <1>0, <2>1, <2>2, <2>3, <2>6
    <2> HIDE DEF next
    <2> QED BY <1>4, <2>4, <2>5, <2>6, <2>7, GotoType
            DEF RunTask, TypeInv, TypeOK, tables
  <1>5. CASE BodyFails(w)
    BY <1>5, AfterErrorType, MoveType DEF BodyFails
  <1>6. CASE WriteJournal(w)
    <2> DEFINE k == Op(w).id
               next == IF Op(w).kind = "step" THEN NextOp(w) ELSE Step(w, "setWake")
    <2>0. s.pc = "journal" /\ s.ip <= Len(Body[r])
      BY <1>0, <1>6 DEF WriteJournal, Good
    <2>2. next \in WorkerState /\ Good(next)
      <3>1. ASSUME Op(w).kind # "step"
            PROVE  Step(w, "setWake") \in WorkerState /\ Good(Step(w, "setWake"))
        BY <1>0, <1>2, <2>0, <3>1
           DEF Step, WorkerState, Good, Pcs, BodyPcs, OpAt
      <3> QED BY <1>1, <3>1
    <2>3. journal \in [Runs -> [StepIds -> Nat \cup {None}]]
      BY DEF TypeInv, TypeOK
    <2>4. journal' \in [Runs -> [StepIds -> Nat \cup {None}]]
      BY <1>0, <1>6, <2>3 DEF WriteJournal, Recorded
    <2>5. Reply(w, next)
      BY <1>6 DEF WriteJournal
    <2> HIDE DEF next
    <2> QED BY <1>6, <2>2, <2>4, <2>5, ReplyType
            DEF WriteJournal, TypeInv, TypeOK, history
  <1>7. CASE SetWake(w)
    <2> DEFINE row == [runs[r] EXCEPT !.wake = s.val, !.updated = now]
               next == [s EXCEPT !.pc = "releaseLease", !.val = 0]
    <2>0. s.pc = "setWake" /\ s.val <= MaxTime /\ s.ip <= Len(Body[r])
      BY <1>0, <1>7 DEF SetWake, Good
    <2>1. s.val \in 0 .. FarFuture
      BY <1>0, <2>0 DEF FarFuture
    <2>2. row \in RunRow
      BY <1>0, <2>1, TypeFacts DEF RunRow
    <2>3. next \in WorkerState /\ Good(next)
      BY <1>0 DEF WorkerState, Good, Pcs, SettlePcs
    <2>4. Update(r, row) /\ Reply(w, next)
      BY <1>7 DEF SetWake
    <2> HIDE DEF row, next
    <2> QED BY <1>0, <1>7, <2>2, <2>3, <2>4, WriteRowType DEF SetWake
  <1>8. CASE AwaitSignal(w)
    <2>0. s.ip <= Len(Body[r]) /\ Op(w).kind = "await"
      BY <1>8 DEF AwaitSignal, InBody
    <2>1. CASE Goto(w, NextOp(w))
      BY <1>8, <2>1, <1>1, MoveType DEF AwaitSignal
    <2>2. CASE Goto(w, Step(w, "setWaiting"))
      <3>1. Step(w, "setWaiting") \in WorkerState /\ Good(Step(w, "setWaiting"))
        BY <1>0, <1>2, <2>0 DEF Step, WorkerState, Good, Pcs, BodyPcs, OpAt
      <3> QED BY <1>8, <2>2, <3>1, MoveType DEF AwaitSignal
    <2> QED BY <1>8, <2>1, <2>2 DEF AwaitSignal
  <1>9. CASE SetWaitingSignal(w)
    <2> DEFINE row == [runs[r] EXCEPT !.status = "waiting", !.waiting = Op(w).id,
                                      !.wake = FarFuture, !.updated = now]
               next == Step(w, "releaseLease")
    <2>0. s.pc = "setWaiting" /\ s.ip <= Len(Body[r]) /\ Op(w).kind = "await"
      BY <1>0, <1>2, <1>9 DEF SetWaitingSignal, Good
    <2>1. Op(w).id \in Signals
      BY <1>2, <2>0
    <2>2. row \in RunRow
      BY <1>0, <2>1, TypeFacts, TimeFacts, StatusFacts DEF RunRow
    <2>3. next \in WorkerState /\ Good(next)
      BY <1>0 DEF Step, WorkerState, Good, Pcs, SettlePcs
    <2>4. Update(r, row) /\ Reply(w, next)
      BY <1>9 DEF SetWaitingSignal
    <2> HIDE DEF row, next
    <2> QED BY <1>0, <1>9, <2>2, <2>3, <2>4, WriteRowType DEF SetWaitingSignal
  <1> QED
    BY <1>3, <1>4, <1>5, <1>6, <1>7, <1>8, <1>9 DEF BodyStep

\* The statements that end a poll, and the faults.
LEMMA SettleType ==
  ASSUME TypeInv, NEW w \in Workers, SettleStep(w)
  PROVE  TypeInv'
  <1> DEFINE r == worker[w].run
             row(status) == [runs[r] EXCEPT !.status = status, !.claimed = None,
                                            !.updated = now]
  <1>1. r \in Runs /\ runs[r] \in RunRow /\ now \in Times
    BY TypeFacts DEF WorkerState
  <1>2. ASSUME NEW status \in Statuses, Settle(w, status) PROVE TypeInv'
    <2>1. row(status) \in RunRow
      BY <1>1 DEF RunRow
    <2>2. Update(r, row(status)) /\ Reply(w, Idle)
      BY <1>2 DEF Settle
    <2> HIDE DEF row
    <2> QED BY <1>1, <1>2, <2>1, <2>2, IdleType, WriteRowType DEF Settle
  <1>3. runs[r].status \in Statuses
    BY <1>1 DEF RunRow
  <1> QED
    BY <1>2, <1>3, StatusFacts
       DEF SettleStep, MarkDone, MarkFailed, MarkDead, ParkForVersion, ReleaseLease

LEMMA FaultType ==
  ASSUME TypeInv, NEW w \in Workers, StatementFails(w) \/ Crash(w)
  PROVE  TypeInv'
  <1>0. faults \in 0 .. MaxFaults /\ MaxFaults \in Nat
    BY DurableAssumption DEF TypeInv, TypeOK
  <1>1. ASSUME NEW next, next \in WorkerState, Good(next), Fault(w, next),
               UNCHANGED <<now, tables, sender, compactor, history>>
        PROVE  TypeInv'
    <2>1. worker' = [worker EXCEPT ![w] = next] /\ faults' \in 0 .. MaxFaults
      BY <1>0, <1>1 DEF Fault, MayFault
    <2> QED BY <1>1, <2>1, WorkerUpdate DEF TypeInv, TypeOK, tables, history
  <1>2. CASE StatementFails(w)
    BY <1>1, <1>2, AfterErrorType DEF StatementFails
  <1>3. CASE Crash(w)
    BY <1>1, <1>3, IdleType DEF Crash
  <1> QED BY <1>2, <1>3

LEMMA TypeStep == TypeInv /\ [Next]_vars => TypeInv'
  <1> SUFFICES ASSUME TypeInv, [Next]_vars PROVE TypeInv'
    OBVIOUS
  <1>1. CASE \/ \E r \in Runs : Start(r)
             \/ \E p \in Pairs : SignalInsert(p) \/ SignalWake(p) \/ SignalFails(p)
             \/ Compact
             \/ Tick
    BY <1>1, CallerType
  <1>2. ASSUME NEW w \in Workers, WorkerStep(w) PROVE TypeInv'
    BY <1>2, ClaimType, BodyType, SettleType DEF WorkerStep
  <1>3. ASSUME NEW w \in Workers, StatementFails(w) \/ Crash(w) PROVE TypeInv'
    BY <1>3, FaultType
  <1>4. CASE UNCHANGED vars
    BY <1>4 DEF vars, tables, history, TypeInv, TypeOK, PositionOK, Good, OpAt
  <1> QED BY <1>1, <1>2, <1>3, <1>4 DEF Next

\* Type correctness: every column, and the state of every poller, keeps its type
\* through claims, replays, lost replies, crashes and compaction.
THEOREM Typing == Spec => []TypeOK
  <1>1. Spec => []TypeInv
    BY InitType, TypeStep, PTL DEF Spec
  <1>2. TypeInv => TypeOK
    BY DEF TypeInv
  <1> QED BY <1>1, <1>2, PTL

-----------------------------------------------------------------------------
\* One executor per run, for pollers that keep to their lease.

LeaseInv ==
    /\ \A w \in Workers : Executing(w) =>
          runs[worker[w].run].claimed = worker[w].now
    /\ \A w \in Workers : worker[w].pc # "idle" =>
          worker[w].now <= now /\ now <= worker[w].now + LeaseMs
    /\ OneExecutor

ExecutingPcs == BodyPcs \cup SettlePcs

\* A step that moves one poller and touches no claim: the poller may go on
\* executing the run it executes, and may not begin to.
LEMMA MoveKeepsLease ==
  ASSUME TypeInv, LeaseInv, NEW w \in Workers, NEW next \in WorkerState,
         worker' = [worker EXCEPT ![w] = next],
         next.pc = "idle" \/ (next.now <= now /\ now <= next.now + LeaseMs),
         next.pc \in ExecutingPcs =>
            Executing(w) /\ next.run = worker[w].run /\ next.now = worker[w].now,
         \A r \in Runs : runs'[r].claimed = runs[r].claimed,
         now' = now
  PROVE  LeaseInv'
  <1>0. /\ worker \in [Workers -> WorkerState]
        /\ worker'[w] = next
        /\ \A v \in Workers : v # w => worker'[v] = worker[v]
        /\ \A v \in Workers : worker[v].run \in Runs
        /\ next.run \in Runs
    BY DEF TypeInv, TypeOK, WorkerState
  <1>1. ASSUME NEW v \in Workers, worker'[v].pc \in ExecutingPcs
        PROVE  /\ Executing(v)
               /\ worker'[v].run = worker[v].run /\ worker'[v].now = worker[v].now
    BY <1>0, <1>1 DEF Executing, ExecutingPcs
  <1>2. ASSUME NEW v \in Workers, worker'[v].pc # "idle"
        PROVE  worker'[v].now <= now' /\ now' <= worker'[v].now + LeaseMs
    BY <1>0, <1>2 DEF LeaseInv
  <1>3. ASSUME NEW v \in Workers, Executing(v)'
        PROVE  runs'[worker'[v].run].claimed = worker'[v].now
    BY <1>0, <1>1, <1>3 DEF LeaseInv, Executing, ExecutingPcs
  <1>4. OneExecutor'
    BY <1>1 DEF OneExecutor, LeaseInv, Executing, ExecutingPcs
  <1> QED BY <1>2, <1>3, <1>4 DEF LeaseInv

\* An UPDATE that does not name claimed_at keeps every claim.
LEMMA UpdateKeepsClaims ==
  ASSUME TypeInv, NEW r \in Runs, NEW row \in RunRow,
         row.claimed = runs[r].claimed, Update(r, row)
  PROVE  \A q \in Runs : runs'[q].claimed = runs[q].claimed
  BY DEF TypeInv, TypeOK, Update

LEMMA LeaseInit == Init => LeaseInv
  BY IdleType DEF Init, LeaseInv, OneExecutor, Executing, BodyPcs, SettlePcs

LEMMA CallerKeepsLease ==
  ASSUME TypeInv, LeaseInv, Punctual,
         \/ \E r \in Runs : Start(r)
         \/ \E p \in Pairs : SignalInsert(p) \/ SignalWake(p) \/ SignalFails(p)
         \/ Compact
         \/ Tick
  PROVE  LeaseInv'
  <1> USE DEF tables, history
  <1>0. worker' = worker
    BY DEF Start, SignalInsert, SignalWake, SignalFails, Compact, CompactBegin,
           CompactJournal, CompactSignals, CompactFails, Tick
  <1>a. \A w \in Workers : worker[w].run \in Runs /\ worker[w].now \in Nat
    BY TypeFacts, TimeFacts DEF WorkerState
  <1>b. ASSUME now' = now, \A q \in Runs : runs'[q].claimed = runs[q].claimed
        PROVE  LeaseInv'
    BY <1>0, <1>a, <1>b DEF LeaseInv, OneExecutor, Executing
  <1>1. ASSUME NEW r \in Runs, Start(r) PROVE LeaseInv'
    <2> DEFINE row == [runs[r] EXCEPT !.status = "running", !.wake = now,
                                      !.updated = now]
    <2>1. row \in RunRow /\ row.claimed = runs[r].claimed
      BY TypeFacts, TimeFacts, StatusFacts DEF RunRow
    <2> HIDE DEF row
    <2>2. \A q \in Runs : runs'[q].claimed = runs[q].claimed
      BY <1>1, <2>1, UpdateKeepsClaims DEF Start, row
    <2> QED BY <1>1, <1>b, <2>2 DEF Start
  <1>2. ASSUME NEW p \in Pairs, SignalWake(p) PROVE LeaseInv'
    <2> DEFINE row == [runs[p[1]] EXCEPT !.wake = sender[p],
                          !.waiting = NoSignal, !.updated = sender[p]]
    <2>1. p[1] \in Runs /\ sender[p] \in Times
      BY <1>2 DEF SignalWake, TypeInv, TypeOK, Pairs
    <2>2. row \in RunRow /\ row.claimed = runs[p[1]].claimed
      BY <2>1, TypeFacts, TimeFacts DEF RunRow
    <2>3. UNCHANGED runs \/ Update(p[1], row)
      BY <1>2 DEF SignalWake
    <2> HIDE DEF row
    <2>4. \A q \in Runs : runs'[q].claimed = runs[q].claimed
      BY <2>1, <2>2, <2>3, UpdateKeepsClaims
    <2> QED BY <1>2, <1>b, <2>4 DEF SignalWake
  <1>3. ASSUME NEW p \in Pairs, SignalInsert(p) \/ SignalFails(p) PROVE LeaseInv'
    BY <1>3, <1>b DEF SignalInsert, SignalFails
  <1>4. CASE Compact
    BY <1>4, <1>b DEF Compact, CompactBegin, CompactJournal, CompactSignals,
                      CompactFails
  <1>5. CASE Tick
    <2>1. /\ runs' = runs /\ now' = now + 1
          /\ \A w \in Workers : worker[w].pc = "idle" \/ now < worker[w].now + LeaseMs
      BY <1>5 DEF Tick, OnTime
    <2>2. now \in Nat /\ LeaseMs \in Nat
      BY TypeFacts, TimeFacts, DurableAssumption
    <2>3. ASSUME NEW w \in Workers, worker[w].pc # "idle"
          PROVE  worker[w].now <= now + 1 /\ now + 1 <= worker[w].now + LeaseMs
      BY <1>a, <2>1, <2>2, <2>3 DEF LeaseInv
    <2> QED BY <1>0, <2>1, <2>3 DEF LeaseInv, OneExecutor, Executing
  <1> QED BY <1>1, <1>2, <1>3, <1>4, <1>5

\* poll reads the clock, claim selects: neither executes anything yet.
LEMMA SelectKeepsLease ==
  ASSUME TypeInv, LeaseInv, NEW w \in Workers, Poll(w) \/ ClaimSelect(w)
  PROVE  LeaseInv'
  <1> USE TypeFacts, TimeFacts, IdleType
  <1>0. "idle" \notin ExecutingPcs /\ "select" \notin ExecutingPcs
        /\ "take" \notin ExecutingPcs
    BY DEF ExecutingPcs, BodyPcs, SettlePcs
  <1>1. runs' = runs /\ now' = now
    BY DEF Poll, ClaimSelect, tables
  <1>2. CASE Poll(w)
    <2> DEFINE next == [Idle EXCEPT !.pc = "select", !.now = now]
    <2>1. next \in WorkerState
      BY DEF WorkerState, Pcs
    <2>2. next.pc = "select" /\ next.now = now
      BY DEF WorkerState
    <2>3. now <= now /\ now <= now + LeaseMs
      BY DurableAssumption
    <2>4. worker' = [worker EXCEPT ![w] = next]
      BY <1>2 DEF Poll, Goto
    <2> HIDE DEF next
    <2> QED BY <1>0, <1>1, <2>1, <2>2, <2>3, <2>4, MoveKeepsLease
  <1>3. CASE ClaimSelect(w)
    <2>1. CASE Goto(w, Idle)
      BY <1>0, <1>1, <2>1, MoveKeepsLease DEF Goto
    <2>2. ASSUME NEW r \in Runs,
                 Goto(w, [worker[w] EXCEPT !.pc = "take", !.run = r])
          PROVE  LeaseInv'
      <3> DEFINE next == [worker[w] EXCEPT !.pc = "take", !.run = r]
      <3>1. next \in WorkerState
        BY DEF WorkerState, Pcs
      <3>2. next.pc = "take" /\ next.now = worker[w].now
        BY DEF WorkerState
      <3>3. worker[w].now <= now /\ now <= worker[w].now + LeaseMs
        BY <1>3 DEF ClaimSelect, LeaseInv
      <3>4. worker' = [worker EXCEPT ![w] = next]
        BY <2>2 DEF Goto
      <3> HIDE DEF next
      <3> QED BY <1>0, <1>1, <3>1, <3>2, <3>3, <3>4, MoveKeepsLease
    <2> QED BY <1>3, <2>1, <2>2 DEF ClaimSelect, Due
  <1> QED BY <1>2, <1>3

\* The guarded UPDATE of claim: a poller that executes the run holds a claim
\* that has not run out, so the guard refuses the run to everyone else.
LEMMA TakeKeepsLease ==
  ASSUME TypeInv, TypeInv', LeaseInv, ~LostReplies, NEW w \in Workers, ClaimTake(w)
  PROVE  LeaseInv'
  <1> USE TypeFacts, TimeFacts, IdleType
  <1> DEFINE r == worker[w].run
             t == worker[w].now
             row == [runs[r] EXCEPT !.claimed = t, !.updated = t,
                       !.status = "running",
                       !.attempts = AtMost(CounterCap, @ + 1)]
  <1>0. /\ r \in Runs /\ t \in Nat /\ now \in Nat /\ LeaseMs \in Nat
        /\ t <= now /\ now <= t + LeaseMs /\ now' = now
        /\ \A v \in Workers : worker[v].now \in Nat /\ worker[v].run \in Runs
    BY DurableAssumption DEF WorkerState, ClaimTake, LeaseInv
  <1>1. CASE Goto(w, Idle) /\ UNCHANGED runs
    <2>1. "idle" \notin ExecutingPcs
      BY DEF ExecutingPcs, BodyPcs, SettlePcs
    <2> QED BY <1>0, <1>1, <2>1, MoveKeepsLease DEF Goto
  <1>2. CASE Free(r, t) /\ Update(r, row) /\ Reply(w, Step(w, Advance(w, r)))
    <2>1. \A v \in Workers : Executing(v) => worker[v].run # r
      <3> SUFFICES ASSUME NEW v \in Workers, Executing(v), worker[v].run = r
                   PROVE  FALSE
        OBVIOUS
      <3>1. runs[r].claimed = worker[v].now
        BY DEF LeaseInv
      <3>2. now <= worker[v].now + LeaseMs
        BY DEF LeaseInv, Executing, BodyPcs, SettlePcs
      <3>3. worker[v].now < t - LeaseMs
        BY <1>0, <1>2, <3>1 DEF Free, None
      <3> QED BY <1>0, <3>2, <3>3
    <2>2. worker' = [worker EXCEPT ![w] = Step(w, Advance(w, r))]
      BY <1>2 DEF Reply, Goto
    <2>3. /\ worker'[w].run = r /\ worker'[w].now = t
          /\ \A v \in Workers : v # w => worker'[v] = worker[v]
      BY <2>2 DEF TypeInv, TypeOK, Step, WorkerState
    <2>4. /\ runs'[r].claimed = t
          /\ \A q \in Runs : q # r => runs'[q] = runs[q]
      <3>1. row.claimed = t
        BY <1>0 DEF RunRow
      <3> HIDE DEF row
      <3> QED BY <1>0, <1>2, <3>1 DEF Update, TypeInv, TypeOK
    <2>5. ASSUME NEW v \in Workers, v # w, Executing(v)'
          PROVE  Executing(v) /\ worker'[v].run # r
      BY <2>1, <2>3, <2>5 DEF Executing
    <2>6. ASSUME NEW v \in Workers, Executing(v)'
          PROVE  runs'[worker'[v].run].claimed = worker'[v].now
      <3>1. CASE v = w
        BY <2>3, <2>4, <3>1
      <3>2. CASE v # w
        BY <1>0, <2>3, <2>4, <2>5, <2>6, <3>2 DEF LeaseInv
      <3> QED BY <3>1, <3>2
    <2>7. ASSUME NEW v \in Workers, worker'[v].pc # "idle"
          PROVE  worker'[v].now <= now' /\ now' <= worker'[v].now + LeaseMs
      BY <1>0, <2>3, <2>7 DEF LeaseInv
    <2>8. OneExecutor'
      <3> SUFFICES ASSUME NEW u \in Workers, NEW v \in Workers, u # v,
                          Executing(u)', Executing(v)',
                          worker'[u].run = worker'[v].run
                   PROVE  FALSE
        BY DEF OneExecutor
      <3>1. CASE u = w
        BY <2>3, <2>5, <3>1
      <3>2. CASE v = w
        BY <2>3, <2>5, <3>2
      <3>3. CASE u # w /\ v # w
        BY <2>3, <2>5, <3>3 DEF LeaseInv, OneExecutor
      <3> QED BY <3>1, <3>2, <3>3
    <2> QED BY <2>6, <2>7, <2>8 DEF LeaseInv
  <1> QED BY <1>1, <1>2 DEF ClaimTake

\* The body's statements write no claimed_at, and neither do faults.
LEMMA BodyKeepsLease ==
  ASSUME TypeInv, TypeInv', LeaseInv, ~LostReplies, NEW w \in Workers,
         BodyStep(w) \/ StatementFails(w) \/ Crash(w)
  PROVE  LeaseInv'
  <1> USE DEF tables
  <1> DEFINE s == worker[w]
             r == worker[w].run
  <1>0. /\ s \in WorkerState /\ r \in Runs /\ runs[r] \in RunRow
        /\ worker' \in [Workers -> WorkerState]
        /\ worker \in [Workers -> WorkerState]
        /\ now \in Nat
    BY TypeFacts, TimeFacts DEF WorkerState, TypeInv, TypeOK
  <1>1. ASSUME s.pc \in BodyPcs, NEW next, next.run = r, next.now = s.now,
               worker' = [worker EXCEPT ![w] = next],
               \A q \in Runs : runs'[q].claimed = runs[q].claimed, now' = now
        PROVE  LeaseInv'
    <2>1. next \in WorkerState
      BY <1>0, <1>1
    <2>2. Executing(w) /\ s.pc # "idle"
      BY <1>1 DEF Executing, BodyPcs
    <2>3. next.now <= now /\ now <= next.now + LeaseMs
      BY <1>1, <2>2 DEF LeaseInv
    <2> QED BY <1>1, <2>1, <2>2, <2>3, MoveKeepsLease
  <1>2. ASSUME NEW pc PROVE Step(w, pc).run = r /\ Step(w, pc).now = s.now
    BY <1>0 DEF Step, WorkerState
  <1>3. NextOp(w).run = r /\ NextOp(w).now = s.now
    BY <1>0 DEF NextOp, WorkerState
  <1>4. s.pc \in BodyPcs => AfterError(w).run = r /\ AfterError(w).now = s.now
    BY <1>0 DEF AfterError, WorkerState
  <1>5. CASE ReadJournal(w)
    <2>1. s.pc \in BodyPcs /\ runs' = runs /\ now' = now
      BY <1>5 DEF ReadJournal, InBody, BodyPcs
    <2>2. CASE Goto(w, NextOp(w))
      BY <1>1, <1>3, <2>1, <2>2 DEF Goto
    <2>3. CASE Goto(w, Step(w, "run"))
      BY <1>1, <1>2, <2>1, <2>3 DEF Goto
    <2>4. CASE Goto(w, [s EXCEPT !.pc = "journal",
                                 !.val = AtMost(MaxTime, now + Op(w).ms)])
      <3> DEFINE next == [s EXCEPT !.pc = "journal",
                                   !.val = AtMost(MaxTime, now + Op(w).ms)]
      <3>1. next.run = r /\ next.now = s.now
        BY <1>0 DEF WorkerState
      <3>2. worker' = [worker EXCEPT ![w] = next]
        BY <2>4 DEF Goto
      <3> HIDE DEF next
      <3> QED BY <1>1, <2>1, <3>1, <3>2
    <2> QED BY <1>5, <2>2, <2>3, <2>4 DEF ReadJournal
  <1>6. CASE RunTask(w)
    <2> DEFINE n == AtMost(CounterCap, ran[r][Op(w).id] + 1)
               next == [s EXCEPT !.pc = "journal", !.val = n]
    <2>1. s.pc \in BodyPcs /\ runs' = runs /\ now' = now
      BY <1>6 DEF RunTask, BodyPcs
    <2>2. next.run = r /\ next.now = s.now
      BY <1>0 DEF WorkerState
    <2>3. worker' = [worker EXCEPT ![w] = next]
      BY <1>6 DEF RunTask, Goto
    <2> HIDE DEF next
    <2> QED BY <1>1, <2>1, <2>2, <2>3
  <1>7. CASE BodyFails(w)
    BY <1>1, <1>4, <1>7 DEF BodyFails, Goto, BodyPcs
  <1>8. CASE WriteJournal(w)
    <2>1. s.pc \in BodyPcs /\ runs' = runs /\ now' = now
      BY <1>8 DEF WriteJournal, BodyPcs
    <2>2. CASE Goto(w, NextOp(w))
      BY <1>1, <1>3, <2>1, <2>2 DEF Goto
    <2>3. CASE Goto(w, Step(w, "setWake"))
      BY <1>1, <1>2, <2>1, <2>3 DEF Goto
    <2> QED BY <1>8, <2>2, <2>3 DEF WriteJournal, Reply
  <1>9. CASE SetWake(w)
    <2> DEFINE row == [runs[r] EXCEPT !.wake = s.val, !.updated = now]
               next == [s EXCEPT !.pc = "releaseLease", !.val = 0]
    <2>1. s.pc \in BodyPcs /\ now' = now
      BY <1>9 DEF SetWake, BodyPcs
    <2>2. next.run = r /\ next.now = s.now
      BY <1>0 DEF WorkerState
    <2>3. worker' = [worker EXCEPT ![w] = next] /\ Update(r, row)
      BY <1>9 DEF SetWake, Reply, Goto
    <2>4. row.claimed = runs[r].claimed
      BY <1>0 DEF RunRow
    <2> HIDE DEF next, row
    <2>5. \A q \in Runs : runs'[q].claimed = runs[q].claimed
      BY <1>0, <2>3, <2>4 DEF Update, TypeInv, TypeOK
    <2> QED BY <1>1, <2>1, <2>2, <2>3, <2>5
  <1>10. CASE AwaitSignal(w)
    <2>1. s.pc \in BodyPcs /\ runs' = runs /\ now' = now
      BY <1>10 DEF AwaitSignal, InBody, BodyPcs
    <2>2. CASE Goto(w, NextOp(w))
      BY <1>1, <1>3, <2>1, <2>2 DEF Goto
    <2>3. CASE Goto(w, Step(w, "setWaiting"))
      BY <1>1, <1>2, <2>1, <2>3 DEF Goto
    <2> QED BY <1>10, <2>2, <2>3 DEF AwaitSignal
  <1>11. CASE SetWaitingSignal(w)
    <2> DEFINE row == [runs[r] EXCEPT !.status = "waiting", !.waiting = Op(w).id,
                                      !.wake = FarFuture, !.updated = now]
    <2>1. s.pc \in BodyPcs /\ now' = now
      BY <1>11 DEF SetWaitingSignal, BodyPcs
    <2>2. worker' = [worker EXCEPT ![w] = Step(w, "releaseLease")] /\ Update(r, row)
      BY <1>11 DEF SetWaitingSignal, Reply, Goto
    <2>3. row.claimed = runs[r].claimed
      BY <1>0 DEF RunRow
    <2> HIDE DEF row
    <2>4. \A q \in Runs : runs'[q].claimed = runs[q].claimed
      BY <1>0, <2>2, <2>3 DEF Update, TypeInv, TypeOK
    <2> QED BY <1>1, <1>2, <2>1, <2>2, <2>4
  <1>12. CASE StatementFails(w) \/ Crash(w)
    <2>1. runs' = runs /\ now' = now
      BY <1>12 DEF StatementFails, Crash
    <2>2. CASE s.pc \in BodyPcs /\ worker' = [worker EXCEPT ![w] = AfterError(w)]
      BY <1>1, <1>4, <2>1, <2>2
    <2>3. CASE worker' = [worker EXCEPT ![w] = Idle]
      <3>1. "idle" \notin ExecutingPcs
        BY DEF ExecutingPcs, BodyPcs, SettlePcs
      <3> QED BY <2>1, <2>3, <3>1, IdleType, MoveKeepsLease
    <2> QED BY <1>12, <2>2, <2>3 DEF StatementFails, Crash, Fault, AfterError
  <1> QED
    BY <1>5, <1>6, <1>7, <1>8, <1>9, <1>10, <1>11, <1>12 DEF BodyStep

\* The statements that end a poll free the claim of the one poller that holds it.
LEMMA SettleKeepsLease ==
  ASSUME TypeInv, LeaseInv, ~LostReplies, NEW w \in Workers, SettleStep(w)
  PROVE  LeaseInv'
  <1> DEFINE r == worker[w].run
  <1>1. PICK status : Settle(w, status)
    BY DEF SettleStep, MarkDone, MarkFailed, MarkDead, ParkForVersion, ReleaseLease
  <1>2. Executing(w)
    BY DEF SettleStep, MarkDone, MarkFailed, MarkDead, ParkForVersion,
           ReleaseLease, Executing, BodyPcs, SettlePcs
  <1>3. now' = now /\ \A q \in Runs : q # r => runs'[q] = runs[q]
    BY <1>1 DEF Settle, Update, TypeInv, TypeOK
  <1>4. worker' = [worker EXCEPT ![w] = Idle]
    BY <1>1 DEF Settle, Reply, Goto
  <1>5. /\ worker'[w].pc = "idle" /\ ~Executing(w)'
        /\ \A v \in Workers : v # w => worker'[v] = worker[v]
        /\ \A v \in Workers : worker[v].run \in Runs
    BY <1>4, IdleType DEF TypeInv, TypeOK, WorkerState, Executing, BodyPcs, SettlePcs
  <1>6. ASSUME NEW v \in Workers, Executing(v)'
        PROVE  v # w /\ Executing(v) /\ worker[v].run # r
    BY <1>2, <1>5, <1>6 DEF LeaseInv, OneExecutor, Executing
  <1>7. ASSUME NEW v \in Workers, Executing(v)'
        PROVE  runs'[worker'[v].run].claimed = worker'[v].now
    BY <1>3, <1>5, <1>6, <1>7 DEF LeaseInv
  <1>8. ASSUME NEW v \in Workers, worker'[v].pc # "idle"
        PROVE  worker'[v].now <= now' /\ now' <= worker'[v].now + LeaseMs
    BY <1>3, <1>5, <1>8 DEF LeaseInv
  <1>9. OneExecutor'
    BY <1>5, <1>6 DEF LeaseInv, OneExecutor
  <1> QED BY <1>7, <1>8, <1>9 DEF LeaseInv

LEMMA LeaseStep ==
  ASSUME Punctual, ~LostReplies
  PROVE  TypeInv /\ LeaseInv /\ [Next]_vars => LeaseInv'
  <1> SUFFICES ASSUME TypeInv, LeaseInv, [Next]_vars PROVE LeaseInv'
    OBVIOUS
  <1>0. TypeInv'
    BY TypeStep
  <1>1. CASE \/ \E r \in Runs : Start(r)
             \/ \E p \in Pairs : SignalInsert(p) \/ SignalWake(p) \/ SignalFails(p)
             \/ Compact
             \/ Tick
    BY <1>1, CallerKeepsLease
  <1>2. ASSUME NEW w \in Workers, WorkerStep(w) PROVE LeaseInv'
    BY <1>0, <1>2, SelectKeepsLease, TakeKeepsLease, BodyKeepsLease,
       SettleKeepsLease DEF WorkerStep
  <1>3. ASSUME NEW w \in Workers, StatementFails(w) \/ Crash(w) PROVE LeaseInv'
    BY <1>0, <1>3, BodyKeepsLease
  <1>4. CASE UNCHANGED vars
    BY <1>4 DEF vars, tables, LeaseInv, OneExecutor, Executing
  <1> QED BY <1>1, <1>2, <1>3, <1>4 DEF Next

\* claim is correct: its SELECT and its guarded UPDATE are two statements, yet no
\* two pollers ever execute the same run, as long as a poll ends within its
\* lease and a write that took effect is not reported as failed.
THEOREM ClaimExcludes ==
  ASSUME Punctual, ~LostReplies
  PROVE  Spec => []OneExecutor
  <1>1. Init => TypeInv /\ LeaseInv
    BY InitType, LeaseInit
  <1>2. TypeInv /\ LeaseInv /\ [Next]_vars => TypeInv' /\ LeaseInv'
    BY TypeStep, LeaseStep
  <1>3. LeaseInv => OneExecutor
    BY DEF LeaseInv
  <1> QED BY <1>1, <1>2, <1>3, PTL DEF Spec
=============================================================================
