------------------------- MODULE DurableBodyProofs -------------------------
(***************************************************************************)
(* Theorems about what bodies of Durable do: the order and the number of   *)
(* effects, the journal, and who settles a run.                            *)
(*                                                                         *)
(* Every statement of a poller has one of the shapes below (StepShape); an *)
(* invariant is then preserved shape by shape.                             *)
(***************************************************************************)
EXTENDS DurableProofs

Here(w) == worker[w]
Then(w) == worker'[w]

\* The poller goes on with the same claim.
Stays(w) == Then(w).run = Here(w).run /\ Then(w).now = Here(w).now
StaysAt(w) == Stays(w) /\ Then(w).ip = Here(w).ip
GoesOn(w) == Stays(w) /\ Then(w).ip = Here(w).ip + 1 /\ Then(w).pc = "body"

\* An error: in the body it leads to markFailed, elsewhere it ends the poll.
Errs(w) ==
    \/ Then(w).pc = "idle"
    \/ Here(w).pc \in BodyPcs /\ Then(w).pc = "markFailed" /\ Stays(w)
LostReply(w) == LostReplies /\ faults' = faults + 1 /\ Errs(w)

OtherRows(r) == \A q \in Runs : q # r => runs'[q] = runs[q]

Begins(w) ==
    /\ Here(w).pc = "idle" /\ Then(w).pc = "select"
    /\ Then(w).ip = 1 /\ Then(w).now = now
    /\ UNCHANGED <<tables, history, faults>>

Selects(w) ==
    /\ Here(w).pc = "select" /\ Then(w).pc = "take"
    /\ Then(w).ip = Here(w).ip /\ Then(w).now = Here(w).now
    /\ runs[Then(w).run].status \in Claimable
    /\ UNCHANGED <<tables, history, faults>>

Stops(w) ==
    /\ Here(w).pc # "idle" /\ Errs(w)
    /\ faults' = faults \/ faults' = faults + 1
    /\ Here(w).pc = "journal" => faults' = faults + 1
    /\ UNCHANGED <<tables, history>>

Takes(w) ==
    /\ Here(w).pc = "take" /\ Free(Here(w).run, Here(w).now)
    /\ runs'[Here(w).run].status = "running" /\ OtherRows(Here(w).run)
    /\ UNCHANGED <<journal, signals, history>>
    /\ \/ faults' = faults /\ StaysAt(w) /\ Then(w).pc = Advance(w, Here(w).run)
       \/ LostReply(w)

Passes(w) ==
    /\ InBody(w) /\ GoesOn(w)
    /\ \/ Op(w).kind = "await" /\ Delivered(w)
       \/ Op(w).kind # "await" /\ Journalled(w)
    /\ UNCHANGED <<tables, history, faults>>

Reaches(w) ==
    /\ InBody(w) /\ StaysAt(w)
    /\ \/ Then(w).pc = "run" /\ Op(w).kind = "step" /\ ~Journalled(w)
       \/ Then(w).pc = "journal" /\ Op(w).kind = "sleep" /\ ~Journalled(w)
       \/ Then(w).pc = "setWaiting" /\ Op(w).kind = "await"
    /\ UNCHANGED <<tables, history, faults>>

Performs(w) ==
    /\ Here(w).pc = "run" /\ Then(w).pc = "journal" /\ StaysAt(w)
    /\ Op(w).kind = "step"
    /\ ran'[Here(w).run][Op(w).id] \in Nat \ {0}
    /\ ran'[Here(w).run][Op(w).id] <= ran[Here(w).run][Op(w).id] + 1
    /\ \A r \in Runs, k \in StepIds :
          r # Here(w).run \/ k # Op(w).id => ran'[r][k] = ran[r][k]
    /\ UNCHANGED <<tables, sent, faults>>

Records(w) ==
    /\ Here(w).pc = "journal"
    /\ journal'[Here(w).run][Op(w).id]
          = Recorded(journal[Here(w).run][Op(w).id], Here(w).val)
    /\ \A r \in Runs, k \in StepIds :
          r # Here(w).run \/ k # Op(w).id => journal'[r][k] = journal[r][k]
    /\ UNCHANGED <<runs, signals, history>>
    /\ \/ faults' = faults /\ Op(w).kind = "step" /\ GoesOn(w)
       \/ faults' = faults /\ Op(w).kind # "step" /\ Then(w).pc = "setWake" /\ StaysAt(w)
       \/ LostReply(w)

Suspends(w) ==
    /\ Here(w).pc \in {"setWake", "setWaiting"}
    /\ \/ runs'[Here(w).run].status = runs[Here(w).run].status
       \/ runs'[Here(w).run].status = "waiting"
    /\ OtherRows(Here(w).run)
    /\ UNCHANGED <<journal, signals, history>>
    /\ \/ faults' = faults /\ Then(w).pc = "releaseLease" /\ Stays(w)
       \/ LostReply(w)

\* The status a settling statement writes.
SettlesAs(w, status) ==
    \/ /\ Here(w).pc = "body" /\ Here(w).ip > Len(Body[Here(w).run])
       /\ status = "done"
    \/ Here(w).pc = "markFailed" /\ status = "failed"
    \/ Here(w).pc = "markDead" /\ status = "dead"
    \/ Here(w).pc = "parkForVersion" /\ status = "waiting"
    \/ Here(w).pc = "releaseLease" /\ status = runs[Here(w).run].status

Settles(w) ==
    /\ SettlesAs(w, runs'[Here(w).run].status)
    /\ runs'[Here(w).run].updated = now /\ OtherRows(Here(w).run)
    /\ UNCHANGED <<journal, signals, history>>
    /\ \/ faults' = faults /\ Then(w).pc = "idle"
       \/ LostReply(w)

\* The rest of the state, while the poller w takes a step.
Alone(w) ==
    /\ \A v \in Workers : v # w => worker'[v] = worker[v]
    /\ UNCHANGED <<now, sender, compactor>>

Shape(w) ==
    \/ Begins(w) \/ Selects(w) \/ Stops(w) \/ Takes(w) \/ Passes(w) \/ Reaches(w)
    \/ Performs(w) \/ Records(w) \/ Suspends(w) \/ Settles(w)

-----------------------------------------------------------------------------
LEMMA ErrorShape ==
  ASSUME TypeInv, NEW w \in Workers, worker' = [worker EXCEPT ![w] = AfterError(w)]
  PROVE  Errs(w)
  <1>1. Here(w) \in WorkerState /\ Then(w) = AfterError(w)
    BY DEF TypeInv, TypeOK, Here, Then
  <1> QED BY <1>1, IdleType DEF AfterError, Errs, Stays, Here, WorkerState

\* Where a reply takes its poller.
LEMMA ReplyShape ==
  ASSUME TypeInv, NEW w \in Workers, NEW next, Reply(w, next)
  PROVE  /\ \A v \in Workers : v # w => worker'[v] = worker[v]
         /\ (faults' = faults /\ Then(w) = next) \/ LostReply(w)
  <1>1. worker \in [Workers -> WorkerState]
    BY DEF TypeInv, TypeOK
  <1>2. CASE Goto(w, next)
    BY <1>1, <1>2 DEF Goto, Then
  <1>3. CASE LostReplies /\ Fault(w, AfterError(w))
    BY <1>1, <1>3, ErrorShape DEF Fault, LostReply
  <1> QED BY <1>2, <1>3 DEF Reply

LEMMA GotoShape ==
  ASSUME TypeInv, NEW w \in Workers, NEW next, Goto(w, next)
  PROVE  /\ \A v \in Workers : v # w => worker'[v] = worker[v]
         /\ faults' = faults /\ Then(w) = next
  BY DEF TypeInv, TypeOK, Goto, Then

LEMMA UpdateShape ==
  ASSUME TypeInv, NEW r \in Runs, NEW row, Update(r, row)
  PROVE  runs'[r] = row /\ OtherRows(r)
  BY DEF TypeInv, TypeOK, Update, OtherRows

LEMMA HereFacts ==
  ASSUME TypeInv, NEW w \in Workers
  PROVE  /\ Here(w) \in WorkerState /\ Here(w).run \in Runs /\ Here(w).now \in Nat
         /\ Here(w).ip \in Nat \ {0} /\ Here(w).val \in Nat
         /\ runs[Here(w).run] \in RunRow /\ Good(Here(w))
         /\ Op(w) = OpAt(Here(w))
  BY TypeFacts, TimeFacts DEF Here, WorkerState, Op, OpAt

\* The moves within a body.
LEMMA MoveShape ==
  ASSUME TypeInv, NEW w \in Workers
  PROVE  /\ Then(w) = NextOp(w) => GoesOn(w)
         /\ \A pc \in Pcs : Then(w) = Step(w, pc) => StaysAt(w) /\ Then(w).pc = pc
         /\ \A pc \in Pcs : \A n \in Nat :
               Then(w) = [worker[w] EXCEPT !.pc = pc, !.val = n]
                 => StaysAt(w) /\ Then(w).pc = pc
  BY HereFacts DEF Here, NextOp, GoesOn, Step, StaysAt, Stays, WorkerState

LEMMA ClaimShape ==
  ASSUME TypeInv, NEW w \in Workers, Poll(w) \/ ClaimSelect(w) \/ ClaimTake(w)
  PROVE  Alone(w) /\ Shape(w)
  <1> USE HereFacts, IdleType DEF Alone, Here, Shape
  <1>1. CASE Poll(w)
    <2>1. Then(w) = [Idle EXCEPT !.pc = "select", !.now = now] /\ faults' = faults
      BY <1>1, GotoShape DEF Poll
    <2>2. Begins(w)
      BY <1>1, <2>1 DEF Poll, Begins, Idle
    <2> QED BY <1>1, <2>2, GotoShape DEF Poll
  <1>2. CASE ClaimSelect(w)
    <2>1. CASE Goto(w, Idle)
      BY <1>2, <2>1, GotoShape DEF ClaimSelect, Stops, Errs
    <2>2. ASSUME NEW r \in Due(worker[w].now),
                 Goto(w, [worker[w] EXCEPT !.pc = "take", !.run = r])
          PROVE  Alone(w) /\ Selects(w)
      <3>1. Then(w) = [worker[w] EXCEPT !.pc = "take", !.run = r] /\ faults' = faults
        BY <2>2, GotoShape
      <3>2. Then(w).pc = "take" /\ Then(w).run = r /\ Then(w).ip = Here(w).ip
            /\ Then(w).now = Here(w).now
        BY <3>1 DEF WorkerState
      <3> QED BY <1>2, <2>2, <3>1, <3>2, GotoShape DEF ClaimSelect, Selects, Due
    <2> QED BY <1>2, <2>1, <2>2 DEF ClaimSelect
  <1>3. CASE ClaimTake(w)
    <2> DEFINE r == worker[w].run
               t == worker[w].now
               row == [runs[r] EXCEPT !.claimed = t, !.updated = t,
                         !.status = "running",
                         !.attempts = AtMost(CounterCap, @ + 1)]
    <2>1. CASE Free(r, t) /\ Update(r, row) /\ Reply(w, Step(w, Advance(w, r)))
      <3>1. row.status = "running"
        BY DEF RunRow
      <3> HIDE DEF row
      <3>2. runs'[r].status = "running" /\ OtherRows(r)
        BY <2>1, <3>1, UpdateShape
      <3>3. Advance(w, r) \in Pcs
        BY DEF Advance, Pcs, BodyPcs, SettlePcs
      <3>4. /\ \A v \in Workers : v # w => worker'[v] = worker[v]
            /\ \/ faults' = faults /\ Then(w) = Step(w, Advance(w, r))
               \/ LostReply(w)
        BY <2>1, ReplyShape
      <3>5. \/ faults' = faults /\ StaysAt(w) /\ Then(w).pc = Advance(w, r)
            \/ LostReply(w)
        BY <3>3, <3>4, MoveShape
      <3> QED BY <1>3, <2>1, <3>2, <3>4, <3>5 DEF ClaimTake, Takes
    <2>2. CASE Goto(w, Idle) /\ UNCHANGED runs
      BY <1>3, <2>2, GotoShape DEF ClaimTake, Stops, Errs, tables
    <2> QED BY <1>3, <2>1, <2>2 DEF ClaimTake
  <1> QED BY <1>1, <1>2, <1>3

LEMMA BodyShape ==
  ASSUME TypeInv, NEW w \in Workers, BodyStep(w)
  PROVE  Alone(w) /\ Shape(w)
  <1> USE HereFacts DEF Alone, Shape, Here
  <1> DEFINE r == worker[w].run
  <1>0. /\ \A pc \in BodyPcs \cup SettlePcs : pc \in Pcs
        /\ {"body", "run", "journal", "setWake", "setWaiting"} = BodyPcs
        /\ {"markFailed", "releaseLease"} \subseteq SettlePcs
    BY DEF Pcs, BodyPcs, SettlePcs
  <1>1. CASE ReadJournal(w)
    <2>1. CASE Journalled(w) /\ Goto(w, NextOp(w))
      BY <1>1, <2>1, GotoShape, MoveShape DEF ReadJournal, Passes
    <2>2. CASE ~Journalled(w) /\ Op(w).kind = "step" /\ Goto(w, Step(w, "run"))
      BY <1>0, <1>1, <2>2, GotoShape, MoveShape DEF ReadJournal, Reaches
    <2>3. CASE /\ ~Journalled(w) /\ Op(w).kind = "sleep"
               /\ Goto(w, [worker[w] EXCEPT !.pc = "journal",
                                       !.val = AtMost(MaxTime, now + Op(w).ms)])
      <3>1. Then(w) = [worker[w] EXCEPT !.pc = "journal",
                                       !.val = AtMost(MaxTime, now + Op(w).ms)]
        BY <2>3, GotoShape
      <3>2. StaysAt(w) /\ Then(w).pc = "journal"
        BY <3>1 DEF WorkerState, StaysAt, Stays
      <3> QED BY <1>1, <2>3, <3>2, GotoShape DEF ReadJournal, Reaches
    <2> QED BY <1>1, <2>1, <2>2, <2>3 DEF ReadJournal
  <1>2. CASE RunTask(w)
    <2> DEFINE k == Op(w).id
               n == AtMost(CounterCap, ran[r][k] + 1)
    <2>1. Op(w).kind = "step" /\ k \in StepIds
      BY <1>2, OpType DEF RunTask, Good, OpAt
    <2>2. /\ ran \in [Runs -> [StepIds -> 0 .. CounterCap]]
          /\ CounterCap \in Nat \ {0} /\ ran[r][k] \in Nat
      BY <2>1, DurableAssumption DEF TypeInv, TypeOK
    <2>3. n \in Nat \ {0} /\ n <= ran[r][k] + 1
      BY <2>2 DEF AtMost
    <2>4. ran' = [ran EXCEPT ![r][k] = n]
      BY <1>2 DEF RunTask
    <2>5. Then(w) = [worker[w] EXCEPT !.pc = "journal", !.val = n] /\ faults' = faults
      BY <1>2, GotoShape DEF RunTask
    <2>6. StaysAt(w) /\ Then(w).pc = "journal"
      BY <2>5 DEF WorkerState, StaysAt, Stays
    <2> HIDE DEF n, k
    <2>7. /\ ran'[r][k] = n
          /\ \A q \in Runs, j \in StepIds : q # r \/ j # k => ran'[q][j] = ran[q][j]
      BY <2>1, <2>2, <2>4
    <2>8. /\ ran'[r][k] \in Nat \ {0} /\ ran'[r][k] <= ran[r][k] + 1
      BY <2>3, <2>7
    <2>9. Performs(w)
      BY <1>2, <2>1, <2>5, <2>6, <2>7, <2>8 DEF RunTask, Performs, k
    <2> QED BY <1>2, <2>9, GotoShape DEF RunTask
  <1>3. CASE BodyFails(w)
    <2>1. Errs(w)
      BY <1>3, ErrorShape DEF BodyFails, Goto
    <2> QED BY <1>3, <2>1, GotoShape DEF BodyFails, Stops
  <1>4. CASE WriteJournal(w)
    <2> DEFINE k == Op(w).id
               new == Recorded(journal[r][k], worker[w].val)
               next == IF Op(w).kind = "step" THEN NextOp(w) ELSE Step(w, "setWake")
    <2>1. k \in StepIds
      BY <1>4, OpType DEF WriteJournal, Good, OpAt
    <2>2. journal \in [Runs -> [StepIds -> Nat \cup {None}]]
      BY DEF TypeInv, TypeOK
    <2>3. journal' = [journal EXCEPT ![r][k] = new]
      BY <1>4 DEF WriteJournal
    <2>4. /\ journal'[r][k] = new
          /\ \A q \in Runs, j \in StepIds : q # r \/ j # k => journal'[q][j] = journal[q][j]
      <3> HIDE DEF new, k
      <3> QED BY <2>1, <2>2, <2>3
    <2>5. Reply(w, next)
      BY <1>4 DEF WriteJournal
    <2>6. /\ \A v \in Workers : v # w => worker'[v] = worker[v]
          /\ (faults' = faults /\ Then(w) = next) \/ LostReply(w)
      <3> HIDE DEF next
      <3> QED BY <2>5, ReplyShape
    <2>7. \/ faults' = faults /\ Op(w).kind = "step" /\ GoesOn(w)
          \/ faults' = faults /\ Op(w).kind # "step" /\ Then(w).pc = "setWake" /\ StaysAt(w)
          \/ LostReply(w)
      BY <1>0, <2>6, MoveShape
    <2> QED BY <1>4, <2>4, <2>6, <2>7 DEF WriteJournal, Records
  <1>5. CASE SetWake(w)
    <2> DEFINE row == [runs[r] EXCEPT !.wake = worker[w].val, !.updated = now]
               next == [worker[w] EXCEPT !.pc = "releaseLease", !.val = 0]
    <2>1. row.status = runs[r].status
      BY DEF RunRow
    <2>2. next.pc = "releaseLease" /\ next.run = r /\ next.now = worker[w].now
      BY DEF WorkerState
    <2>3. Update(r, row) /\ Reply(w, next)
      BY <1>5 DEF SetWake
    <2> HIDE DEF row, next
    <2>4. runs'[r].status = runs[r].status /\ OtherRows(r)
      BY <2>1, <2>3, UpdateShape
    <2>5. /\ \A v \in Workers : v # w => worker'[v] = worker[v]
          /\ \/ faults' = faults /\ Then(w).pc = "releaseLease" /\ Stays(w)
             \/ LostReply(w)
      BY <2>2, <2>3, ReplyShape DEF Stays
    <2> QED BY <1>5, <2>4, <2>5 DEF SetWake, Suspends
  <1>6. CASE AwaitSignal(w)
    <2>1. CASE Delivered(w) /\ Goto(w, NextOp(w))
      BY <1>6, <2>1, GotoShape, MoveShape DEF AwaitSignal, Passes
    <2>2. CASE Goto(w, Step(w, "setWaiting"))
      <3>1. StaysAt(w) /\ Then(w).pc = "setWaiting"
        BY <1>0, <2>2, GotoShape, MoveShape
      <3> QED BY <1>6, <2>2, <3>1, GotoShape DEF AwaitSignal, Reaches
    <2> QED BY <1>6, <2>1, <2>2 DEF AwaitSignal
  <1>7. CASE SetWaitingSignal(w)
    <2> DEFINE row == [runs[r] EXCEPT !.status = "waiting", !.waiting = Op(w).id,
                                      !.wake = FarFuture, !.updated = now]
               next == Step(w, "releaseLease")
    <2>1. row.status = "waiting"
      BY DEF RunRow
    <2>3. Update(r, row) /\ Reply(w, next)
      BY <1>7 DEF SetWaitingSignal
    <2> HIDE DEF row
    <2>4. runs'[r].status = "waiting" /\ OtherRows(r)
      BY <2>1, <2>3, UpdateShape
    <2>5. /\ \A v \in Workers : v # w => worker'[v] = worker[v]
          /\ (faults' = faults /\ Then(w) = next) \/ LostReply(w)
      BY <2>3, ReplyShape
    <2>6. \/ faults' = faults /\ Then(w).pc = "releaseLease" /\ Stays(w)
          \/ LostReply(w)
      BY <1>0, <2>5, MoveShape DEF StaysAt
    <2> QED BY <1>7, <2>4, <2>5, <2>6 DEF SetWaitingSignal, Suspends
  <1> QED
    BY <1>1, <1>2, <1>3, <1>4, <1>5, <1>6, <1>7 DEF BodyStep

LEMMA SettleShape ==
  ASSUME TypeInv, NEW w \in Workers, SettleStep(w)
  PROVE  Alone(w) /\ Settles(w)
  <1> USE HereFacts, IdleType DEF Alone, Here
  <1> DEFINE r == worker[w].run
  <1>1. ASSUME NEW status, Settle(w, status), SettlesAs(w, status)
        PROVE  Alone(w) /\ Settles(w)
    <2> DEFINE row == [runs[r] EXCEPT !.status = status, !.claimed = None,
                                      !.updated = now]
    <2>1. row.status = status /\ row.updated = now
      BY DEF RunRow
    <2>2. Update(r, row) /\ Reply(w, Idle)
      BY <1>1 DEF Settle
    <2> HIDE DEF row
    <2>3. runs'[r].status = status /\ runs'[r].updated = now /\ OtherRows(r)
      BY <2>1, <2>2, UpdateShape
    <2>4. /\ \A v \in Workers : v # w => worker'[v] = worker[v]
          /\ \/ faults' = faults /\ Then(w).pc = "idle"
             \/ LostReply(w)
      BY <2>2, ReplyShape
    <2> QED BY <1>1, <2>3, <2>4 DEF Settle, Settles
  <1> QED BY <1>1 DEF SettleStep, MarkDone, MarkFailed, MarkDead, ParkForVersion,
                      ReleaseLease, SettlesAs

LEMMA FaultShape ==
  ASSUME TypeInv, NEW w \in Workers, StatementFails(w) \/ Crash(w)
  PROVE  Alone(w) /\ Stops(w)
  <1>1. worker \in [Workers -> WorkerState]
    BY DEF TypeInv, TypeOK
  <1>2. /\ \A v \in Workers : v # w => worker'[v] = worker[v]
        /\ Here(w).pc # "idle" /\ faults' = faults + 1
        /\ UNCHANGED <<now, tables, sender, compactor, history>>
    BY <1>1 DEF StatementFails, Crash, Fault, Here
  <1>3. Errs(w)
    BY <1>1, ErrorShape, IdleType DEF StatementFails, Crash, Fault, Errs, Then
  <1> QED BY <1>2, <1>3 DEF Alone, Stops

\* What a poller does in a step.
LEMMA StepShape ==
  ASSUME TypeInv, NEW w \in Workers, WorkerStep(w) \/ StatementFails(w) \/ Crash(w)
  PROVE  Alone(w) /\ Shape(w)
  BY ClaimShape, BodyShape, SettleShape, FaultShape DEF WorkerStep, Shape

\* Callers, compaction and the clock.
Caller ==
    \/ \E r \in Runs : Start(r)
    \/ \E p \in Pairs : SignalInsert(p) \/ SignalWake(p) \/ SignalFails(p)
    \/ Compact
    \/ Tick

\* They start runs and deliver signals; only compaction takes anything away,
\* and only from settled runs.
LEMMA CallerShape ==
  ASSUME TypeInv, Caller
  PROVE  /\ worker' = worker /\ ran' = ran
         /\ faults' = faults \/ faults' = faults + 1
         /\ sent \subseteq sent' /\ (signals \subseteq sent => signals' \subseteq sent')
         /\ \A r \in Runs : \/ runs'[r].status = runs[r].status
                            \/ runs[r].status = "absent" /\ runs'[r].status = "running"
         /\ \A r \in Runs, k \in StepIds :
               \/ journal'[r][k] = journal[r][k]
               \/ journal'[r][k] = None /\ runs[r].status \in Terminal
         /\ \A p \in signals : p \in signals' \/ runs[p[1]].status \in Terminal
  <1> USE DEF tables, history
  <1>0. \A r \in Runs : runs[r] \in RunRow
    BY TypeFacts
  <1>1. ASSUME NEW r \in Runs, Start(r)
        PROVE  \A q \in Runs : \/ runs'[q].status = runs[q].status
                               \/ runs[q].status = "absent" /\ runs'[q].status = "running"
    <2> DEFINE row == [runs[r] EXCEPT !.status = "running", !.wake = now,
                                      !.updated = now]
    <2>1. row.status = "running"
      BY <1>0 DEF RunRow
    <2>2. runs[r].status = "absent" /\ Update(r, row)
      BY <1>1 DEF Start
    <2> HIDE DEF row
    <2> QED BY <2>1, <2>2, UpdateShape DEF OtherRows
  <1>2. ASSUME NEW p \in Pairs, SignalWake(p)
        PROVE  \A q \in Runs : runs'[q].status = runs[q].status
    <2> DEFINE row == [runs[p[1]] EXCEPT !.wake = sender[p],
                          !.waiting = NoSignal, !.updated = sender[p]]
    <2>1. p[1] \in Runs
      BY DEF Pairs
    <2>2. row.status = runs[p[1]].status
      BY <1>0, <2>1 DEF RunRow
    <2>3. UNCHANGED runs \/ Update(p[1], row)
      BY <1>2 DEF SignalWake
    <2> HIDE DEF row
    <2> QED BY <2>1, <2>2, <2>3, UpdateShape DEF OtherRows
  <1>3. CASE \E r \in Runs : Start(r)
    BY <1>1, <1>3 DEF Start
  <1>4. CASE \E p \in Pairs : SignalWake(p)
    BY <1>2, <1>4 DEF SignalWake
  <1>5. CASE \E p \in Pairs : SignalInsert(p) \/ SignalFails(p)
    BY <1>5 DEF SignalInsert, SignalFails
  <1>6. CASE CompactJournal
    <2>1. \A r \in Runs, k \in StepIds :
               \/ journal'[r][k] = journal[r][k]
               \/ journal'[r][k] = None /\ runs[r].status \in Terminal
      BY <1>6 DEF CompactJournal, TerminalOlderThan
    <2> QED BY <1>6, <2>1 DEF CompactJournal
  <1>7. CASE CompactSignals
    BY <1>7 DEF CompactSignals, TerminalOlderThan
  <1>8. CASE CompactBegin \/ CompactFails \/ Tick
    BY <1>8 DEF CompactBegin, CompactFails, Tick
  <1> QED BY <1>3, <1>4, <1>5, <1>6, <1>7, <1>8 DEF Caller, Compact

\* A step is one of a caller's or one of a poller's.
LEMMA StepCases ==
  ASSUME [Next]_vars
  PROVE  \/ Caller
         \/ \E w \in Workers : WorkerStep(w) \/ StatementFails(w) \/ Crash(w)
         \/ UNCHANGED vars
  BY DEF Next, Caller

-----------------------------------------------------------------------------
\* WHERE A POLLER STANDS, AND BY WHAT RIGHT

\* A poller enters a body at its top and leaves it at most one past its end.
AtTop(s) ==
    /\ s.pc \in {"select", "take"} => s.ip = 1
    /\ s.pc \in BodyPcs => s.ip <= Len(Body[s.run]) + 1

\* What the definitions passed to poll say of the run a poller executes.
Entitled(w, s) ==
    /\ s.pc \in BodyPcs => HasDef(w, s.run)
    /\ s.pc = "markDead" => ~AnyNamed(w, s.run)
    /\ s.pc = "markFailed" => HasDef(w, s.run) \/ Policy[w] = "FailSafe"

CodeInv == \A w \in Workers : AtTop(worker[w]) /\ Entitled(w, worker[w])

LEMMA CodeInit == Init => CodeInv
  BY IdleType DEF Init, CodeInv, AtTop, Entitled, BodyPcs

LEMMA CodeStep ==
  ASSUME TypeInv, CodeInv, [Next]_vars
  PROVE  CodeInv'
  <1>1. CASE Caller
    BY <1>1, CallerShape DEF CodeInv
  <1>2. ASSUME NEW w \in Workers, WorkerStep(w) \/ StatementFails(w) \/ Crash(w)
        PROVE  CodeInv'
    <2>1. Alone(w) /\ Shape(w)
      BY <1>2, StepShape
    <2>2. /\ AtTop(Here(w)) /\ Entitled(w, Here(w)) /\ Good(Here(w))
          /\ Here(w).ip \in Nat \ {0} /\ Here(w).run \in Runs
          /\ Len(Body[Here(w).run]) \in Nat
      BY HereFacts, DurableAssumption DEF CodeInv, Here
    <2> USE DEF BodyPcs
    <2>3. AtTop(Then(w))
      <3> USE <2>2 DEF AtTop, Stays, StaysAt, GoesOn
      <3>0. Errs(w) => AtTop(Then(w))
        BY DEF Errs
      <3>1. CASE Begins(w) \/ Selects(w) \/ Stops(w)
        BY <3>0, <3>1 DEF Begins, Selects, Stops
      <3>2. CASE Takes(w)
        <4>1. Advance(w, Here(w).run) \in {"body", "markDead", "markFailed", "parkForVersion"}
          BY DEF Advance
        <4> QED BY <3>0, <3>2, <4>1 DEF Takes, LostReply
      <3>3. CASE Passes(w) \/ Reaches(w) \/ Performs(w)
        <4>1. CASE Passes(w)
          <5>1. /\ Here(w).ip <= Len(Body[Here(w).run]) /\ Then(w).run = Here(w).run
                /\ Then(w).ip = Here(w).ip + 1 /\ Then(w).pc = "body"
            BY <4>1 DEF Passes, InBody, Here
          <5> QED BY <5>1
        <4>2. CASE Reaches(w)
          <5>1. /\ Here(w).ip <= Len(Body[Here(w).run]) /\ Then(w).run = Here(w).run
                /\ Then(w).ip = Here(w).ip /\ Then(w).pc \in BodyPcs
            BY <4>2 DEF Reaches, InBody, Here
          <5> QED BY <5>1
        <4>3. CASE Performs(w)
          <5>1. /\ Here(w).pc \in BodyPcs /\ Then(w).run = Here(w).run
                /\ Then(w).ip = Here(w).ip /\ Then(w).pc \in BodyPcs
            BY <4>3 DEF Performs
          <5> QED BY <5>1
        <4> QED BY <3>3, <4>1, <4>2, <4>3
      <3>4. CASE Records(w)
        BY <3>0, <3>4 DEF Records, LostReply, Good
      <3>5. CASE Suspends(w) \/ Settles(w)
        BY <3>0, <3>5 DEF Suspends, Settles, LostReply
      <3> QED BY <2>1, <3>1, <3>2, <3>3, <3>4, <3>5 DEF Shape
    <2>4. Entitled(w, Then(w))
      <3> USE <2>2 DEF Entitled, Stays, StaysAt, GoesOn
      <3>0. Errs(w) => Entitled(w, Then(w))
        BY DEF Errs
      <3>1. CASE Begins(w) \/ Selects(w) \/ Stops(w)
        BY <3>0, <3>1 DEF Begins, Selects, Stops
      <3>2. CASE Takes(w)
        BY <3>0, <3>2 DEF Takes, LostReply, Advance
      <3>3. CASE Passes(w) \/ Reaches(w) \/ Performs(w)
        BY <3>3 DEF Passes, Reaches, Performs, InBody, Here
      <3>4. CASE Records(w)
        BY <3>0, <3>4 DEF Records, LostReply
      <3>5. CASE Suspends(w) \/ Settles(w)
        BY <3>0, <3>5 DEF Suspends, Settles, LostReply
      <3> QED BY <2>1, <3>1, <3>2, <3>3, <3>4, <3>5 DEF Shape
    <2> QED BY <2>1, <2>3, <2>4 DEF Alone, CodeInv, Then
  <1>3. CASE UNCHANGED vars
    BY <1>3 DEF vars, CodeInv
  <1> QED BY <1>1, <1>2, <1>3, StepCases

\* A poller settles only what it has code for, whatever its speed, with lost
\* replies and in any mix of old and new workers (advance, parkForVersion).
THEOREM VersionsKept == Spec => VersionsRespected
  <1>1. TypeInv /\ CodeInv /\ [Next]_vars =>
          [\A r \in Runs :
             runs[r].status \notin Terminal /\ runs'[r].status \in Terminal =>
               \E w \in Workers :
                 /\ Executing(w) /\ worker[w].run = r /\ worker'[w] # worker[w]
                 /\ runs'[r].status = "done" => Own(w, r) # {}
                 /\ runs'[r].status = "dead" => Named(w, r) = {}
                 /\ runs'[r].status = "failed" /\ Own(w, r) = {}
                      => Policy[w] = "FailSafe"]_vars
    <2> SUFFICES ASSUME TypeInv, CodeInv, [Next]_vars, NEW r \in Runs,
                        runs[r].status \notin Terminal, runs'[r].status \in Terminal
                 PROVE  \E w \in Workers :
                 /\ Executing(w) /\ worker[w].run = r /\ worker'[w] # worker[w]
                 /\ runs'[r].status = "done" => Own(w, r) # {}
                 /\ runs'[r].status = "dead" => Named(w, r) = {}
                 /\ runs'[r].status = "failed" /\ Own(w, r) = {}
                      => Policy[w] = "FailSafe"
      OBVIOUS
    <2>0. runs'[r].status # runs[r].status /\ runs'[r].status \notin {"running", "waiting"}
      BY DEF Terminal
    <2>1. PICK w \in Workers : WorkerStep(w) \/ StatementFails(w) \/ Crash(w)
      BY <2>0, StepCases, CallerShape DEF vars, tables
    <2>2. Shape(w)
      BY <2>1, StepShape
    <2>3. Settles(w) /\ Here(w).run = r
      BY <2>0, <2>2 DEF Shape, Begins, Selects, Stops, Takes, Passes, Reaches, Performs,
                        Records, Suspends, Settles, OtherRows, tables
    <2>4. Here(w).pc \in {"body", "markFailed", "markDead"} /\ Executing(w)
      BY <2>0, <2>3 DEF Settles, SettlesAs, Executing, Here, BodyPcs, SettlePcs
    <2>5. Then(w) # Here(w)
      BY <2>3, <2>4 DEF Settles, SettlesAs, LostReply, Errs, BodyPcs
    <2>6. Entitled(w, Here(w))
      BY DEF CodeInv, Here
    <2>7. /\ HasDef(w, r) => Own(w, r) # {}
          /\ ~AnyNamed(w, r) => Named(w, r) = {}
      BY DEF HasDef, Own, AnyNamed, Named
    <2>8. /\ runs'[r].status = "done" => HasDef(w, r)
          /\ runs'[r].status = "dead" => ~AnyNamed(w, r)
          /\ runs'[r].status = "failed" => HasDef(w, r) \/ Policy[w] = "FailSafe"
      BY <2>0, <2>3, <2>6 DEF Settles, SettlesAs, Entitled, BodyPcs
    <2> QED BY <2>3, <2>4, <2>5, <2>7, <2>8 DEF Here, Then
  <1>2. Init => TypeInv /\ CodeInv
    BY InitType, CodeInit
  <1>3. TypeInv /\ CodeInv /\ [Next]_vars => TypeInv' /\ CodeInv'
    BY TypeStep, CodeStep
  <1> QED BY <1>1, <1>2, <1>3, PTL DEF Spec, VersionsRespected

\* A recorded result is replaced by no replay and no racing worker, and only
\* the history of a settled run is deleted, whatever the pollers' speed
\* (writeJournal, compact).
THEOREM ResultsStay == Spec => JournalWriteOnce
  <1>1. TypeInv /\ [Next]_vars =>
          [\A r \in Runs : \A k \in StepIds :
             journal[r][k] # None /\ journal'[r][k] # journal[r][k] =>
               journal'[r][k] = None /\ runs[r].status \in Terminal]_vars
    <2> SUFFICES ASSUME TypeInv, [Next]_vars, NEW r \in Runs, NEW k \in StepIds,
                        journal[r][k] # None, journal'[r][k] # journal[r][k]
                 PROVE  journal'[r][k] = None /\ runs[r].status \in Terminal
      OBVIOUS
    <2>1. ASSUME NEW w \in Workers, Shape(w)
          PROVE  FALSE
      <3>1. Records(w) => journal'[r][k] = journal[r][k]
        BY DEF Records, Recorded
      <3> QED BY <2>1, <3>1 DEF Shape, Begins, Selects, Stops, Takes, Passes, Reaches,
                                Performs, Suspends, Settles, tables
    <2> QED BY <2>1, StepCases, StepShape, CallerShape DEF vars, tables
  <1> QED BY <1>1, InitType, TypeStep, PTL DEF Spec, JournalWriteOnce

-----------------------------------------------------------------------------
\* THE ORDER OF EFFECTS, AT ANY SPEED

\* The operation i of the body of r has taken effect.
Happened(r, i) ==
    /\ Body[r][i].kind = "step" => ran[r][Body[r][i].id] > 0
    /\ Body[r][i].kind = "await" => <<r, Body[r][i].id>> \in sent

\* ... after the step.
HappensBy(r, i) ==
    /\ Body[r][i].kind = "step" => ran'[r][Body[r][i].id] > 0
    /\ Body[r][i].kind = "await" => <<r, Body[r][i].id>> \in sent'

\* A journal row is evidence of an effect, a signal row of a delivery.
EvidenceInv ==
    /\ signals \subseteq sent
    /\ \A r \in Runs : \A j \in 1 .. Len(Body[r]) :
          Body[r][j].kind = "step" /\ journal[r][Body[r][j].id] # None => Happened(r, j)

\* What a poller has behind it in the body has happened.
BehindInv ==
    \A w \in Workers :
        /\ worker[w].pc \in BodyPcs =>
              \A i \in 1 .. Len(Body[worker[w].run]) :
                  i < worker[w].ip => Happened(worker[w].run, i)
        /\ worker[w].pc = "journal" => Happened(worker[w].run, worker[w].ip)

OrderInv == EvidenceInv /\ BehindInv /\ EffectsInOrder

\* The operations of a body, by position.
LEMMA BodyOps ==
  ASSUME NEW r \in Runs, NEW i \in 1 .. Len(Body[r])
  PROVE  /\ i \in DOMAIN Body[r] /\ i \in Nat \ {0} /\ Len(Body[r]) \in Nat
         /\ Body[r][i].kind \in {"step", "sleep", "await"}
         /\ Body[r][i].kind # "await" => Body[r][i].id \in StepIds
         /\ Body[r][i].kind = "await" => Body[r][i].id \in Signals
  <1>1. Body[r] \in Seq(Ops)
    BY DurableAssumption
  <1> QED BY <1>1, OpType

LEMMA OrderInit == Init => OrderInv
  <1> SUFFICES ASSUME Init PROVE OrderInv
    OBVIOUS
  <1>1. BehindInv
    BY IdleType DEF Init, BehindInv, BodyPcs
  <1>2. \A r \in Runs : \A j \in 1 .. Len(Body[r]) : Body[r][j].kind = "step" =>
           ran[r][Body[r][j].id] = 0 /\ journal[r][Body[r][j].id] = None
    BY BodyOps DEF Init
  <1> QED BY <1>1, <1>2 DEF Init, OrderInv, EvidenceInv, EffectsInOrder

\* What has happened stays so.
Grows ==
    /\ sent \subseteq sent'
    /\ \A r \in Runs, k \in StepIds : ran[r][k] > 0 => ran'[r][k] > 0

LEMMA HappenedGrows ==
  ASSUME Grows, NEW r \in Runs, NEW i \in 1 .. Len(Body[r]), Happened(r, i)
  PROVE  HappensBy(r, i)
  BY BodyOps DEF Grows, Happened, HappensBy

\* A step that performs no effect.
LEMMA NoEffectKeepsOrder ==
  ASSUME Grows, EffectsInOrder, ran' = ran
  PROVE  EffectsInOrder'
  <1> SUFFICES ASSUME NEW r \in Runs, NEW j \in 1 .. Len(Body[r]),
                      Body[r][j].kind = "step", ran[r][Body[r][j].id] > 0,
                      NEW i \in 1 .. j - 1
               PROVE  /\ Body[r][i].kind = "step" => ran[r][Body[r][i].id] > 0
                      /\ Body[r][i].kind = "await" => <<r, Body[r][i].id>> \in sent'
    BY DEF EffectsInOrder
  <1> QED BY DEF EffectsInOrder, Grows

\* Pollers that do not move keep what they have behind them.
LEMMA OthersKeepBehind ==
  ASSUME TypeInv, Grows, BehindInv, NEW v \in Workers, worker'[v] = worker[v]
  PROVE  /\ worker'[v].pc \in BodyPcs =>
              \A i \in 1 .. Len(Body[worker'[v].run]) :
                  i < worker'[v].ip => HappensBy(worker'[v].run, i)
         /\ worker'[v].pc = "journal" => HappensBy(worker'[v].run, worker'[v].ip)
  <1>1. /\ worker[v].run \in Runs
        /\ worker[v].pc = "journal" => worker[v].ip \in 1 .. Len(Body[worker[v].run])
    BY HereFacts, DurableAssumption DEF Here, Good
  <1> QED BY <1>1, HappenedGrows DEF BehindInv

LEMMA OrderStep ==
  ASSUME TypeInv, CodeInv, OrderInv, [Next]_vars
  PROVE  OrderInv'
  <1> USE DEF tables, history
  <1>1. CASE Caller
    <2>1. /\ worker' = worker /\ ran' = ran /\ Grows /\ signals' \subseteq sent'
          /\ \A r \in Runs, k \in StepIds : journal'[r][k] # None => journal[r][k] # None
      BY <1>1, CallerShape DEF Grows, OrderInv, EvidenceInv
    <2>2. EvidenceInv'
      BY <2>1, BodyOps, HappenedGrows DEF OrderInv, EvidenceInv, Happened, HappensBy
    <2>3. BehindInv'
      BY <2>1, OthersKeepBehind DEF OrderInv, BehindInv, Happened, HappensBy
    <2> QED BY <2>1, <2>2, <2>3, NoEffectKeepsOrder DEF OrderInv
  <1>2. ASSUME NEW w \in Workers, WorkerStep(w) \/ StatementFails(w) \/ Crash(w)
        PROVE  OrderInv'
    <2> DEFINE r == Here(w).run
               ip == Here(w).ip
    <2>1. Alone(w) /\ Shape(w)
      BY <1>2, StepShape
    <2>2. /\ r \in Runs /\ ip \in Nat \ {0} /\ Good(Here(w)) /\ AtTop(Here(w))
          /\ Op(w) = Body[r][ip] /\ Len(Body[r]) \in Nat
      BY HereFacts, DurableAssumption DEF CodeInv, Here, OpAt
    <2>3. /\ Here(w).pc \in BodyPcs => \A i \in 1 .. Len(Body[r]) : i < ip => Happened(r, i)
          /\ Here(w).pc = "journal" => Happened(r, ip)
      BY DEF OrderInv, BehindInv, Here
    <2> HIDE DEF r, ip
    \* The poller moves to where everything behind it has happened.
    <2>4. ASSUME Grows,
                 Then(w).pc \in BodyPcs =>
                   \A i \in 1 .. Len(Body[Then(w).run]) :
                       i < Then(w).ip => HappensBy(Then(w).run, i),
                 Then(w).pc = "journal" => HappensBy(Then(w).run, Then(w).ip)
          PROVE  BehindInv'
      BY <2>1, <2>4, OthersKeepBehind DEF Alone, OrderInv, BehindInv, Then, Happened, HappensBy
    <2>5. CASE Begins(w) \/ Selects(w) \/ Stops(w) \/ Takes(w) \/ Suspends(w) \/ Settles(w)
      <3>1. /\ UNCHANGED <<journal, signals, history>> /\ Grows
        BY <2>5 DEF Begins, Selects, Stops, Takes, Suspends, Settles, Grows
      <3>2. /\ Then(w).pc # "journal"
            /\ Then(w).pc \in BodyPcs => Then(w).ip = 1
        BY <2>2, <2>5 DEF Begins, Selects, Stops, Takes, Suspends, Settles, LostReply,
                     Errs, BodyPcs, Advance, StaysAt, AtTop
      <3>3. BehindInv'
        BY <2>4, <3>1, <3>2
      <3> QED BY <3>1, <3>3, NoEffectKeepsOrder DEF OrderInv, EvidenceInv, Happened
    <2>6. CASE Passes(w)
      <3>1. /\ UNCHANGED <<journal, signals, history>> /\ Grows
        BY <2>6 DEF Passes, Grows
      <3>2. /\ Here(w).pc = "body" /\ ip \in 1 .. Len(Body[r])
            /\ Then(w).run = r /\ Then(w).ip = ip + 1 /\ Then(w).pc = "body"
        BY <2>2, <2>6 DEF Passes, InBody, GoesOn, Stays, Here, r, ip
      <3>3. Happened(r, ip)
        BY <2>2, <2>6, <3>2 DEF Passes, Journalled, Delivered, OrderInv, EvidenceInv,
                                Happened, Here, r
      <3>4. \A i \in 1 .. Len(Body[r]) : i < ip + 1 => Happened(r, i)
        BY <2>2, <2>3, <3>2, <3>3 DEF BodyPcs
      <3>5. BehindInv'
        BY <2>2, <2>4, <3>1, <3>2, <3>4, HappenedGrows
      <3> QED BY <3>1, <3>5, NoEffectKeepsOrder DEF OrderInv, EvidenceInv, Happened
    <2>7. CASE Reaches(w)
      <3>1. /\ UNCHANGED <<journal, signals, history>> /\ Grows
        BY <2>7 DEF Reaches, Grows
      <3>2. /\ Here(w).pc = "body" /\ ip \in 1 .. Len(Body[r])
            /\ Then(w).run = r /\ Then(w).ip = ip
            /\ Then(w).pc = "journal" => Op(w).kind = "sleep"
        BY <2>2, <2>7 DEF Reaches, InBody, StaysAt, Stays, Here, r, ip
      <3>3. Op(w).kind = "sleep" => Happened(r, ip)
        BY <2>2 DEF Happened
      <3>4. BehindInv'
        BY <2>2, <2>3, <2>4, <3>1, <3>2, <3>3, HappenedGrows DEF BodyPcs
      <3> QED BY <3>1, <3>4, NoEffectKeepsOrder DEF OrderInv, EvidenceInv, Happened
    <2>8. CASE Performs(w)
      <3> DEFINE k == Op(w).id
      <3>1. /\ UNCHANGED <<journal, signals, sent>>
            /\ ip \in 1 .. Len(Body[r]) /\ Body[r][ip].kind = "step"
            /\ Then(w).run = r /\ Then(w).ip = ip /\ Here(w).pc \in BodyPcs
            /\ ran'[r][k] > 0
            /\ \A q \in Runs, j \in StepIds : q # r \/ j # k => ran'[q][j] = ran[q][j]
        <4>1. /\ UNCHANGED <<journal, signals, sent>>
              /\ \A q \in Runs, j \in StepIds : q # r \/ j # k => ran'[q][j] = ran[q][j]
          BY <2>8 DEF Performs, r
        <4>2. Here(w).pc = "run" /\ Then(w).run = r /\ Then(w).ip = ip /\ Op(w).kind = "step"
          BY <2>8 DEF Performs, StaysAt, Stays, r, ip
        <4>3. ip \in 1 .. Len(Body[r])
          BY <4>2, <2>2 DEF Good, r, ip
        <4>4. ran'[r][k] > 0
          BY <2>8 DEF Performs, r
        <4> QED BY <2>2, <4>1, <4>2, <4>3, <4>4 DEF BodyPcs
      <3>2. Grows
        BY <3>1 DEF Grows
      <3>3. HappensBy(r, ip)
        BY <2>2, <3>1 DEF HappensBy
      <3>4. BehindInv'
        BY <2>2, <2>3, <2>4, <3>1, <3>2, <3>3, HappenedGrows
      <3>5. EvidenceInv'
        BY <3>1, <3>2, HappenedGrows DEF OrderInv, EvidenceInv, Happened, HappensBy
      <3>6. ASSUME NEW q \in Runs, NEW j \in 1 .. Len(Body[q]), Body[q][j].kind = "step",
                   ran'[q][Body[q][j].id] > 0, NEW i \in 1 .. j - 1
            PROVE  HappensBy(q, i)
        <4>0. i \in 1 .. Len(Body[q]) /\ Body[q][j].id \in StepIds /\ i < j
          BY <3>6, BodyOps
        <4>1. CASE q = r /\ Body[q][j].id = k
          <5>1. j = ip
            BY <2>2, <3>1, <3>6, <4>1, BodyOps, UniqueIds
          <5> QED BY <2>3, <3>1, <3>2, <4>0, <4>1, <5>1, HappenedGrows
        <4>2. CASE q # r \/ Body[q][j].id # k
          <5>1. ran[q][Body[q][j].id] > 0
            BY <3>1, <3>6, <4>0, <4>2
          <5>2. Happened(q, i)
            BY <3>6, <5>1 DEF OrderInv, EffectsInOrder, Happened
          <5> QED BY <3>2, <4>0, <5>2, HappenedGrows
        <4> QED BY <4>1, <4>2
      <3>7. EffectsInOrder'
        BY <3>6 DEF EffectsInOrder, HappensBy
      <3> QED BY <3>4, <3>5, <3>7 DEF OrderInv
    <2>9. CASE Records(w)
      <3> DEFINE k == Op(w).id
      <3>1. /\ UNCHANGED <<signals, history>> /\ Grows
            /\ ip \in 1 .. Len(Body[r]) /\ Body[r][ip].kind # "await"
            /\ Here(w).pc = "journal" /\ Here(w).pc \in BodyPcs
            /\ \A q \in Runs, j \in StepIds :
                  q # r \/ j # k => journal'[q][j] = journal[q][j]
        <4>1. /\ UNCHANGED <<signals, history>> /\ Here(w).pc = "journal"
              /\ \A q \in Runs, j \in StepIds :
                    q # r \/ j # k => journal'[q][j] = journal[q][j]
          BY <2>9 DEF Records, r
        <4>2. Grows
          BY <4>1 DEF Grows
        <4>3. ip \in 1 .. Len(Body[r]) /\ Body[r][ip].kind # "await"
          BY <4>1, <2>2 DEF Good, OpAt, r, ip
        <4> QED BY <4>1, <4>2, <4>3 DEF BodyPcs
      <3>2. Happened(r, ip)
        BY <2>3, <3>1
      <3>3. \A i \in 1 .. Len(Body[r]) : i < ip + 1 => Happened(r, i)
        BY <2>2, <2>3, <3>1, <3>2
      <3>4. \/ Then(w).pc \notin BodyPcs
            \/ /\ Then(w).run = r /\ Then(w).ip <= ip + 1 /\ Then(w).pc # "journal"
               /\ Then(w).ip \in Nat
        <4>1. GoesOn(w) \/ (Then(w).pc = "setWake" /\ StaysAt(w)) \/ Errs(w)
          BY <2>9 DEF Records, LostReply
        <4>2. CASE Errs(w)
          BY <4>2 DEF Errs, BodyPcs
        <4>3. CASE GoesOn(w)
          BY <2>2, <4>3 DEF GoesOn, Stays, r, ip
        <4>4. CASE Then(w).pc = "setWake" /\ StaysAt(w)
          BY <2>2, <4>4 DEF StaysAt, Stays, r, ip
        <4> QED BY <4>1, <4>2, <4>3, <4>4
      <3>5. BehindInv'
        BY <2>2, <2>4, <3>1, <3>3, <3>4, HappenedGrows DEF BodyPcs
      <3>6. ASSUME NEW q \in Runs, NEW j \in 1 .. Len(Body[q]), Body[q][j].kind = "step",
                   journal'[q][Body[q][j].id] # None
            PROVE  HappensBy(q, j)
        <4>1. CASE q = r /\ Body[q][j].id = k
          <5>1. j = ip
            BY <2>2, <3>1, <3>6, <4>1, BodyOps, UniqueIds
          <5> QED BY <3>1, <3>2, <4>1, <5>1, HappenedGrows
        <4>2. CASE q # r \/ Body[q][j].id # k
          <5>1. journal[q][Body[q][j].id] # None
            BY <3>1, <3>6, <4>2, BodyOps
          <5> QED BY <3>1, <3>6, <5>1, HappenedGrows DEF OrderInv, EvidenceInv
        <4> QED BY <4>1, <4>2
      <3>7. EvidenceInv'
        BY <3>1, <3>6 DEF OrderInv, EvidenceInv, Happened, HappensBy
      <3> QED BY <3>1, <3>5, <3>7, NoEffectKeepsOrder DEF OrderInv
    <2> QED BY <2>1, <2>5, <2>6, <2>7, <2>8, <2>9 DEF Shape
  <1>3. CASE UNCHANGED vars
    <2>1. UNCHANGED <<worker, journal, signals, ran, sent>>
      BY <1>3 DEF vars
    <2>2. EvidenceInv' /\ BehindInv' /\ EffectsInOrder'
      BY <2>1 DEF OrderInv, EvidenceInv, BehindInv, EffectsInOrder, Happened
    <2> QED BY <2>2 DEF OrderInv
  <1> QED BY <1>1, <1>2, <1>3, StepCases

\* Effects happen in the body's order and behind an awaitSignal only after its
\* signal, also when leases run out under live pollers, replies are lost and
\* compact keeps nothing (step, awaitSignal).
THEOREM EffectsOrdered == Spec => []EffectsInOrder
  <1>1. Init => TypeInv /\ CodeInv /\ OrderInv
    BY InitType, CodeInit, OrderInit
  <1>2. TypeInv /\ CodeInv /\ OrderInv /\ [Next]_vars => TypeInv' /\ CodeInv' /\ OrderInv'
    BY TypeStep, CodeStep, OrderStep
  <1>3. OrderInv => EffectsInOrder
    BY DEF OrderInv
  <1> QED BY <1>1, <1>2, <1>3, PTL DEF Spec
=============================================================================
