----------------------------- MODULE JobsProofs -----------------------------
(***************************************************************************)
(* Theorems about Jobs, for every set of jobs and workers, every lease,    *)
(* number of attempts and bound.                                           *)
(*                                                                         *)
(* TypeOK needs that a worker about to reschedule has attempts left        *)
(* (AttemptsOK).  The contract needs that what a worker is about to write  *)
(* is earned (EarnedOK): a completion by a success, a count of attempts by *)
(* as many failures, a dead letter by MaxAttempts failures or a missing    *)
(* handler.  The exclusion of workers needs that a worker at work stands   *)
(* behind its row's claimed_at (LeaseInv).                                 *)
(***************************************************************************)
EXTENDS Jobs, TLAPS

AttemptsOK ==
    \A w \in Workers :
        /\ worker[w].pc \in {"handle", "reschedule"}
             => worker[w].attempts \in 0 .. MaxAttempts - 1
        /\ worker[w].at <= now

TypeInv == TypeOK /\ AttemptsOK

-----------------------------------------------------------------------------
\* The worker that does nothing is well formed.
LEMMA IdleType ==
  /\ Idle \in WorkerState /\ Idle.pc = "idle" /\ Idle.at = 0
  /\ Unclaimed = -1
  <1>1. (CHOOSE j \in JobIds : TRUE) \in JobIds
    BY JobsAssumption
  <1> QED BY <1>1, JobsAssumption DEF Idle, WorkerState, Times, Unclaimed

\* Saturation keeps a number within its cap.
LEMMA AtMostType ==
  ASSUME NEW cap \in Nat, NEW n \in Nat
  PROVE  AtMost(cap, n) \in 0 .. cap /\ AtMost(cap, n) \in Nat /\ AtMost(cap, n) <= n
  BY DEF AtMost

\* A row written by an UPDATE or a DELETE is well formed.
LEMMA PutType ==
  ASSUME TypeInv, NEW j \in JobIds, NEW row \in JobRow, Put(j, row)
  PROVE  rows' \in [JobIds -> JobRow]
  BY DEF TypeInv, TypeOK, Put

LEMMA DeletedType ==
  ASSUME TypeInv, NEW j \in JobIds, Delete(j)
  PROVE  rows' \in [JobIds -> JobRow]
  <1>1. rows[j] \in JobRow
    BY DEF TypeInv, TypeOK
  <1>2. 0 \in Times /\ 0 \in 0 .. MaxAttempts - 1
    BY JobsAssumption DEF Times
  <1>3. [rows[j] EXCEPT !.state = "deleted", !.claimed = Unclaimed,
                        !.attempts = 0, !.next = 0] \in JobRow
    BY <1>1, <1>2 DEF JobRow
  <1> QED BY <1>3, PutType DEF Delete

\* A worker that moves to a well-formed state leaves all well formed.
LEMMA GotoType ==
  ASSUME TypeInv, NEW w \in Workers, NEW next \in WorkerState, Goto(w, next),
         next.pc \in {"handle", "reschedule"} => next.attempts \in 0 .. MaxAttempts - 1,
         next.at <= now, now' = now
  PROVE  worker' \in [Workers -> WorkerState] /\ AttemptsOK'
  BY DEF TypeInv, TypeOK, AttemptsOK, Goto

LEMMA GotoIdleType ==
  ASSUME TypeInv, NEW w \in Workers, Goto(w, Idle), now' = now
  PROVE  worker' \in [Workers -> WorkerState] /\ AttemptsOK'
  <1>1. 0 <= now
    BY JobsAssumption DEF TypeInv, TypeOK, Times
  <1> QED BY <1>1, IdleType, GotoType

\* The clock and the worker at hand are typed.
LEMMA TypeFacts ==
  ASSUME TypeInv, NEW w \in Workers
  PROVE  /\ now \in Times /\ worker[w] \in WorkerState /\ worker[w].at <= now
         /\ worker[w].job \in JobIds /\ rows[worker[w].job] \in JobRow
         /\ worker[w].pc \in {"handle", "reschedule"}
              => worker[w].attempts \in 0 .. MaxAttempts - 1
         /\ MaxTime \in Nat /\ MaxAttempts \in Nat \ {0} /\ MaxFaults \in Nat
         /\ Lease \in Nat
         /\ Times = 0 .. MaxTime
  BY JobsAssumption DEF TypeInv, TypeOK, AttemptsOK, WorkerState, Times

LEMMA InitType == Init => TypeInv
  <1> SUFFICES ASSUME Init PROVE TypeInv
    OBVIOUS
  <1>1. 0 \in Times /\ 0 \in 0 .. MaxAttempts - 1 /\ 0 \in 0 .. MaxAttempts
        /\ 0 \in 0 .. SuccessCap /\ 0 \in 0 .. MaxFaults
    BY JobsAssumption DEF Times, SuccessCap
  <1>2. rows \in [JobIds -> JobRow]
    BY <1>1 DEF Init, JobRow
  <1>3. worker \in [Workers -> WorkerState] /\ AttemptsOK
    BY IdleType DEF Init, AttemptsOK
  <1>4. failures \in [JobIds -> 0 .. MaxAttempts] /\ successes \in [JobIds -> 0 .. SuccessCap]
    BY <1>1 DEF Init
  <1> QED BY <1>1, <1>2, <1>3, <1>4 DEF Init, TypeInv, TypeOK

LEMMA TypeStep == TypeInv /\ [Next]_vars => TypeInv'
  <1> SUFFICES ASSUME TypeInv, [Next]_vars PROVE TypeInv'
    OBVIOUS
  <1>0. /\ MaxTime \in Nat /\ MaxFaults \in Nat /\ now \in Times /\ Times = 0 .. MaxTime
        /\ now \in Nat /\ 0 <= now
    BY JobsAssumption DEF TypeInv, TypeOK, Times
  <1>1. ASSUME NEW j \in JobIds, Enqueue(j) PROVE TypeInv'
    <2>1. PICK d \in Delays \cup {0} :
            rows' = [rows EXCEPT ![j] = [rows[j] EXCEPT !.state = "queued",
                                           !.next = AtMost(MaxTime, now + d)]]
      BY <1>1 DEF Enqueue
    <2>2. AtMost(MaxTime, now + d) \in Times
      <3>1. now + d \in Nat
        BY <1>0, JobsAssumption
      <3> QED BY <1>0, <3>1, AtMostType
    <2>3. rows[j] \in JobRow
      BY DEF TypeInv, TypeOK
    <2> DEFINE next == AtMost(MaxTime, now + d)
    <2>4. [rows[j] EXCEPT !.state = "queued", !.next = next] \in JobRow
      <3>1. next \in Times
        BY <2>2
      <3> HIDE DEF next
      <3> QED BY <3>1, <2>3 DEF JobRow
    <2>5. rows' \in [JobIds -> JobRow]
      BY <2>1, <2>4 DEF TypeInv, TypeOK
    <2> QED BY <1>1, <2>5 DEF Enqueue, TypeInv, TypeOK, AttemptsOK, history
  <1>2. ASSUME NEW j \in JobIds, Cancel(j) PROVE TypeInv'
    <2>1. rows' \in [JobIds -> JobRow]
      BY <1>2, DeletedType DEF Cancel
    <2> QED BY <1>2, <2>1 DEF Cancel, TypeInv, TypeOK, AttemptsOK
  <1>3. ASSUME NEW w \in Workers, WorkerStep(w) PROVE TypeInv'
    <2>0. /\ worker[w] \in WorkerState /\ worker[w].at <= now
          /\ worker[w].job \in JobIds /\ rows[worker[w].job] \in JobRow
          /\ worker[w].pc \in {"handle", "reschedule"}
               => worker[w].attempts \in 0 .. MaxAttempts - 1
          /\ MaxAttempts \in Nat \ {0}
      BY TypeFacts
    <2>1. CASE Poll(w)
      <3> DEFINE next == [Idle EXCEPT !.pc = "claim", !.at = now]
      <3>1. next \in WorkerState /\ next.pc = "claim" /\ next.at <= now
        <4>1. now \in Times /\ now <= now
          BY <1>0
        <4> QED BY <4>1, IdleType DEF WorkerState
      <3>2. worker' \in [Workers -> WorkerState] /\ AttemptsOK'
        <4>1. Goto(w, next) /\ now' = now
          BY <2>1 DEF Poll
        <4> HIDE DEF next
        <4> QED BY <3>1, <4>1, GotoType
      <3> QED BY <2>1, <3>2 DEF Poll, TypeInv, TypeOK, history
    <2>2. CASE Claim(w)
      <3>1. CASE Goto(w, Idle) /\ UNCHANGED rows
        <4>1. worker' \in [Workers -> WorkerState] /\ AttemptsOK'
          BY <2>2, <3>1, GotoIdleType DEF Claim
        <4> QED BY <2>2, <3>1, <4>1 DEF Claim, TypeInv, TypeOK, history
      <3>2. ASSUME NEW j \in Ready(worker[w].at),
                   rows' = [rows EXCEPT ![j].claimed = worker[w].at],
                   Goto(w, [worker[w] EXCEPT !.pc = Dispatch(w, j), !.job = j,
                                             !.attempts = rows[j].attempts])
            PROVE  TypeInv'
        <4>1. j \in JobIds /\ rows[j] \in JobRow
          BY DEF Ready, TypeInv, TypeOK
        <4>2. rows' \in [JobIds -> JobRow]
          BY <3>2, <4>1, <2>0 DEF TypeInv, TypeOK, JobRow, WorkerState
        <4> DEFINE next == [worker[w] EXCEPT !.pc = Dispatch(w, j), !.job = j,
                                             !.attempts = rows[j].attempts]
        <4>3. /\ next \in WorkerState /\ next.at <= now
              /\ next.attempts \in 0 .. MaxAttempts - 1
          <5>1. Dispatch(w, j) \in {"handle", "deadLetter"}
            BY DEF Dispatch
          <5>2. rows[j].attempts \in 0 .. MaxAttempts - 1 /\ rows[j].attempts \in 0 .. MaxAttempts
            BY <2>0, <4>1 DEF JobRow
          <5> QED BY <2>0, <4>1, <5>1, <5>2 DEF WorkerState
        <4>4. worker' \in [Workers -> WorkerState] /\ AttemptsOK'
          BY <2>2, <3>2, <4>3, GotoType DEF Claim
        <4> QED BY <2>2, <4>2, <4>4 DEF Claim, TypeInv, TypeOK, history
      <3> QED BY <2>2, <3>1, <3>2 DEF Claim
    <2>3. CASE HandlerSucceeds(w)
      <3> DEFINE next == [worker[w] EXCEPT !.pc = "complete"]
      <3>0. next \in WorkerState /\ next.pc = "complete" /\ next.at = worker[w].at
        BY <2>0 DEF WorkerState
      <3>1. worker' \in [Workers -> WorkerState] /\ AttemptsOK'
        <4>1. Goto(w, next) /\ now' = now
          BY <2>3 DEF HandlerSucceeds, Step
        <4> HIDE DEF next
        <4> QED BY <3>0, <4>1, <2>0, GotoType
      <3>2. successes' \in [JobIds -> 0 .. SuccessCap]
        <4>1. SuccessCap \in Nat /\ successes[worker[w].job] \in 0 .. SuccessCap
          BY <1>0, <2>0 DEF SuccessCap, TypeInv, TypeOK
        <4>2. AtMost(SuccessCap, successes[worker[w].job] + 1) \in 0 .. SuccessCap
          BY <4>1 DEF AtMost
        <4> QED BY <2>3, <4>2 DEF HandlerSucceeds, TypeInv, TypeOK
      <3> QED BY <2>3, <2>0, <3>1, <3>2 DEF HandlerSucceeds, TypeInv, TypeOK
    <2>4. CASE HandlerFails(w)
      <3> DEFINE attempts == worker[w].attempts + 1
      <3>0. worker[w].pc = "handle" /\ attempts \in 0 .. MaxAttempts
        <4>1. worker[w].pc = "handle"
          BY <2>4 DEF HandlerFails
        <4> QED BY <2>0, <4>1
      <3>1. worker' \in [Workers -> WorkerState] /\ AttemptsOK'
        <4>1. CASE Goto(w, [worker[w] EXCEPT !.pc = "deadLetter", !.attempts = attempts])
          <5> DEFINE next == [worker[w] EXCEPT !.pc = "deadLetter", !.attempts = attempts]
          <5>1. next \in WorkerState /\ next.pc = "deadLetter" /\ next.at = worker[w].at
            <6> HIDE DEF attempts
            <6> QED BY <2>0, <3>0 DEF WorkerState
          <5>2. Goto(w, next) /\ now' = now
            BY <2>4, <4>1 DEF HandlerFails
          <5> HIDE DEF next
          <5> QED BY <5>1, <5>2, <2>0, GotoType
        <4>2. ASSUME NEW d \in BackoffFor(attempts), ~Exhausted(attempts),
                     Goto(w, [worker[w] EXCEPT !.pc = "reschedule",
                                !.attempts = attempts,
                                !.next = AtMost(MaxTime, now + d)])
              PROVE  worker' \in [Workers -> WorkerState] /\ AttemptsOK'
          <5>1. d \in Nat
            BY JobsAssumption DEF BackoffFor
          <5>2. AtMost(MaxTime, now + d) \in Times
            BY <1>0, <5>1 DEF AtMost
          <5>3. attempts \in 0 .. MaxAttempts - 1
            BY <3>0, <2>0, <4>2 DEF Exhausted
          <5> DEFINE at == AtMost(MaxTime, now + d)
                     next == [worker[w] EXCEPT !.pc = "reschedule",
                                !.attempts = attempts, !.next = at]
          <5>4. /\ next \in WorkerState /\ next.pc = "reschedule"
                /\ next.at = worker[w].at /\ next.attempts \in 0 .. MaxAttempts - 1
            <6>1. at \in Times
              BY <5>2
            <6> HIDE DEF attempts, at
            <6> QED BY <2>0, <3>0, <5>3, <6>1 DEF WorkerState
          <5>5. Goto(w, next) /\ now' = now
            BY <2>4, <4>2 DEF HandlerFails
          <5> HIDE DEF next
          <5> QED BY <5>4, <5>5, <2>0, GotoType
        <4> QED BY <2>4, <4>1, <4>2 DEF HandlerFails
      <3>2. failures' \in [JobIds -> 0 .. MaxAttempts]
        <4>1. AtMost(MaxAttempts, failures[worker[w].job] + 1) \in 0 .. MaxAttempts
          <5>1. failures[worker[w].job] \in 0 .. MaxAttempts
            BY <2>0 DEF TypeInv, TypeOK
          <5> QED BY <2>0, <5>1 DEF AtMost
        <4> QED BY <2>4, <4>1 DEF HandlerFails, TypeInv, TypeOK
      <3> QED BY <2>4, <3>1, <3>2 DEF HandlerFails, TypeInv, TypeOK
    <2>5. CASE Complete(w)
      <3>1. rows' \in [JobIds -> JobRow]
        BY <2>0, <2>5, DeletedType DEF Complete
      <3>2. worker' \in [Workers -> WorkerState] /\ AttemptsOK'
        BY <2>5, GotoIdleType DEF Complete
      <3> QED BY <2>5, <3>1, <3>2 DEF Complete, TypeInv, TypeOK, history
    <2>6. CASE Reschedule(w)
      <3>1. [rows[worker[w].job] EXCEPT !.next = worker[w].next,
               !.attempts = worker[w].attempts, !.claimed = Unclaimed] \in JobRow
        BY <2>0, <2>6 DEF Reschedule, JobRow, WorkerState
      <3>2. rows' \in [JobIds -> JobRow]
        BY <2>0, <2>6, <3>1, PutType DEF Reschedule
      <3>3. worker' \in [Workers -> WorkerState] /\ AttemptsOK'
        BY <2>6, GotoIdleType DEF Reschedule
      <3> QED BY <2>6, <3>2, <3>3 DEF Reschedule, TypeInv, TypeOK, history
    <2>7. CASE DeadLetter(w)
      <3>1. rows' \in [JobIds -> JobRow]
        BY <2>0, <2>7, DeletedType DEF DeadLetter
      <3>2. worker' \in [Workers -> WorkerState] /\ AttemptsOK'
        BY <2>7, GotoIdleType DEF DeadLetter
      <3>3. dead' \subseteq JobIds
        BY <2>0, <2>7 DEF DeadLetter, TypeInv, TypeOK
      <3> QED BY <2>7, <3>1, <3>2, <3>3 DEF DeadLetter, TypeInv, TypeOK, history
    <2> QED BY <1>3, <2>1, <2>2, <2>3, <2>4, <2>5, <2>6, <2>7 DEF WorkerStep
  <1>4. ASSUME NEW w \in Workers, GiveUp(w) PROVE TypeInv'
    <2>1. worker' \in [Workers -> WorkerState] /\ AttemptsOK'
      BY <1>4, GotoIdleType DEF GiveUp
    <2> QED BY <1>4, <1>0, <2>1 DEF GiveUp, TypeInv, TypeOK, history
  <1>5. CASE Tick
    <2>1. now' \in Times /\ now' = now + 1
      BY <1>0, <1>5 DEF Tick
    <2>2. ASSUME NEW w \in Workers PROVE worker[w].at <= now'
      BY <1>0, <2>1, TypeFacts DEF WorkerState
    <2>3. overrun' \in BOOLEAN
      BY <1>5 DEF Tick
    <2> QED BY <1>5, <2>1, <2>2, <2>3 DEF Tick, TypeInv, TypeOK, AttemptsOK, history
  <1>6. CASE UNCHANGED vars
    BY <1>6 DEF vars, history, TypeInv, TypeOK, AttemptsOK
  <1> QED BY <1>1, <1>2, <1>3, <1>4, <1>5, <1>6 DEF Next

\* The columns of a row and the worker's copy of it keep their types; in
\* particular no row ever holds MaxAttempts attempts (dispatch, Reschedule).
THEOREM Typing == Spec => []TypeOK
  <1>1. TypeInv => TypeOK
    BY DEF TypeInv
  <1>2. Spec => []TypeInv
    BY InitType, TypeStep, PTL DEF Spec
  <1> QED BY <1>1, <1>2, PTL

-----------------------------------------------------------------------------
\* What a job and a worker have earned so far.
Earned(s, w) ==
    /\ s.pc \notin {"idle", "claim"} => rows[s.job].state # "absent"
    /\ s.pc \in {"handle", "reschedule"} => s.attempts <= failures[s.job]
    /\ s.pc = "complete" => s.job \in succeeded
    /\ s.pc = "deadLetter"
         => failures[s.job] >= MaxAttempts \/ s.job \notin Handled[w]

\* A row's attempts are earned; so is what the dead letters and Cancel report.
RowsEarned ==
    /\ \A j \in JobIds : rows[j].attempts <= failures[j]
    /\ \A j \in dead \cup cancelled : rows[j].state = "deleted"

EarnedOK == RowsEarned /\ \A w \in Workers : Earned(worker[w], w)

\* Histories only grow, and no row becomes absent again.
HistoryGrows ==
    /\ succeeded \subseteq succeeded'
    /\ \A j \in JobIds : failures[j] <= failures'[j]
    /\ \A j \in JobIds : rows[j].state # "absent" => rows'[j].state # "absent"

\* What one worker has earned it keeps while histories grow.
LEMMA EarnedKept ==
  ASSUME TypeInv, TypeInv', EarnedOK, HistoryGrows, NEW w \in Workers,
         \A v \in Workers : v # w => worker'[v] = worker[v],
         Earned(worker[w], w)' \/ worker'[w] = worker[w]
  PROVE  \A v \in Workers : Earned(worker[v], v)'
  <1> SUFFICES ASSUME NEW v \in Workers, worker'[v] = worker[v]
               PROVE  Earned(worker[v], v)'
    OBVIOUS
  <1>1. /\ worker[v] \in WorkerState /\ worker[v].job \in JobIds
        /\ failures[worker[v].job] \in Nat /\ failures'[worker[v].job] \in Nat
        /\ worker[v].attempts \in Nat /\ MaxAttempts \in Nat
    BY JobsAssumption DEF TypeInv, TypeOK, WorkerState
  <1>2. Earned(worker[v], v)
    BY DEF EarnedOK, RowsEarned
  <1>3. /\ failures[worker[v].job] <= failures'[worker[v].job]
        /\ succeeded \subseteq succeeded'
        /\ rows[worker[v].job].state # "absent" => rows'[worker[v].job].state # "absent"
    BY <1>1 DEF HistoryGrows
  <1> QED BY <1>1, <1>2, <1>3 DEF Earned

\* Deleting a queued row changes that row only; the row of any other state stays.
LEMMA DeleteEffect ==
  ASSUME TypeInv, NEW j \in JobIds, Delete(j)
  PROVE  /\ Queued(j) => rows' = [rows EXCEPT ![j] =
              [rows[j] EXCEPT !.state = "deleted", !.claimed = Unclaimed,
                              !.attempts = 0, !.next = 0]]
         /\ ~Queued(j) => rows' = rows
         /\ \A k \in JobIds : k # j => rows'[k] = rows[k]
         /\ rows'[j].attempts \in {0, rows[j].attempts}
         /\ Queued(j) => rows'[j].state = "deleted" /\ rows'[j].attempts = 0
         /\ rows[j].state = "deleted" => rows'[j].state = "deleted"
         /\ rows[j].state # "absent" => rows'[j].state # "absent"
  <1>1. rows \in [JobIds -> JobRow]
    BY DEF TypeInv, TypeOK
  <1>2. CASE Queued(j)
    BY <1>1, <1>2 DEF Delete, Put, Queued, JobRow
  <1>3. CASE ~Queued(j)
    BY <1>1, <1>3 DEF Delete, Put, Queued, JobRow
  <1> QED BY <1>2, <1>3

LEMMA EarnedInit == Init => EarnedOK
  <1> SUFFICES ASSUME Init PROVE EarnedOK
    OBVIOUS
  <1>1. \A w \in Workers : worker[w].pc = "idle"
    BY IdleType DEF Init
  <1> QED BY <1>1 DEF Init, EarnedOK, RowsEarned, Earned

\* A worker that stops working owes nothing.
LEMMA EarnedIdle ==
  ASSUME TypeInv, NEW w \in Workers, Goto(w, Idle)
  PROVE  Earned(worker[w], w)' /\ \A v \in Workers : v # w => worker'[v] = worker[v]
  <1>1. worker' = [worker EXCEPT ![w] = Idle] /\ worker \in [Workers -> WorkerState]
    BY DEF Goto, TypeInv, TypeOK
  <1>2. worker'[w] = Idle /\ \A v \in Workers : v # w => worker'[v] = worker[v]
    BY <1>1
  <1> QED BY <1>2, IdleType DEF Earned

\* A deletion disturbs neither the rows nor what workers have earned.
LEMMA DeleteEarned ==
  ASSUME TypeInv, EarnedOK, NEW j \in JobIds, Delete(j),
         UNCHANGED <<failures, succeeded>>
  PROVE  /\ HistoryGrows
         /\ \A k \in JobIds : rows'[k].attempts <= failures'[k]
         /\ \A k \in JobIds : rows[k].state = "deleted" => rows'[k].state = "deleted"
  <1>1. /\ failures \in [JobIds -> 0 .. MaxAttempts] /\ MaxAttempts \in Nat
        /\ \A k \in JobIds : failures[k] \in Nat
        /\ \A k \in JobIds : rows[k].attempts <= failures[k]
    BY JobsAssumption DEF TypeInv, TypeOK, EarnedOK, RowsEarned
  <1>2. ASSUME NEW k \in JobIds PROVE rows'[k].attempts <= failures'[k]
    <2>1. CASE k = j
      <3>1. rows'[j].attempts \in {0, rows[j].attempts}
        BY DeleteEffect
      <3>2. rows[j].attempts <= failures[j] /\ 0 <= failures[j] /\ failures' = failures
        BY <1>1
      <3> QED BY <2>1, <3>1, <3>2
    <2>2. CASE k # j
      BY <1>1, <2>2, DeleteEffect
    <2> QED BY <2>1, <2>2
  <1>3. ASSUME NEW k \in JobIds
        PROVE  /\ rows[k].state = "deleted" => rows'[k].state = "deleted"
               /\ rows[k].state # "absent" => rows'[k].state # "absent"
    <2>1. CASE k = j
      BY <2>1, DeleteEffect
    <2>2. CASE k # j
      BY <2>2, DeleteEffect
    <2> QED BY <2>1, <2>2
  <1> QED BY <1>1, <1>2, <1>3 DEF HistoryGrows

LEMMA EarnedStep == TypeInv /\ TypeInv' /\ EarnedOK /\ [Next]_vars => EarnedOK'
  <1> SUFFICES ASSUME TypeInv, TypeInv', EarnedOK, [Next]_vars PROVE EarnedOK'
    OBVIOUS
  <1>0. /\ rows \in [JobIds -> JobRow] /\ worker \in [Workers -> WorkerState]
        /\ failures \in [JobIds -> 0 .. MaxAttempts]
        /\ dead \subseteq JobIds /\ cancelled \subseteq JobIds
        /\ MaxAttempts \in Nat \ {0}
        /\ \A j \in JobIds : failures[j] \in Nat
        /\ \A j \in JobIds : rows[j].attempts <= failures[j]
        /\ \A j \in dead \cup cancelled : rows[j].state = "deleted"
        /\ \A w \in Workers : Earned(worker[w], w)
    BY JobsAssumption DEF TypeInv, TypeOK, EarnedOK, RowsEarned
  <1>1. ASSUME NEW j \in JobIds, Enqueue(j) PROVE EarnedOK'
    <2>1. /\ rows[j].state = "absent" /\ rows'[j].state = "queued"
          /\ rows'[j].attempts = rows[j].attempts
          /\ \A k \in JobIds : k # j => rows'[k] = rows[k]
      BY <1>0, <1>1 DEF Enqueue, JobRow
    <2>2. UNCHANGED <<worker, dead, succeeded, failures, cancelled>>
      BY <1>1 DEF Enqueue, history
    <2>3. HistoryGrows
      BY <1>0, <2>1, <2>2 DEF HistoryGrows
    <2>4. \A v \in Workers : Earned(worker[v], v)'
      BY <1>0, <2>2, <2>3, EarnedKept
    <2>5. RowsEarned'
      BY <1>0, <2>1, <2>2 DEF RowsEarned
    <2> QED BY <2>4, <2>5 DEF RowsEarned, EarnedOK
  <1>2. ASSUME NEW j \in JobIds, Cancel(j) PROVE EarnedOK'
    <2>1. /\ Delete(j) /\ Queued(j) /\ cancelled' = cancelled \cup {j}
          /\ UNCHANGED <<worker, dead, succeeded, failures>>
      BY <1>2 DEF Cancel, Cancellable
    <2>2. /\ HistoryGrows
          /\ \A k \in JobIds : rows'[k].attempts <= failures'[k]
          /\ \A k \in JobIds : rows[k].state = "deleted" => rows'[k].state = "deleted"
      BY <2>1, DeleteEarned
    <2>3. \A v \in Workers : Earned(worker[v], v)'
      BY <1>0, <2>1, <2>2, EarnedKept
    <2>4. rows'[j].state = "deleted"
      BY <2>1, DeleteEffect
    <2>5. RowsEarned'
      BY <1>0, <2>1, <2>2, <2>4 DEF RowsEarned
    <2> QED BY <2>3, <2>5 DEF RowsEarned, EarnedOK
  <1>3. ASSUME NEW w \in Workers, WorkerStep(w) PROVE EarnedOK'
    <2> DEFINE job == worker[w].job
    <2>0. /\ worker[w] \in WorkerState /\ job \in JobIds /\ rows[job] \in JobRow
          /\ Earned(worker[w], w) /\ worker[w].attempts \in Nat
          /\ worker[w].pc \in {"handle", "reschedule"}
               => worker[w].attempts \in 0 .. MaxAttempts - 1
      <3>1. worker[w].attempts \in 0 .. MaxAttempts
        BY <1>0 DEF WorkerState
      <3> QED BY <1>0, <3>1, TypeFacts
    <2>1. CASE Poll(w)
      <3>1. /\ worker' = [worker EXCEPT ![w] = [Idle EXCEPT !.pc = "claim", !.at = now]]
            /\ UNCHANGED <<rows, dead, succeeded, failures, cancelled>>
        BY <2>1 DEF Poll, Goto, history
      <3>2. worker'[w].pc = "claim" /\ \A v \in Workers : v # w => worker'[v] = worker[v]
        BY <1>0, <3>1, IdleType DEF WorkerState
      <3>3. Earned(worker[w], w)'
        BY <3>2 DEF Earned
      <3>4. HistoryGrows
        BY <1>0, <3>1 DEF HistoryGrows
      <3>5. \A v \in Workers : Earned(worker[v], v)'
        BY <3>2, <3>3, <3>4, EarnedKept
      <3> QED BY <1>0, <3>1, <3>5 DEF EarnedOK, RowsEarned
    <2>2. CASE Claim(w)
      <3>0. UNCHANGED <<dead, succeeded, failures, cancelled>>
        BY <2>2 DEF Claim, history
      <3>1. CASE Goto(w, Idle) /\ UNCHANGED rows
        <4>1. HistoryGrows
          BY <1>0, <3>0, <3>1 DEF HistoryGrows
        <4>2. \A v \in Workers : Earned(worker[v], v)'
          BY <3>1, <4>1, EarnedIdle, EarnedKept
        <4> QED BY <1>0, <3>0, <3>1, <4>2 DEF EarnedOK, RowsEarned
      <3>2. ASSUME NEW j \in Ready(worker[w].at),
                   rows' = [rows EXCEPT ![j].claimed = worker[w].at],
                   Goto(w, [worker[w] EXCEPT !.pc = Dispatch(w, j), !.job = j,
                                             !.attempts = rows[j].attempts])
            PROVE  EarnedOK'
        <4>1. j \in JobIds /\ rows[j].state = "queued"
          BY DEF Ready, Queued
        <4>2. /\ \A k \in JobIds : rows'[k].state = rows[k].state
              /\ \A k \in JobIds : rows'[k].attempts = rows[k].attempts
          BY <1>0, <3>2, <4>1 DEF JobRow
        <4>3. HistoryGrows
          BY <1>0, <3>0, <4>2 DEF HistoryGrows
        <4>4. /\ worker'[w].pc = Dispatch(w, j) /\ worker'[w].job = j
              /\ worker'[w].attempts = rows[j].attempts
              /\ \A v \in Workers : v # w => worker'[v] = worker[v]
          BY <1>0, <3>2 DEF Goto, WorkerState
        <4>5. Earned(worker[w], w)'
          <5>1. CASE j \in Handled[w]
            BY <1>0, <3>0, <4>1, <4>2, <4>4, <5>1 DEF Earned, Dispatch
          <5>2. CASE j \notin Handled[w]
            BY <1>0, <3>0, <4>1, <4>2, <4>4, <5>2 DEF Earned, Dispatch
          <5> QED BY <5>1, <5>2
        <4>6. \A v \in Workers : Earned(worker[v], v)'
          BY <4>3, <4>4, <4>5, EarnedKept
        <4>7. RowsEarned'
          BY <1>0, <3>0, <4>2 DEF RowsEarned
        <4> QED BY <4>6, <4>7 DEF RowsEarned, EarnedOK
      <3> QED BY <2>2, <3>1, <3>2 DEF Claim
    <2>3. CASE HandlerSucceeds(w)
      <3>1. /\ succeeded' = succeeded \cup {job} /\ worker[w].pc = "handle"
            /\ worker' = [worker EXCEPT ![w] = [worker[w] EXCEPT !.pc = "complete"]]
            /\ UNCHANGED <<rows, dead, failures, cancelled>>
        BY <2>3 DEF HandlerSucceeds, Goto, Step
      <3>2. /\ worker'[w].pc = "complete" /\ worker'[w].job = job
            /\ \A v \in Workers : v # w => worker'[v] = worker[v]
        BY <1>0, <2>0, <3>1 DEF WorkerState
      <3>3. Earned(worker[w], w)'
        BY <2>0, <3>1, <3>2 DEF Earned
      <3>4. HistoryGrows
        BY <1>0, <3>1 DEF HistoryGrows
      <3>5. \A v \in Workers : Earned(worker[v], v)'
        BY <3>2, <3>3, <3>4, EarnedKept
      <3> QED BY <1>0, <3>1, <3>5 DEF EarnedOK, RowsEarned
    <2>4. CASE HandlerFails(w)
      <3> DEFINE n == worker[w].attempts + 1
      <3>1. /\ failures' = [failures EXCEPT ![job] = AtMost(MaxAttempts, @ + 1)]
            /\ worker[w].pc = "handle"
            /\ UNCHANGED <<rows, dead, succeeded, cancelled>>
        BY <2>4 DEF HandlerFails
      <3>2. /\ \A j \in JobIds : failures[j] <= failures'[j]
            /\ \A j \in JobIds : failures'[j] \in Nat
            /\ failures'[job] = AtMost(MaxAttempts, failures[job] + 1)
        <4>1. ASSUME NEW j \in JobIds PROVE failures[j] <= failures'[j] /\ failures'[j] \in Nat
          BY <1>0, <2>0, <3>1 DEF AtMost
        <4> QED BY <1>0, <2>0, <3>1, <4>1
      <3>3. HistoryGrows
        BY <3>1, <3>2 DEF HistoryGrows
      <3>4. n <= failures[job] + 1 /\ n \in Nat /\ n <= MaxAttempts
        BY <1>0, <2>0, <3>1 DEF Earned
      <3>5. rows[job].state # "absent"
        BY <2>0, <3>1 DEF Earned
      <3>6. Earned(worker[w], w)' /\ \A v \in Workers : v # w => worker'[v] = worker[v]
        <4>1. CASE /\ Exhausted(n)
                   /\ Goto(w, [worker[w] EXCEPT !.pc = "deadLetter", !.attempts = n])
          <5>1. /\ worker'[w].pc = "deadLetter" /\ worker'[w].job = job
                /\ \A v \in Workers : v # w => worker'[v] = worker[v]
            BY <1>0, <2>0, <4>1 DEF Goto, WorkerState
          <5>2. failures'[job] >= MaxAttempts
            BY <1>0, <2>0, <3>2, <3>4, <4>1 DEF Exhausted, AtMost
          <5> QED BY <3>1, <3>5, <5>1, <5>2 DEF Earned
        <4>2. ASSUME NEW d \in BackoffFor(n), ~Exhausted(n),
                     Goto(w, [worker[w] EXCEPT !.pc = "reschedule", !.attempts = n,
                                !.next = AtMost(MaxTime, now + d)])
              PROVE  Earned(worker[w], w)' /\ \A v \in Workers : v # w => worker'[v] = worker[v]
          <5>1. /\ worker'[w].pc = "reschedule" /\ worker'[w].job = job
                /\ worker'[w].attempts = n
                /\ \A v \in Workers : v # w => worker'[v] = worker[v]
            <6> HIDE DEF n
            <6> QED BY <1>0, <2>0, <4>2 DEF Goto, WorkerState
          <5>2. n <= failures'[job]
            BY <1>0, <2>0, <3>2, <3>4, <4>2 DEF Exhausted, AtMost
          <5> HIDE DEF n
          <5> QED BY <3>1, <3>5, <5>1, <5>2 DEF Earned
        <4> QED BY <2>4, <4>1, <4>2 DEF HandlerFails
      <3>7. \A v \in Workers : Earned(worker[v], v)'
        BY <3>3, <3>6, EarnedKept
      <3>8. \A j \in JobIds : rows'[j].attempts <= failures'[j]
        <4>1. ASSUME NEW j \in JobIds PROVE rows'[j].attempts <= failures'[j]
          <5>1. rows[j].attempts \in Int
            BY <1>0 DEF JobRow
          <5> QED BY <1>0, <3>1, <3>2, <5>1
        <4> QED BY <4>1
      <3> QED BY <1>0, <3>1, <3>7, <3>8 DEF EarnedOK, RowsEarned
    <2>5. CASE Complete(w)
      <3>1. /\ Delete(job) /\ Goto(w, Idle)
            /\ UNCHANGED <<dead, succeeded, failures, cancelled>>
        BY <2>5 DEF Complete, history
      <3>2. /\ HistoryGrows
            /\ \A k \in JobIds : rows'[k].attempts <= failures'[k]
            /\ \A k \in JobIds : rows[k].state = "deleted" => rows'[k].state = "deleted"
        BY <2>0, <3>1, DeleteEarned
      <3>3. \A v \in Workers : Earned(worker[v], v)'
        BY <3>1, <3>2, EarnedIdle, EarnedKept
      <3> QED BY <1>0, <3>1, <3>2, <3>3 DEF EarnedOK, RowsEarned
    <2>6. CASE Reschedule(w)
      <3>1. /\ rows' = [rows EXCEPT ![job] = IF Queued(job)
                 THEN [rows[job] EXCEPT !.next = worker[w].next,
                         !.attempts = worker[w].attempts, !.claimed = Unclaimed]
                 ELSE @]
            /\ Goto(w, Idle) /\ worker[w].pc = "reschedule"
            /\ UNCHANGED <<dead, succeeded, failures, cancelled>>
        BY <2>6 DEF Reschedule, Put, history
      <3>2. /\ \A k \in JobIds : rows'[k].state = rows[k].state
            /\ \A k \in JobIds : k # job => rows'[k] = rows[k]
            /\ rows'[job].attempts \in {rows[job].attempts, worker[w].attempts}
        BY <1>0, <2>0, <3>1 DEF JobRow
      <3>3. worker[w].attempts <= failures[job]
        BY <2>0, <3>1 DEF Earned
      <3>4. HistoryGrows
        BY <1>0, <3>1, <3>2 DEF HistoryGrows
      <3>5. \A v \in Workers : Earned(worker[v], v)'
        BY <3>1, <3>4, EarnedIdle, EarnedKept
      <3>6. \A j \in JobIds : rows'[j].attempts <= failures'[j]
        <4>1. ASSUME NEW j \in JobIds PROVE rows'[j].attempts <= failures'[j]
          <5>1. CASE j = job
            BY <1>0, <2>0, <3>1, <3>2, <3>3, <5>1
          <5>2. CASE j # job
            BY <1>0, <3>1, <3>2, <5>2
          <5> QED BY <5>1, <5>2
        <4> QED BY <4>1
      <3> QED BY <1>0, <3>1, <3>2, <3>5, <3>6 DEF EarnedOK, RowsEarned
    <2>7. CASE DeadLetter(w)
      <3>1. /\ dead' = IF Queued(job) THEN dead \cup {job} ELSE dead
            /\ Delete(job) /\ Goto(w, Idle)
            /\ UNCHANGED <<succeeded, failures, cancelled>>
        BY <2>7 DEF DeadLetter, history
      <3>2. /\ HistoryGrows
            /\ \A k \in JobIds : rows'[k].attempts <= failures'[k]
            /\ \A k \in JobIds : rows[k].state = "deleted" => rows'[k].state = "deleted"
        BY <2>0, <3>1, DeleteEarned
      <3>3. \A v \in Workers : Earned(worker[v], v)'
        BY <3>1, <3>2, EarnedIdle, EarnedKept
      <3>4. Queued(job) => rows'[job].state = "deleted"
        BY <2>0, <3>1, DeleteEffect
      <3> QED BY <1>0, <3>1, <3>2, <3>3, <3>4 DEF EarnedOK, RowsEarned
    <2> QED BY <1>3, <2>1, <2>2, <2>3, <2>4, <2>5, <2>6, <2>7 DEF WorkerStep
  <1>4. ASSUME NEW w \in Workers, GiveUp(w) PROVE EarnedOK'
    <2>1. Goto(w, Idle) /\ UNCHANGED <<rows, dead, succeeded, failures, cancelled>>
      BY <1>4 DEF GiveUp, history
    <2>2. HistoryGrows
      BY <1>0, <2>1 DEF HistoryGrows
    <2>3. \A v \in Workers : Earned(worker[v], v)'
      BY <2>1, <2>2, EarnedIdle, EarnedKept
    <2> QED BY <1>0, <2>1, <2>3 DEF EarnedOK, RowsEarned
  <1>5. CASE Tick
    BY <1>5 DEF Tick, history, EarnedOK, RowsEarned, Earned
  <1>6. CASE UNCHANGED vars
    BY <1>6 DEF vars, history, EarnedOK, RowsEarned, Earned
  <1> QED BY <1>1, <1>2, <1>3, <1>4, <1>5, <1>6 DEF Next

-----------------------------------------------------------------------------
\* Where the contract sees every job.
Where == [j \in JobIds |-> Standing(j)]

\* A job stands where it stood unless its row's state, or what the dead letters
\* or Cancel say of it, changes.
LEMMA StandingKept ==
  ASSUME NEW j \in JobIds, rows'[j].state = rows[j].state,
         j \in dead' <=> j \in dead, j \in cancelled' <=> j \in cancelled
  PROVE  Standing(j)' = Standing(j)
  BY DEF Standing

LEMMA WhereKept ==
  ASSUME \A j \in JobIds : rows'[j].state = rows[j].state,
         UNCHANGED <<dead, cancelled>>
  PROVE  Where' = Where
  <1>1. \A j \in JobIds : Standing(j)' = Standing(j)
    BY StandingKept
  <1> QED BY <1>1 DEF Where

\* A deletion of a queued row makes that job leave, and no other job moves.
LEMMA Leaves ==
  ASSUME TypeInv, NEW j \in JobIds, Delete(j), Queued(j),
         \A k \in JobIds : k # j => /\ k \in dead' <=> k \in dead
                                    /\ k \in cancelled' <=> k \in cancelled
  PROVE  /\ Where[j] = "waiting"
         /\ Where' = [Where EXCEPT ![j] = IF j \in dead' THEN "dead"
                                          ELSE IF j \in cancelled' THEN "cancelled"
                                          ELSE "done"]
  <1>1. ASSUME NEW k \in JobIds, k # j PROVE Standing(k)' = Standing(k)
    BY <1>1, DeleteEffect, StandingKept
  <1>2. Standing(j)' = IF j \in dead' THEN "dead"
                       ELSE IF j \in cancelled' THEN "cancelled" ELSE "done"
    <2>1. rows'[j].state = "deleted"
      BY DeleteEffect
    <2> QED BY <2>1 DEF Standing
  <1>3. Standing(j) = "waiting"
    BY DEF Standing, Queued
  <1> QED BY <1>1, <1>2, <1>3 DEF Where

LEMMA ContractInit == Init => Contract!Init
  <1> SUFFICES ASSUME Init PROVE Contract!Init
    OBVIOUS
  <1>1. \A j \in JobIds : Standing(j) = "unknown"
    BY DEF Init, Standing
  <1> QED BY <1>1 DEF Init, Contract!Init

\* Every step of the queue is a step of the contract, or none.
LEMMA ContractStep ==
  TypeInv /\ EarnedOK /\ [Next]_vars => [Contract!Next]_(Contract!contractVars)
  <1> SUFFICES ASSUME TypeInv, EarnedOK, [Next]_vars
               PROVE  [Contract!Next]_(Contract!contractVars)
    OBVIOUS
  <1>0. /\ rows \in [JobIds -> JobRow] /\ worker \in [Workers -> WorkerState]
        /\ failures \in [JobIds -> 0 .. MaxAttempts]
        /\ MaxAttempts \in Nat \ {0}
        /\ \A j \in dead \cup cancelled : rows[j].state = "deleted"
        /\ \A w \in Workers : Earned(worker[w], w)
    BY JobsAssumption DEF TypeInv, TypeOK, EarnedOK, RowsEarned
  <1>s. Where' = Where /\ UNCHANGED <<succeeded, failures>>
          => [Contract!Next]_(Contract!contractVars)
    BY DEF Where, Contract!contractVars
  <1>1. ASSUME NEW j \in JobIds, Enqueue(j) PROVE Contract!Next
    <2>1. /\ rows[j].state = "absent" /\ rows'[j].state = "queued"
          /\ \A k \in JobIds : k # j => rows'[k] = rows[k]
      BY <1>0, <1>1 DEF Enqueue, JobRow
    <2>2. UNCHANGED <<dead, succeeded, failures, cancelled>>
      BY <1>1 DEF Enqueue, history
    <2>3. \A k \in JobIds : k # j => Standing(k)' = Standing(k)
      BY <2>1, <2>2, StandingKept
    <2>4. Standing(j) = "unknown" /\ Standing(j)' = "waiting"
      BY <2>1 DEF Standing
    <2>5. Where[j] = "unknown" /\ Where' = [Where EXCEPT ![j] = "waiting"]
      BY <2>3, <2>4 DEF Where
    <2>6. Contract!Submit(j)
      BY <2>2, <2>5 DEF Where, Contract!Submit
    <2> QED BY <2>6 DEF Contract!Next
  <1>2. ASSUME NEW j \in JobIds, Cancel(j) PROVE Contract!Next
    <2>1. /\ Delete(j) /\ Queued(j) /\ cancelled' = cancelled \cup {j}
          /\ UNCHANGED <<dead, succeeded, failures>>
      BY <1>2 DEF Cancel, Cancellable
    <2>2. j \notin dead
      BY <1>0, <2>1 DEF Queued
    <2>3. Where[j] = "waiting" /\ Where' = [Where EXCEPT ![j] = "cancelled"]
      BY <2>1, <2>2, Leaves
    <2>4. Contract!Leave(j, "cancelled")
      BY <2>1, <2>3 DEF Where, Contract!Leave
    <2> QED BY <2>4 DEF Contract!Next, Contract!Settled
  <1>3. ASSUME NEW w \in Workers, WorkerStep(w)
        PROVE  [Contract!Next]_(Contract!contractVars)
    <2> DEFINE job == worker[w].job
    <2>0. job \in JobIds /\ Earned(worker[w], w) /\ rows[job] \in JobRow
      BY <1>0, TypeFacts
    <2>1. CASE Poll(w)
      BY <1>s, <2>1, WhereKept DEF Poll, history
    <2>2. CASE Claim(w)
      <3>1. UNCHANGED <<dead, succeeded, failures, cancelled>>
        BY <2>2 DEF Claim, history
      <3>2. \/ rows' = rows
            \/ \E j \in JobIds : rows' = [rows EXCEPT ![j].claimed = worker[w].at]
        BY <2>2 DEF Claim, Ready
      <3>3. \A k \in JobIds : rows'[k].state = rows[k].state
        BY <1>0, <3>2 DEF JobRow
      <3> QED BY <1>s, <3>1, <3>3, WhereKept
    <2>3. CASE HandlerSucceeds(w)
      <3>1. /\ succeeded' = succeeded \cup {job} /\ worker[w].pc = "handle"
            /\ UNCHANGED <<rows, dead, failures, cancelled>>
        BY <2>3 DEF HandlerSucceeds
      <3>2. Where[job] # "unknown"
        BY <2>0, <3>1 DEF Earned, Where, Standing
      <3>3. Where' = Where
        BY <3>1, WhereKept
      <3>4. Contract!Succeed(job)
        BY <3>1, <3>2, <3>3 DEF Where, Contract!Succeed
      <3> QED BY <2>0, <3>4 DEF Contract!Next
    <2>4. CASE HandlerFails(w)
      <3>1. /\ failures' = [failures EXCEPT ![job] = AtMost(MaxAttempts, @ + 1)]
            /\ worker[w].pc = "handle"
            /\ UNCHANGED <<rows, dead, succeeded, cancelled>>
        BY <2>4 DEF HandlerFails
      <3>2. Where[job] # "unknown"
        BY <2>0, <3>1 DEF Earned, Where, Standing
      <3>3. Where' = Where
        BY <3>1, WhereKept
      <3>4. failures' = [failures EXCEPT ![job] = IF @ < MaxAttempts THEN @ + 1 ELSE @]
        <4>1. failures[job] \in 0 .. MaxAttempts
          BY <1>0, <2>0
        <4>2. AtMost(MaxAttempts, failures[job] + 1)
                = IF failures[job] < MaxAttempts THEN failures[job] + 1 ELSE failures[job]
          BY <1>0, <4>1 DEF AtMost
        <4> QED BY <3>1, <4>2
      <3>5. Contract!Fail(job)
        BY <3>1, <3>2, <3>3, <3>4 DEF Where, Contract!Fail
      <3> QED BY <2>0, <3>5 DEF Contract!Next
    <2>5. CASE Complete(w)
      <3>1. /\ Delete(job) /\ worker[w].pc = "complete"
            /\ UNCHANGED <<dead, succeeded, failures, cancelled>>
        BY <2>5 DEF Complete, history
      <3>2. CASE Queued(job)
        <4>1. job \notin dead /\ job \notin cancelled
          BY <1>0, <3>2 DEF Queued
        <4>2. Where[job] = "waiting" /\ Where' = [Where EXCEPT ![job] = "done"]
          BY <2>0, <3>1, <3>2, <4>1, Leaves
        <4>3. job \in succeeded
          BY <2>0, <3>1 DEF Earned
        <4>4. Contract!Leave(job, "done")
          BY <3>1, <4>2, <4>3 DEF Where, Contract!Leave
        <4> QED BY <2>0, <4>4 DEF Contract!Next, Contract!Settled
      <3>3. CASE ~Queued(job)
        BY <1>s, <2>0, <3>1, <3>3, DeleteEffect, WhereKept
      <3> QED BY <3>2, <3>3
    <2>6. CASE Reschedule(w)
      <3>1. \A k \in JobIds : rows'[k].state = rows[k].state
        BY <1>0, <2>0, <2>6 DEF Reschedule, Put, JobRow
      <3>2. UNCHANGED <<dead, succeeded, failures, cancelled>>
        BY <2>6 DEF Reschedule, history
      <3> QED BY <1>s, <3>1, <3>2, WhereKept
    <2>7. CASE DeadLetter(w)
      <3>1. /\ dead' = IF Queued(job) THEN dead \cup {job} ELSE dead
            /\ Delete(job) /\ worker[w].pc = "deadLetter"
            /\ UNCHANGED <<succeeded, failures, cancelled>>
        BY <2>7 DEF DeadLetter, history
      <3>2. CASE Queued(job)
        <4>1. Where[job] = "waiting" /\ Where' = [Where EXCEPT ![job] = "dead"]
          BY <2>0, <3>1, <3>2, Leaves
        <4>2. \/ failures[job] >= MaxAttempts
              \/ job \notin {j \in JobIds : \A v \in Workers : j \in Handled[v]}
          BY <2>0, <3>1 DEF Earned
        <4>3. Contract!Leave(job, "dead")
          BY <3>1, <4>1, <4>2 DEF Where, Contract!Leave
        <4> QED BY <2>0, <4>3 DEF Contract!Next, Contract!Settled
      <3>3. CASE ~Queued(job)
        BY <1>s, <2>0, <3>1, <3>3, DeleteEffect, WhereKept
      <3> QED BY <3>2, <3>3
    <2> QED BY <1>3, <2>1, <2>2, <2>3, <2>4, <2>5, <2>6, <2>7 DEF WorkerStep
  <1>4. ASSUME NEW w \in Workers, GiveUp(w)
        PROVE  [Contract!Next]_(Contract!contractVars)
    BY <1>s, <1>4, WhereKept DEF GiveUp, history
  <1>5. CASE Tick
    BY <1>s, <1>5, WhereKept DEF Tick, history
  <1>6. CASE UNCHANGED vars
    BY <1>s, <1>6, WhereKept DEF vars, history
  <1> QED BY <1>1, <1>2, <1>3, <1>4, <1>5, <1>6 DEF Next

\* The queue over SQL implements the contract, whatever leases run out under
\* live workers: no job is lost between enqueue and its success, its last
\* failure or its cancellation, and none comes back (dispatch, Claim, Complete,
\* DeadLetter, Reschedule, Cancel).
THEOREM Implements == Spec => AtLeastOnce
  <1>1. Init => TypeInv /\ EarnedOK
    BY InitType, EarnedInit
  <1>2. TypeInv /\ EarnedOK /\ [Next]_vars => (TypeInv /\ EarnedOK)'
    BY TypeStep, EarnedStep
  <1>3. Spec => [](TypeInv /\ EarnedOK)
    BY <1>1, <1>2, PTL DEF Spec
  <1> QED BY <1>3, ContractInit, ContractStep, PTL DEF Spec, AtLeastOnce, Contract!Spec

-----------------------------------------------------------------------------
\* While no dispatch has outlived its lease, a worker that is not idle is within
\* its lease, and one at work stands behind the claim of its queued row.
Holds(w) ==
    /\ worker[w].pc # "idle" => now <= worker[w].at + Lease
    /\ AtWork(w) => /\ rows[worker[w].job].state = "queued"
                    /\ rows[worker[w].job].claimed = worker[w].at

Apart(v, w) ==
    AtWork(v) /\ AtWork(w) /\ worker[v].job = worker[w].job => v = w

LeaseInv ==
    ~overrun => /\ \A w \in Workers : Holds(w)
                /\ \A v, w \in Workers : Apart(v, w)

LEMMA LeaseInit == Init => LeaseInv
  <1> SUFFICES ASSUME Init PROVE LeaseInv
    OBVIOUS
  <1>1. \A w \in Workers : worker[w].pc = "idle"
    BY IdleType DEF Init
  <1> QED BY <1>1 DEF LeaseInv, Holds, Apart, AtWork

\* A worker that stops, and writes no row but its own, leaves the others' claims.
LEMMA LeaseIdle ==
  ASSUME TypeInv, LeaseInv, NEW w \in Workers, Goto(w, Idle),
         \A k \in JobIds : rows'[k] = rows[k] \/ (AtWork(w) /\ k = worker[w].job),
         UNCHANGED <<now, overrun>>
  PROVE  LeaseInv'
  <1> SUFFICES ASSUME ~overrun
               PROVE  /\ \A v \in Workers : Holds(v)'
                      /\ \A u, v \in Workers : Apart(u, v)'
    BY DEF LeaseInv
  <1>1. worker'[w] = Idle /\ \A v \in Workers : v # w => worker'[v] = worker[v]
    BY DEF Goto, TypeInv, TypeOK
  <1>2. ~AtWork(w)' /\ worker'[w].pc = "idle"
    BY <1>1, IdleType DEF AtWork
  <1>3. ASSUME NEW v \in Workers, v # w PROVE Holds(v)'
    <2>1. worker'[v] = worker[v] /\ Holds(v) /\ Apart(v, w) /\ worker[v].job \in JobIds
      BY <1>1, <1>3, TypeFacts DEF LeaseInv
    <2>2. AtWork(v) => rows'[worker[v].job] = rows[worker[v].job]
      BY <1>3, <2>1 DEF Apart
    <2> QED BY <2>1, <2>2 DEF Holds, AtWork
  <1>4. Holds(w)'
    BY <1>2 DEF Holds
  <1>5. ASSUME NEW u \in Workers, NEW v \in Workers PROVE Apart(u, v)'
    <2>1. CASE u = w \/ v = w
      BY <1>2, <2>1 DEF Apart
    <2>2. CASE u # w /\ v # w
      BY <1>1, <2>2 DEF LeaseInv, Apart, AtWork
    <2> QED BY <2>1, <2>2
  <1> QED BY <1>3, <1>4, <1>5

\* A worker that goes on with its job keeps its claim.
LEMMA LeaseOn ==
  ASSUME TypeInv, LeaseInv, NEW w \in Workers, AtWork(w), NEW s, Goto(w, s),
         s.pc \notin {"idle", "claim"}, s.job = worker[w].job, s.at = worker[w].at,
         UNCHANGED <<now, rows, overrun>>
  PROVE  LeaseInv'
  <1> SUFFICES ASSUME ~overrun
               PROVE  /\ \A v \in Workers : Holds(v)'
                      /\ \A u, v \in Workers : Apart(u, v)'
    BY DEF LeaseInv
  <1>1. worker'[w] = s /\ \A v \in Workers : v # w => worker'[v] = worker[v]
    BY DEF Goto, TypeInv, TypeOK
  <1>2. \A v \in Workers : /\ worker'[v].job = worker[v].job
                           /\ worker'[v].at = worker[v].at
                           /\ AtWork(v)' <=> AtWork(v)
                           /\ worker'[v].pc # "idle" => worker[v].pc # "idle"
    <2>1. ASSUME NEW v \in Workers, v # w
          PROVE  worker'[v] = worker[v] /\ (AtWork(v)' <=> AtWork(v))
      BY <1>1, <2>1 DEF AtWork
    <2>2. AtWork(w)' /\ worker[w].pc # "idle"
      BY <1>1 DEF AtWork
    <2> QED BY <1>1, <2>1, <2>2
  <1>3. ASSUME NEW v \in Workers PROVE Holds(v)'
    <2>1. Holds(v)
      BY DEF LeaseInv
    <2> QED BY <1>2, <2>1 DEF Holds
  <1>4. ASSUME NEW u \in Workers, NEW v \in Workers PROVE Apart(u, v)'
    <2>1. Apart(u, v)
      BY DEF LeaseInv
    <2> QED BY <1>2, <2>1 DEF Apart
  <1> QED BY <1>3, <1>4

\* Writes to rows that no worker at work has claimed disturb no claim.
LEMMA LeaseAside ==
  ASSUME TypeInv, LeaseInv, UNCHANGED <<now, worker, overrun>>,
         NEW j \in JobIds, \A k \in JobIds : k # j => rows'[k] = rows[k],
         rows[j].state # "queued" \/ rows[j].claimed = Unclaimed
  PROVE  LeaseInv'
  <1> SUFFICES ASSUME ~overrun
               PROVE  /\ \A v \in Workers : Holds(v)'
                      /\ \A u, v \in Workers : Apart(u, v)'
    BY DEF LeaseInv
  <1>1. ASSUME NEW v \in Workers PROVE Holds(v)'
    <2>1. Holds(v) /\ worker[v].job \in JobIds /\ worker[v].at \in Nat
      BY TypeFacts DEF LeaseInv, WorkerState
    <2>2. AtWork(v) => worker[v].job # j
      BY <2>1, IdleType DEF Holds
    <2>3. AtWork(v) => rows'[worker[v].job] = rows[worker[v].job]
      BY <2>1, <2>2
    <2> QED BY <2>1, <2>3 DEF Holds, AtWork
  <1>2. \A u, v \in Workers : Apart(u, v)'
    BY DEF LeaseInv, Apart, AtWork
  <1> QED BY <1>1, <1>2

\* A claim that is free is held by no worker at work: the lease of a holder has
\* not run out, so its claimed_at is not older than the lease.
LEMMA LeaseClaim ==
  ASSUME TypeInv, LeaseInv, ~overrun, NEW w \in Workers,
         NEW j \in Ready(worker[w].at), NEW v \in Workers, AtWork(v)
  PROVE  worker[v].job # j
  <1>1. /\ Holds(v) /\ worker[v].at \in Nat /\ worker[w].at \in Nat /\ now \in Nat
        /\ worker[w].at <= now /\ Lease \in Nat /\ worker[v].pc # "idle"
    BY TypeFacts DEF LeaseInv, WorkerState, AtWork
  <1>2. rows[j].claimed = Unclaimed \/ rows[j].claimed < worker[w].at - Lease
    BY DEF Ready, Free
  <1> SUFFICES ASSUME worker[v].job = j PROVE FALSE
    OBVIOUS
  <1>3. rows[j].claimed = worker[v].at /\ now <= worker[v].at + Lease
    BY <1>1 DEF Holds
  <1> QED BY <1>1, <1>2, <1>3, IdleType

LEMMA LeaseStep == TypeInv /\ LeaseInv /\ [Next]_vars => LeaseInv'
  <1> SUFFICES ASSUME TypeInv, LeaseInv, [Next]_vars PROVE LeaseInv'
    OBVIOUS
  <1>0. /\ rows \in [JobIds -> JobRow] /\ worker \in [Workers -> WorkerState]
        /\ now \in Nat /\ Lease \in Nat
    BY JobsAssumption DEF TypeInv, TypeOK, Times
  <1>1. ASSUME NEW j \in JobIds, Enqueue(j) PROVE LeaseInv'
    <2>1. /\ rows[j].state = "absent"
          /\ \A k \in JobIds : k # j => rows'[k] = rows[k]
          /\ UNCHANGED <<now, worker, overrun>>
      BY <1>0, <1>1 DEF Enqueue
    <2> QED BY <2>1, LeaseAside
  <1>2. ASSUME NEW j \in JobIds, Cancel(j) PROVE LeaseInv'
    <2>1. /\ Delete(j) /\ rows[j].claimed = Unclaimed
          /\ UNCHANGED <<now, worker, overrun>>
      BY <1>2 DEF Cancel, Cancellable
    <2>2. \A k \in JobIds : k # j => rows'[k] = rows[k]
      BY <2>1, DeleteEffect
    <2> QED BY <2>1, <2>2, LeaseAside
  <1>3. ASSUME NEW w \in Workers, WorkerStep(w) PROVE LeaseInv'
    <2> DEFINE job == worker[w].job
    <2>0. worker[w] \in WorkerState /\ job \in JobIds
      BY TypeFacts
    <2>1. CASE Poll(w)
      <3>1. /\ worker' = [worker EXCEPT ![w] = [Idle EXCEPT !.pc = "claim", !.at = now]]
            /\ UNCHANGED <<now, rows, overrun>>
        BY <2>1 DEF Poll, Goto
      <3>2. /\ worker'[w].pc = "claim" /\ worker'[w].at = now
            /\ \A v \in Workers : v # w => worker'[v] = worker[v]
        BY <1>0, <3>1, IdleType DEF WorkerState
      <3>3. ~AtWork(w)' /\ Holds(w)'
        BY <1>0, <3>1, <3>2 DEF AtWork, Holds
      <3>4. ~overrun => \A v \in Workers : Holds(v)'
        BY <3>1, <3>2, <3>3 DEF LeaseInv, Holds, AtWork
      <3>5. ~overrun => \A u, v \in Workers : Apart(u, v)'
        BY <3>2, <3>3 DEF LeaseInv, Apart, AtWork
      <3> QED BY <3>1, <3>4, <3>5 DEF LeaseInv
    <2>2. CASE Claim(w)
      <3>0. worker[w].pc = "claim" /\ UNCHANGED <<now, overrun>>
        BY <2>2 DEF Claim
      <3>1. CASE Goto(w, Idle) /\ UNCHANGED rows
        BY <3>0, <3>1, LeaseIdle
      <3>2. ASSUME NEW j \in Ready(worker[w].at),
                   rows' = [rows EXCEPT ![j].claimed = worker[w].at],
                   Goto(w, [worker[w] EXCEPT !.pc = Dispatch(w, j), !.job = j,
                                             !.attempts = rows[j].attempts])
            PROVE  LeaseInv'
        <4> SUFFICES ASSUME ~overrun
                     PROVE  /\ \A v \in Workers : Holds(v)'
                            /\ \A u, v \in Workers : Apart(u, v)'
          BY <3>0 DEF LeaseInv
        <4>1. j \in JobIds /\ rows[j].state = "queued"
          BY DEF Ready, Queued
        <4>2. /\ rows'[j].state = "queued" /\ rows'[j].claimed = worker[w].at
              /\ \A k \in JobIds : k # j => rows'[k] = rows[k]
          BY <1>0, <3>2, <4>1 DEF JobRow
        <4>3. /\ worker'[w].pc = Dispatch(w, j) /\ worker'[w].job = j
              /\ worker'[w].at = worker[w].at
              /\ \A v \in Workers : v # w => worker'[v] = worker[v]
          BY <1>0, <3>2 DEF Goto, WorkerState
        <4>4. Holds(w)'
          BY <3>0, <4>2, <4>3 DEF Holds, LeaseInv
        <4>5. ASSUME NEW v \in Workers, v # w
              PROVE  Holds(v)' /\ (AtWork(v)' => worker'[v].job # j)
          <5>1. worker'[v] = worker[v] /\ Holds(v) /\ worker[v].job \in JobIds
            BY <4>3, <4>5, TypeFacts DEF LeaseInv
          <5>2. AtWork(v) => worker[v].job # j
            BY LeaseClaim
          <5> QED BY <3>0, <4>2, <5>1, <5>2 DEF Holds, AtWork
        <4>6. ASSUME NEW u \in Workers, NEW v \in Workers PROVE Apart(u, v)'
          <5>1. CASE u # w /\ v # w
            BY <4>3, <5>1 DEF LeaseInv, Apart, AtWork
          <5>2. CASE u = w \/ v = w
            BY <4>3, <4>5, <5>2 DEF Apart
          <5> QED BY <5>1, <5>2
        <4> QED BY <4>4, <4>5, <4>6
      <3> QED BY <2>2, <3>1, <3>2 DEF Claim
    <2>3. CASE HandlerSucceeds(w)
      <3> DEFINE s == [worker[w] EXCEPT !.pc = "complete"]
      <3>1. /\ AtWork(w) /\ Goto(w, s) /\ UNCHANGED <<now, rows, overrun>>
        BY <2>3 DEF HandlerSucceeds, Step, AtWork
      <3>2. s.pc = "complete" /\ s.job = job /\ s.at = worker[w].at
        BY <2>0 DEF WorkerState
      <3> HIDE DEF s
      <3> QED BY <3>1, <3>2, LeaseOn
    <2>4. CASE HandlerFails(w)
      <3> DEFINE n == worker[w].attempts + 1
      <3>1. AtWork(w) /\ UNCHANGED <<now, rows, overrun>>
        BY <2>4 DEF HandlerFails, AtWork
      <3>2. CASE Goto(w, [worker[w] EXCEPT !.pc = "deadLetter", !.attempts = n])
        <4> DEFINE s == [worker[w] EXCEPT !.pc = "deadLetter", !.attempts = n]
        <4>1. s.pc = "deadLetter" /\ s.job = job /\ s.at = worker[w].at
          <5> HIDE DEF n
          <5> QED BY <2>0 DEF WorkerState
        <4>2. Goto(w, s)
          BY <3>2
        <4> HIDE DEF s
        <4> QED BY <3>1, <4>1, <4>2, LeaseOn
      <3>3. ASSUME NEW d,
                   Goto(w, [worker[w] EXCEPT !.pc = "reschedule", !.attempts = n,
                              !.next = AtMost(MaxTime, now + d)])
            PROVE  LeaseInv'
        <4> DEFINE at == AtMost(MaxTime, now + d)
                   s == [worker[w] EXCEPT !.pc = "reschedule", !.attempts = n,
                                          !.next = at]
        <4>1. s.pc = "reschedule" /\ s.job = job /\ s.at = worker[w].at
          <5> HIDE DEF n, at
          <5> QED BY <2>0 DEF WorkerState
        <4>2. Goto(w, s)
          BY <3>3
        <4> HIDE DEF s
        <4> QED BY <3>1, <4>1, <4>2, LeaseOn
      <3> QED BY <2>4, <3>2, <3>3 DEF HandlerFails
    <2>5. CASE Complete(w)
      <3>1. AtWork(w) /\ Delete(job) /\ Goto(w, Idle) /\ UNCHANGED <<now, overrun>>
        BY <2>5 DEF Complete, AtWork
      <3>2. \A k \in JobIds : k # job => rows'[k] = rows[k]
        BY <2>0, <3>1, DeleteEffect
      <3> QED BY <3>1, <3>2, LeaseIdle
    <2>6. CASE Reschedule(w)
      <3>1. AtWork(w) /\ Goto(w, Idle) /\ UNCHANGED <<now, overrun>>
        BY <2>6 DEF Reschedule, AtWork
      <3>2. \A k \in JobIds : k # job => rows'[k] = rows[k]
        BY <1>0, <2>0, <2>6 DEF Reschedule, Put
      <3> QED BY <3>1, <3>2, LeaseIdle
    <2>7. CASE DeadLetter(w)
      <3>1. AtWork(w) /\ Delete(job) /\ Goto(w, Idle) /\ UNCHANGED <<now, overrun>>
        BY <2>7 DEF DeadLetter, AtWork
      <3>2. \A k \in JobIds : k # job => rows'[k] = rows[k]
        BY <2>0, <3>1, DeleteEffect
      <3> QED BY <3>1, <3>2, LeaseIdle
    <2> QED BY <1>3, <2>1, <2>2, <2>3, <2>4, <2>5, <2>6, <2>7 DEF WorkerStep
  <1>4. ASSUME NEW w \in Workers, GiveUp(w) PROVE LeaseInv'
    <2>1. Goto(w, Idle) /\ UNCHANGED <<now, rows, overrun>>
      BY <1>4 DEF GiveUp
    <2> QED BY <2>1, LeaseIdle
  <1>5. CASE Tick
    <2>1. /\ now' = now + 1 /\ UNCHANGED <<rows, worker>>
          /\ ~overrun' => /\ ~overrun
                          /\ \A w \in Workers : worker[w].pc # "idle"
                                                  => ~(now >= worker[w].at + Lease)
      BY <1>5 DEF Tick
    <2>2. ASSUME ~overrun', NEW w \in Workers PROVE Holds(w)'
      <3>1. Holds(w) /\ worker[w].at \in Nat
        BY <2>1, <2>2, TypeFacts DEF LeaseInv, WorkerState
      <3>2. worker[w].pc # "idle" => now + 1 <= worker[w].at + Lease
        BY <1>0, <2>1, <2>2, <3>1
      <3> QED BY <2>1, <3>1, <3>2 DEF Holds, AtWork
    <2>3. ~overrun' => \A v, w \in Workers : Apart(v, w)'
      BY <2>1 DEF LeaseInv, Apart, AtWork
    <2> QED BY <2>2, <2>3 DEF LeaseInv
  <1>6. CASE UNCHANGED vars
    BY <1>6 DEF vars, history, LeaseInv, Holds, Apart, AtWork
  <1> QED BY <1>1, <1>2, <1>3, <1>4, <1>5, <1>6 DEF Next

\* Two workers are never at work on the same job while no dispatch has outlived
\* its lease: the claimed_at that Claim's UPDATE compares keeps every other
\* worker away, whatever deletes, reschedules and failures happen around it.
THEOREM DispatchExcludes == Spec => []OneDispatch
  <1>1. TypeInv /\ LeaseInv => OneDispatch
    BY DEF LeaseInv, Apart, OneDispatch
  <1>2. Init => TypeInv /\ LeaseInv
    BY InitType, LeaseInit
  <1>3. TypeInv /\ LeaseInv /\ [Next]_vars => (TypeInv /\ LeaseInv)'
    BY TypeStep, LeaseStep
  <1> QED BY <1>1, <1>2, <1>3, PTL DEF Spec

\* Once Cancel has returned nil no worker is at work on the job while no dispatch
\* has outlived its lease: Cancel's claimed_at IS NULL and the claim exclude
\* each other.
THEOREM CancelStops == Spec => []CancelExcludes
  <1>1. TypeInv /\ EarnedOK /\ LeaseInv => CancelExcludes
    <2> SUFFICES ASSUME EarnedOK, LeaseInv, ~overrun, NEW w \in Workers, AtWork(w)
                 PROVE  worker[w].job \notin cancelled
      BY DEF CancelExcludes
    <2> QED BY DEF EarnedOK, RowsEarned, LeaseInv, Holds
  <1>2. Init => TypeInv /\ EarnedOK /\ LeaseInv
    BY InitType, EarnedInit, LeaseInit
  <1>3. TypeInv /\ EarnedOK /\ LeaseInv /\ [Next]_vars => (TypeInv /\ EarnedOK /\ LeaseInv)'
    BY TypeStep, EarnedStep, LeaseStep
  <1> QED BY <1>1, <1>2, <1>3, PTL DEF Spec

-----------------------------------------------------------------------------
\* A success that calls for no further one: the row is gone or about to be.
Finished(j) ==
    \/ rows[j].state = "deleted"
    \/ \E w \in Workers : worker[w].pc = "complete" /\ worker[w].job = j

\* Every other success was paid for by a worker that gave up.
Paid(j) ==
    \/ successes[j] <= faults
    \/ successes[j] <= 1 + faults /\ Finished(j)

CountInv == ~overrun => \A j \in JobIds : Paid(j)

LEMMA CountInit == Init => CountInv
  <1>1. 0 <= 0
    OBVIOUS
  <1>2. Init => \A j \in JobIds : successes[j] = 0 /\ faults = 0
    BY DEF Init
  <1> QED BY <1>1, <1>2, Zenon DEF CountInv, Paid

\* No statement brings a deleted row back.
LEMMA DeletedStays ==
  ASSUME TypeInv, [Next]_vars, NEW j \in JobIds, rows[j].state = "deleted"
  PROVE  rows'[j].state = "deleted"
  <1>0. rows \in [JobIds -> JobRow] /\ \A w \in Workers : worker[w].job \in JobIds
    BY TypeFacts DEF TypeInv, TypeOK
  <1>1. ASSUME NEW k \in JobIds, Enqueue(k) PROVE rows'[j] = rows[j]
    BY <1>0, <1>1 DEF Enqueue
  <1>2. ASSUME NEW k \in JobIds, Delete(k) PROVE rows'[j].state = "deleted"
    BY <1>2, DeleteEffect
  <1>3. ASSUME NEW w \in Workers, Claim(w) PROVE rows'[j] = rows[j]
    BY <1>0, <1>3 DEF Claim, Ready, Queued
  <1>4. ASSUME NEW w \in Workers, Reschedule(w) PROVE rows'[j] = rows[j]
    BY <1>0, <1>4 DEF Reschedule, Put, Queued
  <1>5. ASSUME rows' = rows PROVE rows'[j] = rows[j]
    BY <1>5
  <1>6. ASSUME NEW w \in Workers, WorkerStep(w) \/ GiveUp(w) PROVE rows'[j].state = "deleted"
    BY <1>0, <1>2, <1>3, <1>4, <1>5, <1>6 DEF WorkerStep, Poll, HandlerSucceeds,
       HandlerFails, Complete, DeadLetter, GiveUp
  <1> QED BY <1>1, <1>2, <1>5, <1>6 DEF Next, Cancel, Tick, vars

\* A step that is no success keeps what is paid for.
LEMMA PaidKept ==
  ASSUME TypeInv, [Next]_vars, NEW j \in JobIds, Paid(j), successes'[j] = successes[j],
         \/ faults' = faults + 1
         \/ /\ faults' = faults
            /\ \A w \in Workers : worker[w].pc = "complete" /\ worker[w].job = j
                                    => worker'[w] = worker[w] \/ rows'[j].state = "deleted"
  PROVE  Paid(j)'
  <1>1. faults \in Nat /\ successes[j] \in Nat
    BY JobsAssumption DEF TypeInv, TypeOK, SuccessCap
  <1>2. CASE faults' = faults + 1
    BY <1>1, <1>2 DEF Paid
  <1>3. CASE faults' = faults
    <2>1. Finished(j) => Finished(j)'
      BY <1>1, <1>3, DeletedStays DEF Finished
    <2> HIDE DEF Finished
    <2> QED BY <1>1, <1>3, <2>1 DEF Paid
  <1> QED BY <1>2, <1>3

LEMMA CountStep == TypeInv /\ LeaseInv /\ CountInv /\ [Next]_vars => CountInv'
  <1> SUFFICES ASSUME TypeInv, LeaseInv, CountInv, [Next]_vars, ~overrun',
                      NEW j \in JobIds
               PROVE  Paid(j)'
    BY DEF CountInv
  <1> USE DEF history
  <1>0. /\ worker \in [Workers -> WorkerState] /\ successes \in [JobIds -> 0 .. SuccessCap]
        /\ SuccessCap \in Nat /\ faults \in Nat /\ successes[j] \in Nat
    BY JobsAssumption DEF TypeInv, TypeOK, SuccessCap
  <1>1. ~overrun
    BY DEF Next, Enqueue, Cancel, WorkerStep, Poll, Claim, HandlerSucceeds, HandlerFails,
           Complete, Reschedule, DeadLetter, GiveUp, Tick, vars
  <1>2. Paid(j)
    BY <1>1 DEF CountInv
  <1>3. CASE (\E k \in JobIds : Enqueue(k) \/ Cancel(k)) \/ Tick \/ UNCHANGED vars
    <2>1. UNCHANGED <<worker, successes, faults>>
      BY <1>3 DEF Enqueue, Cancel, Tick, vars
    <2> QED BY <1>2, <2>1, PaidKept
  <1>4. ASSUME NEW w \in Workers, WorkerStep(w) \/ GiveUp(w) PROVE Paid(j)'
    <2>1. CASE GiveUp(w)
      BY <1>2, <2>1, PaidKept DEF GiveUp
    <2>2. CASE Complete(w)
      <3>1. /\ Delete(worker[w].job) /\ Goto(w, Idle) /\ UNCHANGED <<successes, faults>>
            /\ AtWork(w) /\ worker[w].job \in JobIds
        BY <2>2, TypeFacts DEF Complete, AtWork
      <3>2. Queued(worker[w].job)
        BY <1>1, <3>1 DEF LeaseInv, Holds, Queued
      <3>3. rows'[worker[w].job].state = "deleted"
        BY <3>1, <3>2, DeleteEffect
      <3>4. \A v \in Workers : v # w => worker'[v] = worker[v]
        BY <1>0, <3>1 DEF Goto
      <3> QED BY <1>2, <3>1, <3>3, <3>4, PaidKept
    <2>3. CASE HandlerSucceeds(w) /\ worker[w].job = j
      <3>1. /\ AtWork(w) /\ worker[w].pc = "handle" /\ UNCHANGED <<rows, faults>>
            /\ worker' = [worker EXCEPT ![w] = Step(w, "complete")]
            /\ successes'[j] = AtMost(SuccessCap, successes[j] + 1)
        BY <1>0, <2>3 DEF HandlerSucceeds, AtWork, Goto
      <3>2. rows[j].state = "queued"
        BY <1>1, <2>3, <3>1 DEF LeaseInv, Holds
      <3>3. ASSUME NEW v \in Workers, worker[v].pc = "complete", worker[v].job = j
            PROVE  FALSE
        <4>1. AtWork(v) /\ Apart(v, w)
          BY <1>1, <3>3 DEF LeaseInv, AtWork
        <4> QED BY <2>3, <3>1, <3>3, <4>1 DEF Apart
      <3>4. successes[j] <= faults
        BY <1>2, <3>2, <3>3 DEF Paid, Finished
      <3>5. worker'[w].pc = "complete" /\ worker'[w].job = j
        BY <1>0, <2>3, <3>1 DEF Step, WorkerState
      <3>6. Finished(j)'
        BY <3>5 DEF Finished
      <3>7. successes'[j] <= successes[j] + 1 /\ successes'[j] \in Nat
        BY <1>0, <3>1 DEF AtMost
      <3> HIDE DEF Finished
      <3> QED BY <1>0, <3>1, <3>4, <3>6, <3>7 DEF Paid
    <2>4. CASE HandlerSucceeds(w) /\ worker[w].job # j
      <3>1. /\ successes'[j] = successes[j] /\ faults' = faults
            /\ \A v \in Workers : v # w => worker'[v] = worker[v]
        BY <1>0, <2>4 DEF HandlerSucceeds, Goto
      <3> QED BY <1>2, <2>4, <3>1, PaidKept
    <2>5. CASE Poll(w) \/ Claim(w) \/ HandlerFails(w) \/ Reschedule(w) \/ DeadLetter(w)
      <3>1. /\ successes' = successes /\ faults' = faults /\ worker[w].pc # "complete"
            /\ \A v \in Workers : v # w => worker'[v] = worker[v]
        BY <1>0, <2>5 DEF Poll, Claim, HandlerFails, Reschedule, DeadLetter, Goto
      <3> QED BY <1>2, <3>1, PaidKept
    <2> QED BY <1>4, <2>1, <2>2, <2>3, <2>4, <2>5 DEF WorkerStep
  <1> QED BY <1>3, <1>4 DEF Next

\* A handler succeeds once, and once more only for a worker that gave up between
\* its success and the deletion of the row (dispatch's comment), while no
\* dispatch has outlived its lease.
THEOREM SuccessPaidFor == Spec => []SuccessOncePerFault
  <1>1. TypeInv /\ CountInv => SuccessOncePerFault
    <2>1. TypeInv => faults \in Nat /\ \A j \in JobIds : successes[j] \in Nat
      BY JobsAssumption DEF TypeInv, TypeOK, SuccessCap
    <2>2. ASSUME TypeInv, NEW j \in JobIds, Paid(j) PROVE successes[j] <= 1 + faults
      BY <2>1, <2>2 DEF Paid
    <2> QED BY <2>2 DEF CountInv, SuccessOncePerFault
  <1>2. Init => TypeInv /\ LeaseInv /\ CountInv
    BY InitType, LeaseInit, CountInit
  <1>3. TypeInv /\ LeaseInv /\ CountInv /\ [Next]_vars => (TypeInv /\ LeaseInv /\ CountInv)'
    BY TypeStep, LeaseStep, CountStep
  <1> QED BY <1>1, <1>2, <1>3, PTL DEF Spec
=============================================================================
