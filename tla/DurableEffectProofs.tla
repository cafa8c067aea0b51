------------------------ MODULE DurableEffectProofs ------------------------
(***************************************************************************)
(* Theorems about Durable for pollers that keep to their lease: what is    *)
(* behind a poller stays journalled, a replay takes the path of the first  *)
(* execution, and an effect happens once, and once more only for a fault.  *)
(*                                                                         *)
(* None of these is inductive.  A poller that executes a run holds it      *)
(* alone (LeaseInv), so nobody settles it meanwhile (StatusInv) and nobody *)
(* records a result it has missed (MissInv).  That an effect is not paid   *)
(* for twice (CountInv) also needs that compact leaves alone every run a   *)
(* poller may still reopen, since the guarded UPDATE of claim does not     *)
(* look at the status (SelectInv).                                         *)
(***************************************************************************)
EXTENDS DurableBodyProofs

\* A run that is being executed is not settled.
StatusInv ==
    \A w \in Workers : Executing(w) => runs[worker[w].run].status \in Claimable

\* A poller that found no result in the journal is about to be the first.
MissInv ==
    \A w \in Workers : worker[w].pc \in {"run", "journal"} =>
        journal[worker[w].run][Op(w).id] = None

HeldInv == StatusInv /\ MissInv /\ PositionJournalled

\* An operation a restart would find done.
Kept(r, i) ==
    IF Body[r][i].kind = "await" THEN <<r, Body[r][i].id>> \in signals
    ELSE journal[r][Body[r][i].id] # None

\* ... after the step.
KeptBy(r, i) ==
    IF Body[r][i].kind = "await" THEN <<r, Body[r][i].id>> \in signals'
    ELSE journal'[r][Body[r][i].id] # None

LEMMA HeldInit == Init => HeldInv
  BY IdleType DEF Init, HeldInv, StatusInv, MissInv, PositionJournalled, Executing,
                  BodyPcs, SettlePcs

\* What the poller of a step holds: its run is open, and its alone.
LEMMA Held ==
  ASSUME TypeInv, CodeInv, LeaseInv, HeldInv, NEW w \in Workers, Executing(w)
  PROVE  /\ runs[Here(w).run].status \in Claimable
         /\ \A v \in Workers : v # w /\ Executing(v) => worker[v].run # Here(w).run
  BY DEF HeldInv, StatusInv, LeaseInv, OneExecutor, Here

LEMMA StatusKept ==
  ASSUME TypeInv, CodeInv, LeaseInv, HeldInv, ~LostReplies, NEW w \in Workers,
         Alone(w), Shape(w)
  PROVE  StatusInv'
  <1> USE DEF tables
  <1>1. /\ Here(w).run \in Runs /\ "running" \in Claimable /\ "waiting" \in Claimable
        /\ \A v \in Workers : worker[v].run \in Runs
    BY HereFacts DEF Here, Claimable
  <1>2. \A v \in Workers : Executing(v) => runs[worker[v].run].status \in Claimable
    BY DEF HeldInv, StatusInv
  <1>3. Here(w).pc \in BodyPcs \cup SettlePcs => Executing(w)
    BY DEF Here, Executing
  <1>4. ASSUME NEW v \in Workers, v # w, Executing(v)'
        PROVE  runs'[worker'[v].run].status \in Claimable
    <2>1. worker'[v] = worker[v] /\ Executing(v)
      BY <1>4 DEF Alone, Executing
    <2>2. CASE runs' = runs
      BY <1>2, <2>1, <2>2
    <2>3. CASE Takes(w)
      BY <1>1, <1>2, <2>1, <2>3 DEF Takes, OtherRows
    <2>4. CASE Suspends(w)
      <3>1. Executing(w)
        BY <1>3, <2>4 DEF Suspends, BodyPcs
      <3> QED BY <1>1, <1>2, <2>1, <2>4, <3>1, Held DEF Suspends, OtherRows
    <2>5. CASE Settles(w)
      <3>1. Executing(w)
        BY <1>3, <2>5 DEF Settles, SettlesAs, BodyPcs, SettlePcs
      <3> QED BY <1>1, <1>2, <1>4, <2>1, <2>5, <3>1, Held DEF Settles, OtherRows
    <2> QED BY <2>2, <2>3, <2>4, <2>5 DEF Shape, Begins, Selects, Stops, Passes, Reaches,
                                       Performs, Records
  <1>5. ASSUME Then(w).pc \in BodyPcs \cup SettlePcs
        PROVE  runs'[Then(w).run].status \in Claimable
    <2>1. CASE Takes(w)
      BY <1>1, <2>1 DEF Takes, LostReply, StaysAt, Stays
    <2>2. CASE ~Takes(w)
      <3>1. Here(w).pc \in BodyPcs \cup SettlePcs /\ Then(w).run = Here(w).run
        BY <1>5, <2>2 DEF Shape, Begins, Selects, Stops, Passes, Reaches, Performs, Records,
              Suspends, Settles, LostReply, Errs, GoesOn, StaysAt, Stays, InBody, Here,
              BodyPcs, SettlePcs
      <3>2. runs[Here(w).run].status \in Claimable
        BY <1>3, <3>1, Held
      <3> QED BY <1>1, <1>5, <2>2, <3>1, <3>2 DEF Shape, Begins, Selects, Stops, Passes,
              Reaches, Performs, Records, Suspends, Settles, LostReply, BodyPcs, SettlePcs
    <2> QED BY <2>1, <2>2
  <1> QED BY <1>4, <1>5 DEF StatusInv, Executing, Then

LEMMA MissKept ==
  ASSUME TypeInv, CodeInv, LeaseInv, HeldInv, ~LostReplies, NEW w \in Workers,
         Alone(w), Shape(w)
  PROVE  MissInv'
  <1> USE DEF tables
  <1>1. ASSUME NEW v \in Workers, v # w, worker'[v].pc \in {"run", "journal"}
        PROVE  journal'[worker'[v].run][Body[worker'[v].run][worker'[v].ip].id] = None
    <2> DEFINE k == Body[worker[v].run][worker[v].ip].id
    <2>1. worker'[v] = worker[v] /\ journal[worker[v].run][k] = None
      BY <1>1 DEF Alone, HeldInv, MissInv, Op
    <2>2. CASE journal' = journal
      BY <2>1, <2>2
    <2>3. CASE Records(w)
      <3>1. Executing(w) /\ Executing(v) /\ worker[v].run # Here(w).run
        BY <1>1, <2>1, <2>3, Held DEF Records, Executing, BodyPcs, Here
      <3>2. worker[v].run \in Runs /\ k \in StepIds
        BY <1>1, <2>1, HereFacts, OpType DEF Good, OpAt, Here
      <3> HIDE DEF k
      <3>3. journal'[worker[v].run][k] = journal[worker[v].run][k]
        BY <2>3, <3>1, <3>2 DEF Records
      <3> QED BY <2>1, <3>3 DEF k
    <2> QED BY <2>2, <2>3 DEF Shape, Begins, Selects, Stops, Takes, Passes, Reaches,
                              Performs, Suspends, Settles
  <1>2. ASSUME Then(w).pc \in {"run", "journal"}
        PROVE  journal'[Then(w).run][Body[Then(w).run][Then(w).ip].id] = None
    <2>1. CASE Reaches(w)
      BY <1>2, <2>1 DEF Reaches, StaysAt, Stays, Journalled, Op, Here, Then
    <2>2. CASE Performs(w)
      BY <2>2 DEF Performs, StaysAt, Stays, Op, Here, HeldInv, MissInv
    <2>3. Reaches(w) \/ Performs(w)
      BY <1>2 DEF Shape, Begins, Selects, Stops, Takes, Passes, Records, Suspends, Settles,
                  LostReply, Errs, GoesOn, Advance
    <2> QED BY <2>1, <2>2, <2>3
  <1> QED BY <1>1, <1>2 DEF MissInv, Op, Then

LEMMA PositionKept ==
  ASSUME TypeInv, CodeInv, LeaseInv, HeldInv, ~LostReplies, NEW w \in Workers,
         Alone(w), Shape(w)
  PROVE  PositionJournalled'
  <1> USE DEF tables
  <1> DEFINE r == Here(w).run
             ip == Here(w).ip
  <1>0. /\ r \in Runs /\ ip \in Nat \ {0} /\ Good(Here(w)) /\ AtTop(Here(w))
        /\ Op(w) = Body[r][ip] /\ Len(Body[r]) \in Nat /\ Here(w).val \in Nat
    BY HereFacts, DurableAssumption DEF CodeInv, Here, OpAt
  <1>1. \A v \in Workers : worker[v].pc \in BodyPcs =>
           \A i \in 1 .. worker[v].ip - 1 : Kept(worker[v].run, i)
    BY DEF HeldInv, PositionJournalled, Kept
  <1>2. ASSUME NEW q \in Runs, NEW i \in 1 .. Len(Body[q]), Kept(q, i)
        PROVE  KeptBy(q, i)
    <2>1. CASE journal' = journal /\ signals' = signals
      BY <1>2, <2>1 DEF Kept, KeptBy
    <2>2. CASE Records(w)
      <3>1. /\ signals' = signals
            /\ \A k \in StepIds : journal[q][k] # None => journal'[q][k] # None
        BY <2>2 DEF Records, Recorded
      <3> QED BY <1>2, <3>1, BodyOps DEF Kept, KeptBy
    <2> QED BY <2>1, <2>2 DEF Shape, Begins, Selects, Stops, Takes, Passes, Reaches,
                              Performs, Suspends, Settles
  <1>3. ASSUME NEW v \in Workers, worker[v].pc \in BodyPcs, NEW i \in 1 .. worker[v].ip - 1
        PROVE  KeptBy(worker[v].run, i)
    <2>1. worker[v].run \in Runs /\ i \in 1 .. Len(Body[worker[v].run])
      <3>1. /\ worker[v].run \in Runs /\ worker[v].ip \in Nat
            /\ worker[v].ip <= Len(Body[worker[v].run]) + 1
            /\ Len(Body[worker[v].run]) \in Nat
        BY <1>3, HereFacts, DurableAssumption DEF CodeInv, AtTop, Here
      <3> QED BY <3>1
    <2> QED BY <1>1, <1>2, <1>3, <2>1
  <1>4. ASSUME Then(w).pc \in BodyPcs, NEW i \in 1 .. Then(w).ip - 1
        PROVE  KeptBy(Then(w).run, i)
    <2>1. CASE Here(w).pc \in BodyPcs /\ StaysAt(w)
      BY <1>3, <1>4, <2>1 DEF StaysAt, Stays, Here
    <2>2. CASE Takes(w)
      <3>1. Then(w).ip = 1
        BY <1>0, <2>2 DEF Takes, LostReply, StaysAt, AtTop
      <3> QED BY <1>4, <3>1
    <2>3. CASE /\ Here(w).pc \in BodyPcs /\ GoesOn(w)
               /\ Passes(w) \/ Records(w)
      <3>1. ip \in 1 .. Len(Body[r])
        <4>1. ip <= Len(Body[r])
          <5>1. CASE Passes(w)
            BY <5>1 DEF Passes, InBody, Here
          <5>2. CASE Records(w)
            BY <1>0, <5>2 DEF Records, Good
          <5> QED BY <2>3, <5>1, <5>2
        <4> QED BY <1>0, <4>1
      <3>2. KeptBy(r, ip)
        <4>1. CASE Passes(w)
          <5>1. Kept(r, ip)
            BY <1>0, <4>1 DEF Passes, Kept, Delivered, Journalled, Here
          <5> QED BY <1>0, <1>2, <3>1, <5>1
        <4>2. CASE Records(w)
          <5>1. Body[r][ip].kind # "await"
            BY <1>0, <4>2 DEF Records, Good, OpAt
          <5>2. journal'[r][Body[r][ip].id] # None
            <6>1. journal'[r][Body[r][ip].id]
                    = Recorded(journal[r][Body[r][ip].id], Here(w).val)
              BY <1>0, <4>2 DEF Records
            <6>2. Here(w).val # None
              BY <1>0 DEF None
            <6> QED BY <6>1, <6>2 DEF Recorded
          <5> QED BY <5>1, <5>2 DEF KeptBy
        <4> QED BY <2>3, <4>1, <4>2
      <3>3. Then(w).run = r /\ Then(w).ip = ip + 1
        BY <2>3 DEF GoesOn, Stays
      <3>4. i = ip \/ i \in 1 .. ip - 1
        BY <1>0, <1>4, <3>3
      <3> QED BY <1>3, <2>3, <3>2, <3>3, <3>4 DEF Here
    <2> QED
      BY <1>4, <2>1, <2>2, <2>3 DEF Shape, Begins, Selects, Stops, Passes, Reaches,
         Performs, Records, Suspends, Settles, LostReply, Errs, InBody, Here, BodyPcs
  <1>5. ASSUME NEW v \in Workers, worker'[v].pc \in BodyPcs, NEW i \in 1 .. worker'[v].ip - 1
        PROVE  KeptBy(worker'[v].run, i)
    BY <1>3, <1>4, <1>5 DEF Alone, Then
  <1> QED BY <1>5 DEF PositionJournalled, KeptBy

\* Callers, compaction and the clock take nothing from a run being executed.
LEMMA CallerKeepsHeld ==
  ASSUME TypeInv, CodeInv, HeldInv, Caller
  PROVE  HeldInv'
  <1>1. /\ worker' = worker
        /\ \A v \in Workers : worker[v].run \in Runs /\ worker[v].ip \in Nat \ {0}
        /\ \A v \in Workers : Executing(v) => runs[worker[v].run].status \in Claimable
        /\ \A s \in Claimable : s \notin Terminal /\ s # "absent"
    BY CallerShape, HereFacts DEF Here, HeldInv, StatusInv, Claimable, Terminal
  <1>2. StatusInv'
    BY <1>1, CallerShape DEF StatusInv, Executing
  <1>3. MissInv'
    <2> SUFFICES ASSUME NEW v \in Workers, worker[v].pc \in {"run", "journal"}
                 PROVE  journal'[worker[v].run][Body[worker[v].run][worker[v].ip].id] = None
      BY <1>1 DEF MissInv, Op
    <2>1. Body[worker[v].run][worker[v].ip].id \in StepIds
      BY HereFacts, OpType DEF Good, OpAt, Here
    <2> QED BY <1>1, <2>1, CallerShape DEF HeldInv, MissInv, Op
  <1>4. PositionJournalled'
    <2> SUFFICES ASSUME NEW v \in Workers, worker[v].pc \in BodyPcs,
                        NEW i \in 1 .. worker[v].ip - 1
                 PROVE  KeptBy(worker[v].run, i)
      BY <1>1 DEF PositionJournalled, KeptBy
    <2> DEFINE r == worker[v].run
    <2>1. r \in Runs /\ i \in 1 .. Len(Body[r])
      <3>1. /\ r \in Runs /\ worker[v].ip \in Nat /\ Len(Body[r]) \in Nat
            /\ worker[v].ip <= Len(Body[r]) + 1
        BY HereFacts, DurableAssumption DEF CodeInv, AtTop, Here
      <3> QED BY <3>1
    <2>2. Kept(r, i) /\ runs[r].status \notin Terminal
      BY <1>1 DEF HeldInv, PositionJournalled, Kept, Executing
    <2>3. \A p \in signals : p[1] = r => p \in signals'
      BY <2>2, CallerShape
    <2>4. \A k \in StepIds : journal'[r][k] = journal[r][k]
      BY <2>1, <2>2, CallerShape
    <2> HIDE DEF r
    <2> QED BY <2>1, <2>2, <2>3, <2>4, BodyOps DEF Kept, KeptBy, r
  <1> QED BY <1>2, <1>3, <1>4 DEF HeldInv

LEMMA HeldStep ==
  ASSUME TypeInv, CodeInv, LeaseInv, HeldInv, ~LostReplies, [Next]_vars
  PROVE  HeldInv'
  <1>1. ASSUME NEW w \in Workers, WorkerStep(w) \/ StatementFails(w) \/ Crash(w)
        PROVE  HeldInv'
    BY <1>1, StepShape, StatusKept, MissKept, PositionKept DEF HeldInv
  <1>2. CASE UNCHANGED vars
    BY <1>2 DEF vars, tables, HeldInv, StatusInv, MissInv, PositionJournalled, Executing, Op
  <1> QED BY <1>1, <1>2, StepCases, CallerKeepsHeld

\* The invariant of a poller that keeps to its lease.
TimelyInv == TypeInv /\ CodeInv /\ LeaseInv /\ HeldInv

LEMMA TimelyInit == Init => TimelyInv
  BY InitType, CodeInit, LeaseInit, HeldInit DEF TimelyInv

LEMMA TimelyStep ==
  ASSUME Punctual, ~LostReplies, TimelyInv, [Next]_vars
  PROVE  TimelyInv'
  BY TypeStep, CodeStep, LeaseStep, HeldStep DEF TimelyInv

\* What a poller has behind it in a body, a restart would also find done: step,
\* writeJournal and compact respect it as long as a poll ends within its lease
\* and a write that took effect is not reported as failed.
THEOREM NothingRedone ==
  ASSUME Punctual, ~LostReplies
  PROVE  Spec => []PositionJournalled
  <1>1. TimelyInv /\ [Next]_vars => TimelyInv'
    BY TimelyStep
  <1>2. TimelyInv => PositionJournalled
    BY DEF TimelyInv, HeldInv
  <1> QED BY <1>1, <1>2, TimelyInit, PTL DEF Spec

\* The result a body goes on with is the one the journal holds, so that a replay
\* takes the same path (step, writeJournal), for pollers that keep to their
\* lease.
THEOREM ReplayTakesSamePath ==
  ASSUME Punctual, ~LostReplies
  PROVE  Spec => ReplayStable
  <1>1. TimelyInv /\ [Next]_vars =>
          [\A w \in Workers :
             LET r == worker[w].run
                 k == Op(w).id
             IN worker[w].pc = "journal" /\ worker'[w].pc = "body"
                  => journal'[r][k] = worker[w].val]_vars
    <2> SUFFICES ASSUME TimelyInv, [Next]_vars, NEW w \in Workers,
                        worker[w].pc = "journal", worker'[w].pc = "body"
                 PROVE  journal'[worker[w].run][Op(w).id] = worker[w].val
      OBVIOUS
    <2>1. TypeInv /\ journal[worker[w].run][Op(w).id] = None
      BY DEF TimelyInv, HeldInv, MissInv
    <2>2. PICK v \in Workers : WorkerStep(v) \/ StatementFails(v) \/ Crash(v)
      BY <2>1, StepCases, CallerShape DEF vars
    <2>3. Alone(v) /\ Shape(v)
      BY <2>1, <2>2, StepShape
    <2>4. v = w
      BY <2>3 DEF Alone
    <2>5. Records(w)
      BY <2>3, <2>4 DEF Shape, Begins, Selects, Stops, Takes, Passes, Reaches, Performs,
                        Suspends, Settles, SettlesAs, Errs, InBody, Here, Then
    <2> QED BY <2>1, <2>5 DEF Records, Recorded, Here
  <1>2. TimelyInv /\ [Next]_vars => TimelyInv'
    BY TimelyStep
  <1> QED BY <1>1, <1>2, TimelyInit, PTL DEF Spec, ReplayStable

\* A run turns done only when every operation of its body has happened (advance,
\* markDone), for pollers that keep to their lease.
THEOREM DoneMeansComplete ==
  ASSUME Punctual, ~LostReplies
  PROVE  Spec => DoneOnlyWhenComplete
  <1>1. TimelyInv /\ [Next]_vars =>
          [\A r \in Runs : runs[r].status # "done" /\ runs'[r].status = "done" =>
             \A i \in 1 .. Len(Body[r]) :
                IF Body[r][i].kind = "await" THEN <<r, Body[r][i].id>> \in signals
                ELSE journal[r][Body[r][i].id] # None]_vars
    <2> SUFFICES ASSUME TimelyInv, [Next]_vars, NEW r \in Runs,
                        runs[r].status # "done", runs'[r].status = "done",
                        NEW i \in 1 .. Len(Body[r])
                 PROVE  Kept(r, i)
      BY DEF Kept
    <2>1. TypeInv /\ PositionJournalled
      BY DEF TimelyInv, HeldInv
    <2>2. PICK w \in Workers : WorkerStep(w) \/ StatementFails(w) \/ Crash(w)
      BY <2>1, StepCases, CallerShape DEF vars, tables
    <2>3. Shape(w)
      BY <2>1, <2>2, StepShape
    <2>4. Settles(w) /\ Here(w).run = r
      BY <2>3 DEF Shape, Begins, Selects, Stops, Takes, Passes, Reaches, Performs,
                  Records, Suspends, Settles, OtherRows, tables
    <2>5. Here(w).pc = "body" /\ Here(w).ip > Len(Body[r])
      BY <2>4 DEF Settles, SettlesAs
    <2>6. i \in 1 .. worker[w].ip - 1
      BY <2>1, <2>5, HereFacts, DurableAssumption DEF Here
    <2> QED BY <2>1, <2>4, <2>5, <2>6 DEF PositionJournalled, Kept, Here, BodyPcs
  <1>2. TimelyInv /\ [Next]_vars => TimelyInv'
    BY TimelyStep
  <1> QED BY <1>1, <1>2, TimelyInit, PTL DEF Spec, DoneOnlyWhenComplete

-----------------------------------------------------------------------------
\* HOW OFTEN AN EFFECT HAPPENS

\* A signal call in progress is young, and so is a claim's look at the runs; a
\* cutoff is one retention in the past.
SenderInv ==
    \A p \in Pairs : sender[p] # None => sender[p] <= now /\ now <= sender[p] + LeaseMs
CutoffInv == compactor.pc # "idle" => compactor.cutoff <= now - Retention

\* A run that was settled behind a poller's back, between its SELECT and its
\* UPDATE, was settled lately.
SelectInv ==
    \A w \in Workers :
        worker[w].pc = "take" /\ runs[worker[w].run].status \in Terminal =>
            worker[w].now - LeaseMs <= runs[worker[w].run].updated

\* A settled run that nobody is about to reopen.
Sealed(r) ==
    /\ runs[r].status \in Terminal
    /\ \A w \in Workers : worker[w].pc = "take" => worker[w].run # r

\* An execution of a step that needs no further one: its result is recorded or
\* about to be, or the run is over.
Covered(r, k) ==
    \/ journal[r][k] # None
    \/ \E w \in Workers :
          /\ worker[w].pc = "journal" /\ worker[w].run = r
          /\ Body[r][worker[w].ip].id = k
    \/ Sealed(r)

\* Every other execution was paid for by a fault.
Paid(r, k) ==
    \/ ran[r][k] <= faults
    \/ ran[r][k] <= 1 + faults /\ Covered(r, k)

CountInv == \A r \in Runs, k \in StepIds : Paid(r, k)

AgeInv == SenderInv /\ CutoffInv /\ SelectInv

LEMMA AgeInit == Init => AgeInv /\ CountInv
  <1> SUFFICES ASSUME Init PROVE AgeInv /\ CountInv
    OBVIOUS
  <1>1. SenderInv /\ CutoffInv
    BY DEF Init, SenderInv, CutoffInv
  <1>2. SelectInv
    BY IdleType DEF Init, SelectInv
  <1>3. CountInv
    BY DEF Init, CountInv, Paid
  <1> QED BY <1>1, <1>2, <1>3 DEF AgeInv

\* What callers, compaction and the clock do to the times.
LEMMA CallerTimes ==
  ASSUME TypeInv, Caller
  PROVE  /\ \A r \in Runs : \/ runs'[r].updated = runs[r].updated
                            \/ runs'[r].status \notin Terminal
                            \/ \E p \in Pairs : sender[p] # None
                                                /\ runs'[r].updated = sender[p]
         /\ \A r \in Runs, k \in StepIds :
               \/ journal'[r][k] = journal[r][k]
               \/ /\ compactor.pc # "idle" /\ runs[r].status \in Terminal
                  /\ runs[r].updated <= compactor.cutoff /\ UNCHANGED <<runs, now>>
  <1> USE DEF tables, history
  <1>0. \A r \in Runs : runs[r] \in RunRow
    BY TypeFacts
  <1>1. ASSUME NEW r \in Runs, Start(r)
        PROVE  \A q \in Runs : runs'[q] = runs[q] \/ runs'[q].status \notin Terminal
    <2> DEFINE row == [runs[r] EXCEPT !.status = "running", !.wake = now,
                                      !.updated = now]
    <2>1. row.status = "running"
      BY <1>0 DEF RunRow
    <2>2. Update(r, row)
      BY <1>1 DEF Start
    <2> HIDE DEF row
    <2> QED BY <2>1, <2>2, UpdateShape DEF OtherRows, Terminal
  <1>2. ASSUME NEW p \in Pairs, SignalWake(p)
        PROVE  \A q \in Runs : runs'[q] = runs[q] \/ runs'[q].updated = sender[p]
    <2> DEFINE row == [runs[p[1]] EXCEPT !.wake = sender[p],
                          !.waiting = NoSignal, !.updated = sender[p]]
    <2>1. p[1] \in Runs
      BY DEF Pairs
    <2>2. row.updated = sender[p]
      BY <1>0, <2>1 DEF RunRow
    <2>3. UNCHANGED runs \/ Update(p[1], row)
      BY <1>2 DEF SignalWake
    <2> HIDE DEF row
    <2> QED BY <2>1, <2>2, <2>3, UpdateShape DEF OtherRows
  <1>3. CASE \E r \in Runs : Start(r)
    BY <1>1, <1>3 DEF Start
  <1>4. CASE \E p \in Pairs : SignalWake(p)
    BY <1>2, <1>4 DEF SignalWake
  <1>5. CASE \E p \in Pairs : SignalInsert(p) \/ SignalFails(p)
    BY <1>5 DEF SignalInsert, SignalFails
  <1>6. CASE CompactJournal
    <2>1. \A r \in Runs, k \in StepIds :
               \/ journal'[r][k] = journal[r][k]
               \/ runs[r].status \in Terminal /\ runs[r].updated <= compactor.cutoff
      BY <1>6 DEF CompactJournal, TerminalOlderThan
    <2> QED BY <1>6, <2>1 DEF CompactJournal
  <1>7. CASE CompactSignals \/ CompactBegin \/ CompactFails \/ Tick
    BY <1>7 DEF CompactSignals, CompactBegin, CompactFails, Tick
  <1> QED BY <1>3, <1>4, <1>5, <1>6, <1>7 DEF Caller, Compact

LEMMA CallerKeepsAge ==
  ASSUME Punctual, TimelyInv, AgeInv, Caller
  PROVE  AgeInv'
  <1> USE DEF tables, history
  <1>0. /\ TypeInv /\ now \in Nat /\ LeaseMs \in Nat /\ Retention \in Nat /\ worker' = worker
        /\ sender \in [Pairs -> Times \cup {None}] /\ \A t \in Times : t \in Nat
        /\ compactor \in [pc : {"idle", "journal", "signals"}, cutoff : Int]
    BY TypeFacts, TimeFacts, DurableAssumption, CallerShape DEF TimelyInv, TypeInv, TypeOK
  <1>1. SenderInv' /\ CutoffInv'
    <2>1. CASE Tick
      <3>1. /\ now' = now + 1 /\ sender' = sender /\ compactor' = compactor
            /\ \A p \in Pairs : sender[p] = None \/ now < sender[p] + LeaseMs
        BY <2>1 DEF Tick, OnTime
      <3> QED BY <1>0, <3>1 DEF AgeInv, SenderInv, CutoffInv, None
    <2>2. CASE \E p \in Pairs : SignalInsert(p) \/ SignalWake(p) \/ SignalFails(p)
      <3>1. /\ now' = now /\ compactor' = compactor
            /\ \A p \in Pairs : sender'[p] = sender[p] \/ sender'[p] = None
                                \/ sender'[p] = now
        BY <1>0, <2>2 DEF SignalInsert, SignalWake, SignalFails
      <3> QED BY <1>0, <3>1 DEF AgeInv, SenderInv, CutoffInv, None
    <2>3. CASE \E r \in Runs : Start(r)
      BY <2>3 DEF Start, AgeInv, SenderInv, CutoffInv
    <2>4. CASE Compact
      <3>1. now' = now /\ sender' = sender
        BY <2>4 DEF Compact, CompactBegin, CompactJournal, CompactSignals, CompactFails
      <3>2. CutoffInv'
        BY <1>0, <2>4 DEF Compact, CompactBegin, CompactJournal, CompactSignals,
                          CompactFails, AgeInv, CutoffInv
      <3> QED BY <3>1, <3>2 DEF AgeInv, SenderInv
    <2> QED BY <2>1, <2>2, <2>3, <2>4 DEF Caller
  <1>2. SelectInv'
    <2> SUFFICES ASSUME NEW w \in Workers, worker[w].pc = "take",
                        runs'[worker[w].run].status \in Terminal
                 PROVE  worker[w].now - LeaseMs <= runs'[worker[w].run].updated
      BY <1>0 DEF SelectInv
    <2> DEFINE r == worker[w].run
    <2>1. /\ r \in Runs /\ worker[w].now \in Nat
          /\ worker[w].now <= now /\ now <= worker[w].now + LeaseMs
      BY <1>0, HereFacts DEF Here, TimelyInv, LeaseInv
    <2>2. runs[r].status \in Terminal
      BY <1>0, <2>1, CallerShape DEF Terminal
    <2>3. worker[w].now - LeaseMs <= runs[r].updated
      BY <2>2 DEF AgeInv, SelectInv
    <2>4. ASSUME NEW p \in Pairs, sender[p] # None, runs'[r].updated = sender[p]
          PROVE  worker[w].now - LeaseMs <= runs'[r].updated
      <3>1. sender[p] \in Nat /\ now <= sender[p] + LeaseMs
        BY <1>0, <2>4 DEF AgeInv, SenderInv
      <3> QED BY <1>0, <2>1, <2>4, <3>1
    <2> HIDE DEF r
    <2> QED BY <1>0, <2>1, <2>3, <2>4, CallerTimes DEF r
  <1> QED BY <1>1, <1>2 DEF AgeInv

LEMMA WorkerKeepsAge ==
  ASSUME ~LostReplies, TimelyInv, AgeInv, NEW w \in Workers, Alone(w), Shape(w)
  PROVE  AgeInv'
  <1> USE DEF tables
  <1>0. TypeInv /\ CodeInv /\ LeaseInv /\ HeldInv
    BY DEF TimelyInv
  <1>1. SenderInv' /\ CutoffInv'
    BY DEF Alone, AgeInv, SenderInv, CutoffInv
  <1>2. SelectInv'
    <2> SUFFICES ASSUME NEW v \in Workers, worker'[v].pc = "take",
                        runs'[worker'[v].run].status \in Terminal
                 PROVE  worker'[v].now - LeaseMs <= runs'[worker'[v].run].updated
      BY DEF SelectInv
    <2> DEFINE r == worker'[v].run
    <2>0. \A s \in Claimable : s \notin Terminal
      BY DEF Claimable, Terminal
    <2>1. v # w /\ worker'[v] = worker[v]
      <3>1. Then(w).pc = "take" => Selects(w)
        BY DEF Shape, Begins, Stops, Takes, Passes, Reaches, Performs, Records, Suspends,
               Settles, LostReply, Errs, GoesOn, Advance
      <3>2. Selects(w) => runs'[Then(w).run].status \notin Terminal
        BY <2>0 DEF Selects
      <3> QED BY <3>1, <3>2 DEF Alone, Then
    <2>2. r \in Runs /\ worker[v].now \in Nat /\ worker[v].now <= now /\ now \in Nat
          /\ LeaseMs \in Nat
      BY <1>0, <2>1, HereFacts, TypeFacts, TimeFacts, DurableAssumption DEF Here, LeaseInv
    <2>3. CASE runs'[r] = runs[r]
      BY <2>1, <2>3 DEF AgeInv, SelectInv
    <2>4. CASE runs'[r] # runs[r]
      <3>1. Here(w).run = r /\ (Takes(w) \/ Suspends(w) \/ Settles(w))
        BY <2>2, <2>4 DEF Shape, Begins, Selects, Stops, Takes, Passes, Reaches, Performs,
               Records, Suspends, Settles, OtherRows
      <3>2. ~Takes(w)
        BY <3>1 DEF Takes, Terminal
      <3>3. ~Suspends(w)
        <4>1. Suspends(w) => Executing(w)
          BY DEF Suspends, Executing, BodyPcs, Here
        <4> QED BY <1>0, <2>0, <3>1, <4>1, Held DEF Suspends, Terminal
      <3>4. runs'[r].updated = now
        BY <3>1, <3>2, <3>3 DEF Settles
      <3> QED BY <2>1, <2>2, <3>4
    <2> QED BY <2>3, <2>4
  <1> QED BY <1>1, <1>2 DEF AgeInv

\* A run that compact takes history from is one that nobody will reopen.
LEMMA CompactedIsSealed ==
  ASSUME TimelyInv, AgeInv, Retention > 2 * LeaseMs, NEW r \in Runs,
         compactor.pc # "idle", runs[r].status \in Terminal,
         runs[r].updated <= compactor.cutoff
  PROVE  Sealed(r)
  <1> SUFFICES ASSUME NEW w \in Workers, worker[w].pc = "take", worker[w].run = r
               PROVE  FALSE
    BY DEF Sealed
  <1>1. /\ now \in Nat /\ worker[w].now \in Nat /\ LeaseMs \in Nat /\ Retention \in Nat
        /\ runs[r].updated \in Nat /\ compactor.cutoff \in Int
    BY TypeFacts, TimeFacts, HereFacts, DurableAssumption
       DEF TimelyInv, TypeInv, TypeOK, Here, RunRow
  <1>2. /\ now <= worker[w].now + LeaseMs
        /\ worker[w].now - LeaseMs <= runs[r].updated
        /\ compactor.cutoff <= now - Retention
    BY DEF TimelyInv, LeaseInv, AgeInv, SelectInv, CutoffInv
  <1> QED BY <1>1, <1>2

LEMMA CallerKeepsCount ==
  ASSUME Retention > 2 * LeaseMs, TimelyInv, AgeInv, CountInv, Caller
  PROVE  CountInv'
  <1> SUFFICES ASSUME NEW r \in Runs, NEW k \in StepIds PROVE Paid(r, k)'
    BY DEF CountInv
  <1>1. /\ TypeInv /\ worker' = worker /\ ran' = ran /\ faults \in Nat /\ ran[r][k] \in Nat
        /\ faults' = faults \/ faults' = faults + 1
    BY CallerShape, DurableAssumption DEF TimelyInv, TypeInv, TypeOK
  <1>2. Sealed(r) => Sealed(r)'
    <2>1. runs[r].status \in Terminal => runs'[r].status \in Terminal
      BY <1>1, CallerShape DEF Terminal
    <2> QED BY <1>1, <2>1 DEF Sealed
  <1>3. journal[r][k] # None => journal'[r][k] # None \/ Sealed(r)
    BY <1>1, CallerTimes, CompactedIsSealed
  <1>4. Covered(r, k) => Covered(r, k)'
    BY <1>1, <1>2, <1>3 DEF Covered
  <1>5. Paid(r, k)
    BY DEF CountInv
  <1> HIDE DEF Covered
  <1> QED BY <1>1, <1>4, <1>5 DEF Paid

LEMMA WorkerKeepsCount ==
  ASSUME ~LostReplies, TimelyInv, CountInv, NEW w \in Workers, Alone(w), Shape(w)
  PROVE  CountInv'
  <1> USE DEF tables, history
  <1> SUFFICES ASSUME NEW r \in Runs, NEW k \in StepIds PROVE Paid(r, k)'
    BY DEF CountInv
  <1>0. /\ TypeInv /\ CodeInv /\ LeaseInv /\ HeldInv
        /\ faults \in Nat /\ ran[r][k] \in Nat /\ Paid(r, k)
        /\ Here(w).run \in Runs /\ Here(w).val \in Nat
        /\ Op(w) = Body[Here(w).run][Here(w).ip]
    BY HereFacts, DurableAssumption DEF TimelyInv, TypeInv, TypeOK, CountInv, OpAt
  <1>1. \A s \in Claimable : s \notin Terminal
    BY DEF Claimable, Terminal
  <1>2. CASE Performs(w) /\ Here(w).run = r /\ Op(w).id = k
    <2>1. Executing(w) /\ Here(w).pc = "run"
      BY <1>2 DEF Performs, Executing, BodyPcs, Here
    <2>2. journal[r][k] = None
      BY <1>0, <1>2, <2>1 DEF HeldInv, MissInv, Here
    <2>3. \A v \in Workers : worker[v].pc = "journal" => worker[v].run # r
      <3>1. \A v \in Workers : worker[v].pc = "journal" => v # w /\ Executing(v)
        BY <2>1 DEF Here, Executing, BodyPcs
      <3> QED BY <1>0, <1>2, <2>1, <3>1, Held
    <2>4. ~Sealed(r)
      BY <1>0, <1>1, <1>2, <2>1, Held DEF Sealed
    <2>5. ran[r][k] <= faults
      BY <1>0, <2>2, <2>3, <2>4 DEF Paid, Covered
    <2>6. /\ ran'[r][k] <= ran[r][k] + 1 /\ faults' = faults /\ ran'[r][k] \in Nat
          /\ worker'[w].pc = "journal" /\ worker'[w].run = r /\ worker'[w].ip = Here(w).ip
      BY <1>2 DEF Performs, StaysAt, Stays, Then
    <2>7. Covered(r, k)'
      BY <1>0, <1>2, <2>6 DEF Covered
    <2> HIDE DEF Covered
    <2> QED BY <1>0, <2>5, <2>6, <2>7 DEF Paid
  <1>3. CASE ~(Performs(w) /\ Here(w).run = r /\ Op(w).id = k)
    <2>1. ran'[r][k] = ran[r][k] /\ (faults' = faults \/ faults' = faults + 1)
      BY <1>3 DEF Shape, Begins, Selects, Stops, Takes, Passes, Reaches, Performs, Records,
                  Suspends, Settles, LostReply
    <2>2. ASSUME journal[r][k] # None PROVE journal'[r][k] # None
      BY <1>0, <2>2 DEF Shape, Begins, Selects, Stops, Takes, Passes, Reaches, Performs,
                        Records, Recorded, Suspends, Settles
    <2>3. ASSUME NEW v \in Workers, worker[v].pc = "journal", worker[v].run = r,
                 Body[r][worker[v].ip].id = k, faults' = faults
          PROVE  Covered(r, k)'
      <3>1. CASE v # w
        BY <2>3, <3>1 DEF Alone, Covered
      <3>2. CASE v = w
        <4>0. /\ Here(w).pc = "journal" /\ Here(w).run = r /\ Op(w).id = k
              /\ faults' # faults + 1 /\ ~InBody(w)
          BY <1>0, <2>3, <3>2 DEF Here, InBody
        <4>1. Records(w)
          BY <4>0 DEF Shape, Begins, Selects, Stops, Takes, Passes, Reaches,
             Performs, Suspends, Settles, SettlesAs
        <4>2. journal'[r][k] = Recorded(journal[r][k], Here(w).val)
          BY <4>0, <4>1 DEF Records
        <4>3. journal'[r][k] # None
          BY <1>0, <4>2 DEF Recorded, None
        <4> QED BY <4>3 DEF Covered
      <3> QED BY <3>1, <3>2
    <2>4. ASSUME Sealed(r) PROVE Sealed(r)'
      <3>1. Executing(w) => Here(w).run # r
        BY <1>0, <1>1, <2>4, Held DEF Sealed
      <3>2. runs'[r] = runs[r]
        <4>1. Takes(w) \/ Suspends(w) \/ Settles(w) => Here(w).run # r /\ OtherRows(Here(w).run)
          BY <2>4, <3>1 DEF Takes, Suspends, Settles, SettlesAs, Sealed, Executing, BodyPcs,
                            SettlePcs, Here
        <4> QED BY <4>1 DEF Shape, Begins, Selects, Stops, Passes, Reaches, Performs,
                            Records, OtherRows
      <3>3. Then(w).pc = "take" => Then(w).run # r
        <4>1. Then(w).pc = "take" => Selects(w)
          BY DEF Shape, Begins, Stops, Takes, Passes, Reaches, Performs, Records, Suspends,
                 Settles, LostReply, Errs, GoesOn, Advance
        <4> QED BY <1>1, <2>4, <4>1 DEF Selects, Sealed
      <3> QED BY <2>4, <3>2, <3>3 DEF Sealed, Alone, Then
    <2>5. Covered(r, k) /\ faults' = faults => Covered(r, k)'
      BY <2>2, <2>3, <2>4 DEF Covered
    <2> HIDE DEF Covered
    <2> QED BY <1>0, <2>1, <2>5 DEF Paid
  <1> QED BY <1>2, <1>3

\* The effect of a step happens once, and once more only for a crash or a failed
\* statement (step's contract), for pollers that keep to their lease and a
\* retention longer than two leases, which keeps compact away from every run
\* that a claim in progress may still reopen.
THEOREM OnceOrPaidFor ==
  ASSUME Punctual, ~LostReplies, Retention > 2 * LeaseMs
  PROVE  Spec => []EffectOncePerFault
  <1>1. TimelyInv /\ AgeInv /\ CountInv /\ [Next]_vars => AgeInv' /\ CountInv'
    <2> SUFFICES ASSUME TimelyInv, AgeInv, CountInv, [Next]_vars
                 PROVE  AgeInv' /\ CountInv'
      OBVIOUS
    <2>1. ASSUME NEW w \in Workers, WorkerStep(w) \/ StatementFails(w) \/ Crash(w)
          PROVE  AgeInv' /\ CountInv'
      <3>1. Alone(w) /\ Shape(w)
        BY <2>1, StepShape DEF TimelyInv
      <3> QED BY <3>1, WorkerKeepsAge, WorkerKeepsCount
    <2>2. CASE UNCHANGED vars
      BY <2>2 DEF vars, tables, history, AgeInv, SenderInv, CutoffInv, SelectInv,
                  CountInv, Paid, Covered, Sealed
    <2> QED BY <2>1, <2>2, StepCases, CallerKeepsAge, CallerKeepsCount
  <1>2. TimelyInv /\ [Next]_vars => TimelyInv'
    BY TimelyStep
  <1>3. TimelyInv /\ CountInv => EffectOncePerFault
    <2>1. TypeInv => \A r \in Runs, k \in StepIds : ran[r][k] \in Nat /\ faults \in Nat
      BY DurableAssumption DEF TypeInv, TypeOK
    <2> QED BY <2>1 DEF TimelyInv, CountInv, Paid, EffectOncePerFault
  <1> QED BY <1>1, <1>2, <1>3, TimelyInit, AgeInit, PTL DEF Spec
=============================================================================
