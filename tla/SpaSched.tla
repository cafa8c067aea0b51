------------------------------ MODULE SpaSched ------------------------------
(***************************************************************************)
(* The Sky.Spa client's Msg scheduler (runtime-go/rt/spa_rpcqueue.go) with *)
(* the hold-free table the auto-split gives it (HoldFree).  Msgs queue and *)
(* run one at a time; a server branch is sent as an RPC when its Msg runs  *)
(* and answers as a Msg of its own.  A hold RPC keeps ordinary Msgs back   *)
(* until it answers, except the input Msgs that commute with it.  A Msg of *)
(* Sub.onFragment does not queue: it runs when it arrives.                 *)
(*                                                                         *)
(* A key is the place a Msg has in Sky.Live's order: <<n>> for the n-th    *)
(* Msg to arrive, and below it the result of a hold and its follow-ups,    *)
(* which Sky.Live runs as part of that Msg.  Keys compare as words do.     *)
(***************************************************************************)
EXTENDS HoldFree, Sequences

CONSTANTS
    Reports,     \* the apps considered
    Holds,       \* constructors whose RPC is a hold (Spa.rpcHold)
    Inputs,      \* constructors of form controls' input events
    Ticks,       \* constructors of Sub.every ticks
    Connections, \* constructors of Sub.connection changes
    Fragments,   \* constructors of Sub.onFragment's Msgs
    MaxArrivals, \* bound on Msgs and async results that arrive
    MaxPlan,     \* bound on the follow-ups of one server branch
    MaxChain,    \* bound on the length of a chain of holds and follow-ups
    MaxNotices   \* bound on connection changes and reported errors

ASSUME SchedAssumption ==
    /\ Holds \cup Inputs \cup Ticks \cup Connections \cup Fragments \subseteq Ctors
    /\ {MaxArrivals, MaxPlan, MaxChain, MaxNotices} \subseteq Nat
    /\ Reports \subseteq Report

VARIABLES
    app,        \* the app: a report, and what the report says is true
    queue,      \* spaSched.queue
    hold,       \* spaSched.hold: the key of the hold in flight, or NoKey
    running,    \* spaSched.running
    inflight,   \* spaSched.inflight: jobs
    tickNet,    \* spaSched.tickNet of the one interval in use, for its RPCs
    arrivals,   \* Msgs that have arrived
    notices,    \* connection changes and errors reported so far
    log         \* history: what ran, in the order it ran

vars == <<app, queue, hold, running, inflight, tickNet, arrivals, notices, log>>

NoKey == <<>>
Keys == Seq(Nat)
Plans == UNION {[1 .. n -> Ctors] : n \in 0 .. MaxPlan}

\* A result carries the follow-ups the server answered with (plan).
Msg == [key : Keys, kind : {"event", "followUp", "result", "report", "connection"},
        ctor : Ctors, plan : Plans, tick : BOOLEAN, urgent : BOOLEAN]
\* named: the RPC was issued by a Msg that drain ran, so the job has its name.
Job == [key : Keys, ctor : Ctors, plan : Plans, tick : BOOLEAN, named : BOOLEAN]

\* The fields a run touches, whether it starts a command, becomes the hold, or
\* ran around the queue, and how many follow-ups it puts at the queue's head.
Run == [key : Keys, reads : SUBSET Fields, writes : SUBSET Fields, quiet : BOOLEAN,
        holds : BOOLEAN, around : BOOLEAN, follows : 0 .. MaxPlan]

TypeOK ==
    /\ app \in Reports
    /\ queue \in Seq(Msg)
    /\ hold \in Keys
    /\ running \in BOOLEAN
    /\ inflight \subseteq Job
    /\ tickNet \in Nat
    /\ arrivals \in 0 .. MaxArrivals
    /\ notices \in 0 .. MaxNotices
    /\ log \in Seq(Run)

Init ==
    /\ app \in Reports
    /\ queue = <<>>
    /\ hold = NoKey
    /\ running = FALSE
    /\ inflight = {}
    /\ tickNet = 0
    /\ arrivals = 0
    /\ notices = 0
    /\ log = <<>>

-----------------------------------------------------------------------------
\* WHAT THE APP DOES

\* The Msgs that update handles: a catch-all arm handles those without an arm.
Handled == IF HeadsReadable(app) THEN Heads(app) ELSE Ctors

\* Sets the analysis could not read are the whole model; a guard reads it
\* before every Msg, an RPC error handler when a result is applied.
Readable(c) == HeadsReadable(app) /\ HeadSets(app, c).known
Server(c) == app.wholeUpdate \/ HeadSets(app, c).server
Reads(c) == IF Readable(c) /\ ~app.guard THEN HeadSets(app, c).reads ELSE Fields
Writes(c) == IF Readable(c) THEN HeadSets(app, c).writes ELSE Fields
Quiet(c) == ~Server(c) /\ c \in app.quiet

\* A hold's Msg reads when its request is built; its result only writes.
Effect(m) ==
    LET result == m.kind = "result"
        request == ~result /\ Server(m.ctor) /\ m.ctor \in Holds
    IN  [key |-> m.key,
         reads |-> IF ~result THEN Reads(m.ctor) ELSE IF app.rpcError THEN Fields ELSE {},
         writes |-> IF request THEN {}
                    ELSE IF result /\ app.rpcError THEN Fields ELSE Writes(m.ctor),
         quiet |-> ~result /\ Quiet(m.ctor),
         holds |-> request,
         around |-> FALSE,
         follows |-> Len(m.plan)]

\* The follow-ups a server branch may answer with.
MayAnswer(m) ==
    LET conts == app.conts[m.ctor]
        to == IF conts.known THEN conts.to ELSE Handled
    IN  {p \in Plans : /\ \A i \in DOMAIN p : p[i] \in to \ app.internal
                       /\ p = <<>> \/ Len(m.key) <= MaxChain}

-----------------------------------------------------------------------------
\* THE SCHEDULER

\* drain's loop condition: a hold lets only urgent Msgs pass.
Runnable(q, h) == q # <<>> /\ (h = NoKey \/ q[1].urgent)

\* Every entry point ends in drain, which a running drain leaves to itself.
Drain(q, h) ==
    /\ queue' = q
    /\ hold' = h
    /\ running' = (running \/ Runnable(q, h))

NewKey == <<arrivals + 1>>
Arrive == arrivals < MaxArrivals /\ arrivals' = arrivals + 1
Notice == notices < MaxNotices /\ notices' = notices + 1

Event(c, tick, urgent) ==
    [key |-> NewKey, kind |-> "event", ctor |-> c, plan |-> <<>>, tick |-> tick,
     urgent |-> urgent]

Dispatch(c) ==
    /\ Arrive
    /\ Drain(Append(queue, Event(c, FALSE, FALSE)), hold)
    /\ UNCHANGED <<app, inflight, tickNet, notices, log>>

DispatchTick(c) ==
    /\ Arrive
    /\ Drain(Append(queue, Event(c, TRUE, FALSE)), hold)
    /\ UNCHANGED <<app, inflight, tickNet, notices, log>>

HeldJob == CHOOSE j \in inflight : j.key = hold

\* The hold-free table, looked up for the hold in flight.
Listed(c) == HeldJob.named /\ <<HeldJob.ctor, c>> \in HoldFreePairs(app)

\* Mutated HoldFreeNow: what waits in the queue is not looked at.
HoldFreeAlways(c) == hold # NoKey /\ ~running /\ Listed(c)

\* holdFreeNow: listed for the hold in flight, and nothing ordinary waits.
HoldFreeNow(c) ==
    /\ hold # NoKey
    /\ ~running
    /\ \A i \in DOMAIN queue : queue[i].urgent
    /\ Listed(c)

\* A Msg of a form control's input event.
DispatchFrom(c) ==
    /\ Arrive
    /\ Drain(Append(queue, Event(c, FALSE, HoldFreeNow(c))), hold)
    /\ UNCHANGED <<app, inflight, tickNet, notices, log>>

\* A change of the connection state: behind the urgent Msgs, ahead of the rest.
DispatchUrgent(c) ==
    /\ ~Server(c)
    /\ Notice
    /\ LET i == Cardinality({k \in DOMAIN queue : \A l \in 1 .. k : queue[l].urgent})
           m == [Event(c, FALSE, TRUE) EXCEPT !.kind = "connection", !.key = NoKey]
       IN  Drain(SubSeq(queue, 1, i) \o <<m>> \o SubSeq(queue, i + 1, Len(queue)), hold)
    /\ UNCHANGED <<app, inflight, tickNet, arrivals, log>>

\* issue, by the server branch that runs; named, if drain runs it (curMsg).
Issue(m, plan, named) ==
    /\ inflight' = inflight \cup
          {[key |-> m.key, ctor |-> m.ctor, plan |-> plan, tick |-> m.tick,
            named |-> named]}
    /\ tickNet' = tickNet + (IF m.tick THEN 1 ELSE 0)
    /\ hold' = IF m.ctor \in Holds /\ hold = NoKey THEN m.key ELSE hold

FollowUp(m, i) ==
    [key |-> m.key \o <<i>>, kind |-> "followUp", ctor |-> m.plan[i],
     plan |-> <<>>, tick |-> FALSE, urgent |-> FALSE]

\* Mutated FollowUpMsgs: the last follow-up is forgotten.
FollowUpMsgsButLast(m) == [i \in 1 .. Len(m.plan) - 1 |-> FollowUp(m, i)]

\* dispatchFirst, by the result that runs.
FollowUpMsgs(m) == [i \in 1 .. Len(m.plan) |-> FollowUp(m, i)]

\* One turn of drain's loop: the step of the Msg at the head and its command.
\* A report without an RPC error handler and a connection Msg are the
\* runtime's own: they are not part of Sky.Live's order.
RunHead ==
    /\ running
    /\ Runnable(queue, hold)
    /\ LET m == Head(queue)
       IN  /\ IF m.kind \in {"event", "followUp"} /\ Server(m.ctor)
              THEN \E plan \in MayAnswer(m) : Issue(m, plan, TRUE)
              ELSE UNCHANGED <<inflight, tickNet, hold>>
           /\ queue' = FollowUpMsgs(m) \o Tail(queue)
           /\ log' = IF m.kind \in {"event", "followUp", "result"}
                     THEN Append(log, Effect(m)) ELSE log
    /\ running' = Runnable(queue', hold')
    /\ UNCHANGED <<app, arrivals, notices>>

\* spaDeliverFragment, on a hashchange or a Nav command: step runs the Msg at
\* once, whatever waits, and its command; nothing drains the queue after it.
DeliverFragment(c) ==
    /\ ~running
    /\ Arrive
    /\ LET m == Event(c, FALSE, FALSE)
       IN  /\ IF Server(c)
              THEN \E plan \in MayAnswer(m) : Issue(m, plan, FALSE)
              ELSE UNCHANGED <<inflight, tickNet, hold>>
           /\ log' = Append(log, [Effect(m) EXCEPT !.around = TRUE,
                                                  !.holds = @ /\ hold = NoKey])
    /\ UNCHANGED <<app, queue, running, notices>>

ResultOf(j, kind, key, urgent) ==
    [key |-> key, kind |-> kind, ctor |-> j.ctor,
     plan |-> IF kind = "result" THEN j.plan ELSE <<>>, tick |-> FALSE, urgent |-> urgent]

Settled(j) == inflight \ {j}

\* Mutated HoldAfter: the hold that answered is kept.
Held(j) == hold

\* settle releases the hold that answered.
HoldAfter(j) == IF hold = j.key THEN NoKey ELSE hold

\* Mutated TickNetAfter: the count is not taken back.
TickNetKept(j) == tickNet

\* tickNetEnd, with its clamp: the last one deletes the entry.
TickNetAfter(j) ==
    IF ~j.tick THEN tickNet ELSE IF tickNet <= 1 THEN 0 ELSE tickNet - 1

\* settle: a hold's result releases the hold and runs first, any other result
\* joins the queue in arrival order.
Settle(j) ==
    /\ j \in inflight
    /\ inflight' = Settled(j)
    /\ tickNet' = TickNetAfter(j)
    /\ IF hold = j.key
       THEN /\ Drain(<<ResultOf(j, "result", j.key \o <<0>>, TRUE)>> \o queue, HoldAfter(j))
            /\ UNCHANGED arrivals
       ELSE /\ Arrive
            /\ Drain(Append(queue, ResultOf(j, "result", NewKey, FALSE)), HoldAfter(j))
    /\ UNCHANGED <<app, notices, log>>

\* report: the transport gave up for now; the RPC stays in flight.
ReportError(j) ==
    /\ j \in inflight
    /\ Notice
    /\ LET m == ResultOf(j, "report", NoKey, hold = j.key)
       IN  Drain(IF hold = j.key THEN <<m>> \o queue ELSE Append(queue, m), hold)
    /\ UNCHANGED <<app, inflight, tickNet, arrivals, log>>

Next ==
    \/ \E c \in Handled : Dispatch(c)
    \/ \E c \in Handled \cap Ticks : DispatchTick(c)
    \/ \E c \in Handled \cap Inputs : DispatchFrom(c)
    \/ \E c \in Handled \cap Connections : DispatchUrgent(c)
    \/ \E c \in Handled \cap Fragments : DeliverFragment(c)
    \/ RunHead
    \/ \E j \in inflight : Settle(j) \/ ReportError(j)

Spec == Init /\ [][Next]_vars

-----------------------------------------------------------------------------
\* PROPERTIES

Before(a, b) ==
    \E i \in DOMAIN b :
        /\ \A k \in 1 .. i - 1 : k <= Len(a) /\ a[k] = b[k]
        /\ i > Len(a) \/ a[i] < b[i]

Clash(r, s) ==
    Meet(r.writes, s.reads \cup s.writes) \/ Meet(r.reads, s.writes)

\* A step that runs before one that Sky.Live would have run first starts no
\* command and touches nothing the other writes, or writes nothing it touches:
\* the model is the one of Sky.Live's order (holdFreeNow's claim).  This holds
\* of every step but those that spaDeliverFragment runs around the queue.
OvertakersCommute ==
    \A j \in DOMAIN log : \A i \in 1 .. j - 1 :
        Before(log[j].key, log[i].key) /\ ~log[i].around
            => log[i].quiet /\ ~Clash(log[i], log[j])

\* What is queued or will be applied for the hold in flight.
FollowUpsOf(m) == {FollowUpMsgs(m)[i] : i \in DOMAIN FollowUpMsgs(m)}
Pending ==
    LET results == {ResultOf(j, "result", hold \o <<0>>, TRUE) :
                       j \in {k \in inflight : k.key = hold}}
        queued == {queue[i] : i \in {k \in DOMAIN queue :
                                        queue[k].kind \in {"event", "followUp", "result"}}}
        msgs == results \cup queued
    IN  {Effect(m) : m \in msgs \cup UNION {FollowUpsOf(m) : m \in msgs}}

\* The last step that wrote f, as run and in Sky.Live's order cut after a step.
LastRun(f) ==
    LET at == {i \in DOMAIN log : f \in log[i].writes}
    IN  IF at = {} THEN NoKey ELSE log[CHOOSE i \in at : \A k \in at : k <= i].key
LastSerial(steps, f) ==
    LET ws == {s \in steps : f \in s.writes}
    IN  IF ws = {} THEN NoKey
        ELSE (CHOOSE s \in ws : \A t \in ws : ~Before(s.key, t.key)).key

\* After every step, subscriptions reads a state Sky.Live has too: the fields
\* it reads hold what some prefix of Sky.Live's order leaves in them, as long as
\* no fragment was delivered around the queue.
SubscriptionStateSerial ==
    (\A i \in DOMAIN log : ~log[i].around) =>
    LET steps == {log[i] : i \in DOMAIN log} \cup Pending
        seen == IF app.subs.known THEN app.subs.reads ELSE Fields
    IN  \E cut \in {s.key : s \in steps} \cup {NoKey} :
            LET prefix == {s \in steps : ~Before(cut, s.key)}
            IN  \A f \in seen : LastRun(f) = LastSerial(prefix, f)

\* How often a step ran or waits to run.
Occurrences(key) ==
    Cardinality({i \in DOMAIN log : log[i].key = key})
        + Cardinality({i \in DOMAIN queue : queue[i].key = key})

\* Every Msg runs once: none that arrived is lost or repeated, a hold that ran
\* is either in flight or has exactly one result, and each follow-up that a
\* result put at the head of the queue has run or waits, once.
EveryMsgOnce ==
    /\ \A n \in 1 .. arrivals : Occurrences(<<n>>) = 1
    /\ \A i \in {k \in DOMAIN log : log[k].holds} :
          LET r == log[i].key
          IN  Occurrences(r \o <<0>>)
                 = IF \E j \in inflight : j.key = r THEN 0 ELSE 1
    /\ \A i \in DOMAIN log : \A k \in 1 .. log[i].follows :
          Occurrences(log[i].key \o <<k>>) = 1

\* Msgs wait without a drain in progress only behind a hold that is in flight
\* and so will be settled: no Msg is stranded.
NothingStranded ==
    ~running /\ queue # <<>> => \E j \in inflight : j.key = hold

\* The tick gate skips an interval's ticks for as long as one of its RPCs is
\* unsettled, and the RPCs that settled leave nothing behind in the count.
TickBusyExact == tickNet = Cardinality({j \in inflight : j.tick})

=============================================================================
