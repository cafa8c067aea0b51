--------------------------- MODULE SpaSubsProofs ---------------------------
(***************************************************************************)
(* What subscriptions reads in a Sky.Spa app is what a prefix of Sky.Live's*)
(* order leaves, for every app and every schedule in which no fragment was *)
(* delivered around the queue (NoneAround).                                *)
(*                                                                         *)
(* The prefix ends with the last step, in that order, that has run and has *)
(* written a field subscriptions reads.  By OrderInv no step still to come *)
(* before that one writes such a field, and of two steps that ran and      *)
(* wrote the same field the later one is also the later in Sky.Live.       *)
(***************************************************************************)
EXTENDS SpaSchedProofs

\* No step ran around the queue.
NoneAround == \A i \in DOMAIN log : ~log[i].around

\* Steps by their place in the log.
Wrote(i, A) == i \in DOMAIN log /\ Meet(log[i].writes, A)

\* The last to run and write f; the last of Sky.Live's order that ran and wrote
\* what subscriptions reads.
LastFor(i, f) == Wrote(i, {f}) /\ \A k \in DOMAIN log : Wrote(k, {f}) => k <= i
LastSeen(i) ==
    Wrote(i, Seen) /\ \A k \in DOMAIN log : Wrote(k, Seen) => ~Before(log[i].key, log[k].key)

\* There are such steps, if any writes at all.
LastInv ==
    /\ \A f : (\E k \in DOMAIN log : Wrote(k, {f})) => \E i \in DOMAIN log : LastFor(i, f)
    /\ (\E k \in DOMAIN log : Wrote(k, Seen)) => \E i \in DOMAIN log : LastSeen(i)

-----------------------------------------------------------------------------
\* SKY.LIVE'S ORDER

LEMMA OrderBefore ==
    ASSUME NEW k \in Keys, NEW l \in Keys, k # l, Less(k, l) \/ Prefix(k, l)
    PROVE  Before(k, l)
<1>0. /\ Len(k) \in Nat /\ DOMAIN k = 1 .. Len(k)
      /\ Len(l) \in Nat /\ DOMAIN l = 1 .. Len(l)
  BY KeyFacts
<1>1. CASE Less(k, l)
  <2>1. PICK i \in DOMAIN k \cap DOMAIN l : k[i] < l[i] /\ \A n \in 1 .. i - 1 : k[n] = l[n]
    BY <1>1 DEF Less
  <2> QED
    BY <1>0, <2>1 DEF Before
<1>2. CASE Prefix(k, l)
  <2>1. Len(k) <= Len(l) /\ \A n \in DOMAIN k : k[n] = l[n]
    BY <1>2 DEF Prefix
  <2>2. Len(k) # Len(l)
    <3> SUFFICES ASSUME Len(k) = Len(l) PROVE FALSE
      OBVIOUS
    <3>1. k \in Seq(Nat) /\ l \in Seq(Nat) /\ \A n \in 1 .. Len(k) : k[n] = l[n]
      BY <1>0, <2>1 DEF Keys
    <3>2. k = l
      BY <3>1, SeqEqual
    <3> QED
      BY <3>2
  <2>3. PICK i \in Nat : i = Len(k) + 1
    BY <1>0
  <2>4. i \in DOMAIN l /\ i > Len(k)
    <3>1. Len(k) \in Nat /\ Len(l) \in Nat /\ Len(k) <= Len(l) /\ Len(k) # Len(l)
      BY <1>0, <2>1, <2>2
    <3>2. i \in 1 .. Len(l) /\ i > Len(k)
      BY <3>1, <2>3
    <3> QED
      BY <3>2, <1>0
  <2>5. \A n \in 1 .. i - 1 : n \in DOMAIN k /\ n <= Len(k)
    BY <1>0, <2>3
  <2> QED
    BY <2>1, <2>4, <2>5 DEF Before
<1> QED
  BY <1>1, <1>2

LEMMA BeforeTransitive ==
    ASSUME NEW a \in Keys, NEW b \in Keys, NEW c \in Keys, Before(a, b), Before(b, c)
    PROVE  Before(a, c)
<1>0. /\ Len(a) \in Nat /\ DOMAIN a = 1 .. Len(a) /\ \A n \in 1 .. Len(a) : a[n] \in Nat
      /\ Len(b) \in Nat /\ DOMAIN b = 1 .. Len(b) /\ \A n \in 1 .. Len(b) : b[n] \in Nat
      /\ Len(c) \in Nat /\ DOMAIN c = 1 .. Len(c) /\ \A n \in 1 .. Len(c) : c[n] \in Nat
  BY KeyFacts
<1>1. PICK i \in 1 .. Len(b) : /\ \A k \in 1 .. i - 1 : k <= Len(a) /\ a[k] = b[k]
                               /\ i > Len(a) \/ a[i] < b[i]
  BY <1>0 DEF Before
<1>2. PICK j \in 1 .. Len(c) : /\ \A k \in 1 .. j - 1 : k <= Len(b) /\ b[k] = c[k]
                               /\ j > Len(b) \/ b[j] < c[j]
  BY <1>0 DEF Before
<1>3. CASE i < j
  <2>1. i \in 1 .. Len(c) /\ b[i] = c[i]
    BY <1>0, <1>1, <1>2, <1>3
  <2>2. \A k \in 1 .. i - 1 : k <= Len(a) /\ a[k] = c[k]
    BY <1>0, <1>1, <1>2, <1>3
  <2> QED
    BY <1>0, <1>1, <2>1, <2>2 DEF Before
<1>4. CASE i = j
  <2>1. b[j] < c[j]
    BY <1>0, <1>1, <1>2, <1>4
  <2>2. \A k \in 1 .. j - 1 : k <= Len(a) /\ a[k] = c[k]
    BY <1>0, <1>1, <1>2, <1>4
  <2>3. j > Len(a) \/ a[j] < c[j]
    BY <1>0, <1>1, <1>2, <1>4, <2>1
  <2> QED
    BY <1>0, <2>2, <2>3 DEF Before
<1>5. CASE j < i
  <2>1. j <= Len(a) /\ a[j] = b[j] /\ b[j] < c[j]
    BY <1>0, <1>1, <1>2, <1>5
  <2>2. \A k \in 1 .. j - 1 : k <= Len(a) /\ a[k] = c[k]
    BY <1>0, <1>1, <1>2, <1>5
  <2> QED
    BY <1>0, <2>1, <2>2 DEF Before
<1> QED
  BY <1>3, <1>4, <1>5

-----------------------------------------------------------------------------
\* THE LOG

\* Two steps that ran: in order, or without a trace of the order.
LogShape ==
    /\ DOMAIN log = 1 .. Len(log) /\ Len(log) \in Nat
    /\ \A i \in DOMAIN log : log[i] \in Run /\ log[i].key \in Keys /\ log[i].key # NoKey
    /\ \A i, k \in DOMAIN log : i < k =>
          \/ Before(log[i].key, log[k].key) /\ ~Before(log[k].key, log[i].key)
          \/ ~Shows(log[i], log[k])

LEMMA LogPairs == Inv /\ NoneAround => LogShape
<1> SUFFICES ASSUME Inv, NoneAround PROVE LogShape
  OBVIOUS
<1>0. TypeOK /\ KeyInv /\ OrderInv
  BY DEF Inv
<1>1. DOMAIN log = 1 .. Len(log) /\ Len(log) \in Nat
  BY <1>0, LenProperties DEF TypeOK
<1>2. \A i \in DOMAIN log : log[i] \in Run /\ log[i].key \in Keys /\ log[i].key # NoKey
  <2>1. \A i \in DOMAIN log : log[i] \in Elems(log)
    BY DEF Elems
  <2> QED
    BY <2>1, <1>0, KeyTypes DEF Run, Ran, KeyInv
<1>3. ASSUME NEW i \in DOMAIN log, NEW k \in DOMAIN log, i < k
      PROVE  \/ Before(log[i].key, log[k].key) /\ ~Before(log[k].key, log[i].key)
             \/ ~Shows(log[i], log[k])
  <2>1. LogFits(log[i], log[k])
    BY <1>0, <1>3 DEF OrderInv, Pairwise, LogFitSet
  <2> QED
    BY <1>2, <2>1, OrderBefore, SeenNotBefore DEF LogFits, NoneAround
<1> QED
  BY <1>1, <1>2, <1>3 DEF LogShape

\* A step adds at most one entry to the log.
LEMMA LogGrows ==
    ASSUME Inv, [Next]_vars
    PROVE  app' = app /\ (log' = log \/ \E e \in Run : log' = Append(log, e))
<1>1. TypeOK
  BY DEF Inv
<1>2. CASE RunHead
  <2>1. Head(queue) \in Msg
    BY <1>1, <1>2, HeadFirst DEF RunHead, Runnable, TypeOK
  <2> QED
    BY <1>1, <1>2, <2>1, EffectType DEF RunHead
<1>3. ASSUME NEW c \in Handled, DeliverFragment(c)
      PROVE  app' = app /\ \E e \in Run : log' = Append(log, e)
  <2>1. KeyInv
    BY DEF Inv
  <2> QED
    BY <1>1, <1>3, <2>1, FragmentRun DEF DeliverFragment
<1>4. CASE ~RunHead /\ ~\E c \in Handled : DeliverFragment(c)
  BY <1>4 DEF Next, Dispatch, DispatchTick, DispatchFrom, DispatchUrgent, Settle, ReportError,
              vars
<1> QED
  BY <1>2, <1>3, <1>4

\* What ran around the queue stays in the log.
LEMMA AroundStays ==
    ASSUME Inv, [Next]_vars, NoneAround'
    PROVE  NoneAround
<1>1. CASE log' = log
  BY <1>1 DEF NoneAround
<1>2. ASSUME NEW e \in Run, log' = Append(log, e) PROVE NoneAround
  <2>1. log \in Seq(Run)
    BY DEF Inv, TypeOK
  <2>2. \A i \in DOMAIN log : i \in DOMAIN log' /\ log'[i] = log[i]
    BY <1>2, <2>1
  <2> QED
    BY <2>2 DEF NoneAround
<1> QED
  BY <1>1, <1>2, LogGrows

LEMMA LastStep ==
    ASSUME Inv, Inv', LastInv, NoneAround, NoneAround', [Next]_vars
    PROVE  LastInv'
<1>0. app' = app /\ Seen' = Seen
  BY LogGrows DEF Seen
<1>s. LogShape /\ LogShape'
  BY LogPairs, PTL
<1>1. CASE log' = log
  BY <1>0, <1>1 DEF LastInv, LastFor, LastSeen, Wrote
<1>2. ASSUME NEW e \in Run, log' = Append(log, e)
      PROVE  LastInv'
  <2>1. /\ DOMAIN log = 1 .. Len(log) /\ Len(log) \in Nat
        /\ \A i \in DOMAIN log : log[i].key \in Keys
    BY <1>s DEF LogShape
  <2>2. PICK n \in Nat : n = Len(log) + 1
    BY <2>1
  <2>3. e.key \in Keys
    BY DEF Run
  <2>4. /\ log'[n] = e /\ n \in DOMAIN log'
        /\ \A i \in DOMAIN log : log'[i] = log[i] /\ i \in DOMAIN log' /\ i < n
        /\ \A i \in DOMAIN log' : i \in DOMAIN log \/ i = n
    BY <1>2, <2>1, <2>2 DEF Inv, TypeOK
  <2>5. \A i \in DOMAIN log : /\ \A f : Wrote(i, {f})' <=> Wrote(i, {f})
                             /\ Wrote(i, Seen)' <=> Wrote(i, Seen)
    BY <1>0, <2>4 DEF Wrote
  <2>6. \A i \in DOMAIN log : i <= n
    BY <2>1, <2>2
  <2>7. ASSUME NEW f, \E k \in DOMAIN log' : Wrote(k, {f})'
        PROVE  \E i \in DOMAIN log' : LastFor(i, f)'
    <3>1. CASE Wrote(n, {f})'
      <4>1. LastFor(n, f)'
        BY <3>1, <2>4, <2>6 DEF LastFor
      <4> QED
        BY <4>1, <2>4
    <3>2. CASE ~Wrote(n, {f})'
      <4>1. \E k \in DOMAIN log : Wrote(k, {f})
        BY <3>2, <2>4, <2>5, <2>7 DEF Wrote
      <4>2. PICK i \in DOMAIN log : LastFor(i, f)
        BY <4>1 DEF LastInv
      <4>3. LastFor(i, f)'
        BY <4>2, <3>2, <2>4, <2>5 DEF LastFor, Wrote
      <4> QED
        BY <4>3, <2>4
    <3> QED
      BY <3>1, <3>2
  <2>8. ASSUME \E k \in DOMAIN log' : Wrote(k, Seen)'
        PROVE  \E i \in DOMAIN log' : LastSeen(i)'
    <3>1. CASE ~\E k \in DOMAIN log : Wrote(k, Seen)
      <4>1. Wrote(n, Seen)' /\ \A k \in DOMAIN log' : Wrote(k, Seen)' => k = n
        BY <3>1, <2>4, <2>5, <2>8 DEF Wrote
      <4>2. ~Before(e.key, e.key)
        BY <2>3, SeenNotBefore, KeyFacts DEF Prefix
      <4>3. LastSeen(n)'
        BY <4>1, <4>2, <2>4 DEF LastSeen
      <4> QED
        BY <4>3, <2>4
    <3>2. CASE \E k \in DOMAIN log : Wrote(k, Seen)
      <4>1. PICK i \in DOMAIN log : LastSeen(i)
        BY <3>2 DEF LastInv
      <4>2. /\ Wrote(i, Seen)
            /\ \A k \in DOMAIN log : Wrote(k, Seen) => ~Before(log[i].key, log[k].key)
        BY <4>1 DEF LastSeen
      <4>3. CASE ~Wrote(n, Seen)'
        <5>1. LastSeen(i)'
          BY <4>2, <4>3, <2>4, <2>5 DEF LastSeen, Wrote
        <5> QED
          BY <5>1, <2>4
      <4>4. CASE Wrote(n, Seen)'
        <5>1. Before(log[i].key, e.key)
          <6>1. Meet(log'[i].writes, Seen') /\ Meet(log'[n].writes, Seen')
            BY <4>2, <4>4, <2>4, <2>5 DEF Wrote
          <6>2. Before(log'[i].key, log'[n].key)
            BY <6>1, <2>4, <1>s DEF LogShape, Shows
          <6> QED
            BY <6>2, <2>4
        <5>2. \A k \in DOMAIN log : Wrote(k, Seen) => ~Before(e.key, log[k].key)
          BY <5>1, <4>2, <2>1, <2>3, BeforeTransitive
        <5>3. ~Before(e.key, e.key)
          BY <2>3, SeenNotBefore, KeyFacts DEF Prefix
        <5>4. LastSeen(n)'
          BY <4>4, <5>2, <5>3, <2>4, <2>5 DEF LastSeen, Wrote
        <5> QED
          BY <5>4, <2>4
      <4> QED
        BY <4>3, <4>4
    <3> QED
      BY <3>1, <3>2
  <2> QED
    BY <2>7, <2>8 DEF LastInv
<1> QED
  BY <1>1, <1>2, LogGrows

-----------------------------------------------------------------------------
\* WHAT IS STILL TO COME

\* A step to come is a Msg that waits, the answer of the hold, or a follow-up of
\* one of them.
LEMMA PendingIs ==
    ASSUME Inv, NEW s \in Pending
    PROVE  \E m \in Msg :
              /\ m.key \in Keys /\ m.key # NoKey /\ m.key \notin Ran
              /\ \A r \in Elems(log) : InOrder(r, m)
              /\ \/ s = Effect(m)
                 \/ \E i \in DOMAIN m.plan : s = Effect(FollowUpMsgs(m)[i])
<1>0. TypeOK /\ QueueInv /\ KeyInv /\ JobInv /\ OrderInv
  BY DEF Inv
<1> DEFINE results == {ResultOf(j, "result", hold \o <<0>>, TRUE) :
                         j \in {k \in inflight : k.key = hold}}
           queued == {queue[i] : i \in {k \in DOMAIN queue :
                                   queue[k].kind \in {"event", "followUp", "result"}}}
           msgs == results \cup queued
<1>1. PICK m \in msgs :
         \/ s = Effect(m)
         \/ \E i \in DOMAIN FollowUpMsgs(m) : s = Effect(FollowUpMsgs(m)[i])
  BY DEF Pending, FollowUpsOf
<1>2. CASE m \in queued
  <2>1. m \in Elems(queue) /\ Ordered(m)
    BY <1>2 DEF Elems, Ordered
  <2>2. m \in Msg /\ Sound(m) /\ m.key \in Waiting
    BY <1>0, <2>1, KeyTypes DEF QueueInv, Waiting
  <2>3. m.key \in Keys /\ m.key # NoKey /\ m.key \notin Ran
    BY <1>0, <2>1, <2>2 DEF Msg, Sound, KeyInv
  <2>4. \A r \in Elems(log) : InOrder(r, m)
    BY <1>0, <2>1 DEF OrderInv
  <2> QED
    BY <1>1, <2>2, <2>3, <2>4, FollowUpsType
<1>3. CASE m \in results
  <2>1. PICK j \in inflight : j.key = hold /\ m = Answer(j)
    BY <1>3 DEF Answer, Child
  <2>2. m \in Msg /\ m.key = Child(j.key, 0)
    BY <1>0, <2>1, AnswerType
  <2>3. j.key \in Keys /\ m.key \in Keys /\ m.key \notin Ran
    BY <1>0, <2>2, KeyTypes DEF JobInv
  <2>4. m.key # NoKey
    BY <2>2, <2>3, ChildNotNoKey
  <2>5. \A r \in Elems(log) : InOrder(r, m)
    BY <1>0, <2>1 DEF OrderInv
  <2> QED
    BY <1>1, <2>2, <2>3, <2>4, <2>5, FollowUpsType
<1> QED
  BY <1>1, <1>2, <1>3

\* It comes after r in Sky.Live's order, if both write what subscriptions reads.
LEMMA PendingLater ==
    ASSUME Inv, NoneAround, NEW s \in Pending
    PROVE  /\ s.key \in Keys /\ s.key # NoKey
           /\ \A r \in Elems(log) :
                 Meet(r.writes, Seen) /\ Meet(s.writes, Seen) => Before(r.key, s.key)
<1>0. TypeOK /\ \A r \in Elems(log) : ~r.around
  BY DEF Inv, NoneAround, Elems
<1>1. PICK m \in Msg :
              /\ m.key \in Keys /\ m.key # NoKey /\ m.key \notin Ran
              /\ \A r \in Elems(log) : InOrder(r, m)
              /\ \/ s = Effect(m)
                 \/ \E i \in DOMAIN m.plan : s = Effect(FollowUpMsgs(m)[i])
  BY PendingIs
<1>2. CASE s = Effect(m)
  <2>1. s.key = m.key
    BY <1>0, <1>2, EffectType
  <2>2. ASSUME NEW r \in Elems(log), Meet(r.writes, Seen), Meet(s.writes, Seen)
        PROVE  Before(r.key, s.key)
    <3>1. r.key \in Keys /\ r.key \in Ran
      BY <1>0, KeyTypes DEF Ran
    <3>2. ~Calm(r, m)
      BY <1>2, <2>2 DEF Calm, Shows
    <3>3. Less(r.key, m.key) \/ Prefix(r.key, m.key)
      BY <1>0, <1>1, <3>2 DEF InOrder
    <3> QED
      BY <1>1, <2>1, <3>1, <3>3, OrderBefore
  <2> QED
    BY <1>1, <2>1, <2>2
<1>3. ASSUME NEW i \in DOMAIN m.plan, s = Effect(FollowUpMsgs(m)[i])
      PROVE  /\ s.key \in Keys /\ s.key # NoKey
             /\ \A r \in Elems(log) :
                   Meet(r.writes, Seen) /\ Meet(s.writes, Seen) => Before(r.key, s.key)
  <2>0. i \in Nat /\ FollowUpMsgs(m)[i] = FollowUp(m, i) /\ FollowUpMsgs(m)[i] \in Msg
    <3>1. /\ FollowUpMsgs(m) \in Seq(Msg) /\ DOMAIN FollowUpMsgs(m) = DOMAIN m.plan
          /\ i \in Nat /\ FollowUpMsgs(m)[i] = FollowUp(m, i)
      BY FollowUpsType
    <3> QED
      BY <3>1, ElementOfSeq
  <2>1. s.key = Child(m.key, i)
    <3>1. FollowUp(m, i).key = Child(m.key, i)
      BY DEF FollowUp, Child
    <3> QED
      BY <1>0, <1>3, <2>0, <3>1, EffectType
  <2>2. s.key \in Keys /\ s.key # NoKey
    BY <1>1, <2>0, <2>1, ChildKey, ChildNotNoKey
  <2>3. ASSUME NEW r \in Elems(log), Meet(r.writes, Seen), Meet(s.writes, Seen)
        PROVE  Before(r.key, s.key)
    <3>1. r.key \in Keys /\ r.key \in Ran
      BY <1>0, KeyTypes DEF Ran
    <3>2. ~Calm(r, m)
      BY <1>3, <2>3 DEF Calm, Shows
    <3>3. Less(r.key, m.key) \/ Prefix(r.key, m.key)
      BY <1>0, <1>1, <3>2 DEF InOrder
    <3>4. Less(r.key, s.key) \/ Prefix(r.key, s.key)
      BY <1>1, <2>0, <2>1, <3>1, <3>3, LessChild
    <3>5. r.key # s.key
      <4>1. CASE Less(r.key, m.key)
        <5>1. Less(r.key, s.key)
          BY <4>1, <1>1, <2>0, <2>1, <3>1, LessChild
        <5> QED
          BY <5>1, <2>2, <3>1, LessDiffers
      <4>2. CASE Prefix(r.key, m.key)
        <5>1. Len(r.key) <= Len(m.key) /\ Len(s.key) = Len(m.key) + 1
          BY <4>2, <1>1, <2>0, <2>1, ChildKey DEF Prefix
        <5>2. Len(r.key) \in Nat /\ Len(m.key) \in Nat
          BY <1>1, <3>1, KeyFacts
        <5> QED
          BY <5>1, <5>2
      <4> QED
        BY <3>3, <4>1, <4>2
    <3> QED
      BY <2>2, <3>1, <3>4, <3>5, OrderBefore
  <2> QED
    BY <2>2, <2>3
<1> QED
  BY <1>1, <1>2, <1>3

-----------------------------------------------------------------------------
\* THE PREFIX

LEMMA NoKeyFirst ==
    ASSUME NEW k \in Keys, k # NoKey
    PROVE  Before(NoKey, k)
<1>1. NoKey \in Keys /\ Prefix(NoKey, k)
  BY KeyFacts DEF NoKey, Keys, Prefix
<1> QED
  BY <1>1, OrderBefore

\* The last to write f, as run.
LEMMA LastRunIs ==
    ASSUME NEW f, NEW i \in DOMAIN log, LastFor(i, f), LogShape
    PROVE  LastRun(f) = log[i].key
<1> DEFINE at == {k \in DOMAIN log : f \in log[k].writes}
<1>1. i \in at /\ \A k \in at : k <= i
  BY DEF LastFor, Wrote, Meet
<1>2. at \subseteq Nat
  BY DEF LogShape
<1>3. \A k \in at : (\A l \in at : l <= k) => k = i
  BY <1>1, <1>2
<1> HIDE DEF at
<1>4. (CHOOSE k \in at : \A l \in at : l <= k) = i
  BY <1>1, <1>3
<1> QED
  BY <1>1, <1>4 DEF LastRun, at

\* The last to write f, in Sky.Live's order: the same.
LEMMA LastSerialIs ==
    ASSUME NEW f, NEW i \in DOMAIN log, LastFor(i, f), LogShape,
           NEW S,
           \A s \in S : f \in s.writes => \E k \in DOMAIN log : s = log[k],
           \A k \in DOMAIN log : f \in log[k].writes => log[k] \in S
    PROVE  LastSerial(S, f) = log[i].key
<1> DEFINE ws == {s \in S : f \in s.writes}
<1>1. f \in log[i].writes /\ \A k \in DOMAIN log : f \in log[k].writes => k <= i
  BY DEF LastFor, Wrote, Meet
<1>2. log[i] \in ws
  BY <1>1
<1>3. ASSUME NEW k \in DOMAIN log, f \in log[k].writes, k # i
      PROVE  Before(log[k].key, log[i].key) /\ ~Before(log[i].key, log[k].key)
  <2>1. k < i
    <3>1. k <= i /\ k \in Nat /\ i \in Nat
      BY <1>1, <1>3 DEF LogShape
    <3> QED
      BY <3>1, <1>3
  <2>2. Shows(log[k], log[i])
    BY <1>1, <1>3 DEF Shows, Clash, Meet
  <2> QED
    BY <2>1, <2>2 DEF LogShape
<1>4. ~Before(log[i].key, log[i].key)
  <2>1. log[i].key \in Keys
    BY DEF LogShape
  <2> QED
    BY <2>1, SeenNotBefore, KeyFacts DEF Prefix
<1>5. \A t \in ws : t = log[i] \/ (Before(t.key, log[i].key) /\ ~Before(log[i].key, t.key))
  BY <1>3
<1>6. \A t \in ws : ~Before(log[i].key, t.key)
  BY <1>4, <1>5
<1>7. \A s \in ws : (\A t \in ws : ~Before(s.key, t.key)) => s = log[i]
  BY <1>2, <1>5
<1> HIDE DEF ws
<1>8. (CHOOSE s \in ws : \A t \in ws : ~Before(s.key, t.key)) = log[i]
  BY <1>2, <1>6, <1>7
<1> QED
  BY <1>2, <1>8 DEF LastSerial, ws

\* A field nothing has written.
LEMMA NeverWritten ==
    ASSUME NEW f, NEW S, \A k \in DOMAIN log : f \notin log[k].writes,
           \A s \in S : f \in s.writes => \E k \in DOMAIN log : s = log[k]
    PROVE  LastRun(f) = LastSerial(S, f)
<1>1. {k \in DOMAIN log : f \in log[k].writes} = {} /\ {s \in S : f \in s.writes} = {}
  OBVIOUS
<1> QED
  BY <1>1 DEF LastRun, LastSerial

LEMMA SerialNow == Inv /\ (NoneAround => LastInv) => SubscriptionStateSerial
<1> SUFFICES ASSUME Inv, LastInv, NoneAround PROVE SubscriptionStateSerial
  BY DEF NoneAround, SubscriptionStateSerial
<1>s. LogShape
  BY LogPairs
<1> DEFINE steps == {log[i] : i \in DOMAIN log} \cup Pending
           prefix(cut) == {s \in steps : ~Before(cut, s.key)}
<1>0. \A s \in steps : s.key \in Keys /\ s.key # NoKey
  BY <1>s, PendingLater DEF LogShape
<1>1. CASE ~\E k \in DOMAIN log : Wrote(k, Seen)
  <2>1. prefix(NoKey) = {}
    BY <1>0, NoKeyFirst
  <2>2. ASSUME NEW f \in Seen
        PROVE  LastRun(f) = LastSerial(prefix(NoKey), f)
    <3>1. \A k \in DOMAIN log : f \notin log[k].writes
      BY <1>1, <2>2 DEF Wrote, Meet
    <3> HIDE DEF prefix
    <3> QED
      BY <2>1, <3>1, NeverWritten
  <2> QED
    BY <2>2 DEF SubscriptionStateSerial, Seen
<1>2. CASE \E k \in DOMAIN log : Wrote(k, Seen)
  <2>1. PICK c \in DOMAIN log : LastSeen(c)
    BY <1>2 DEF LastInv
  <2>2. PICK cut \in {s.key : s \in steps} : cut = log[c].key
    OBVIOUS
  <2>3. ASSUME NEW f \in Seen
        PROVE  LastRun(f) = LastSerial(prefix(cut), f)
    <3>1. ASSUME NEW s \in prefix(cut), f \in s.writes
          PROVE  \E k \in DOMAIN log : s = log[k]
      <4>1. SUFFICES ASSUME s \in Pending PROVE FALSE
        BY <3>1
      <4>2. log[c] \in Elems(log) /\ Meet(log[c].writes, Seen)
        BY <2>1 DEF Elems, LastSeen, Wrote
      <4>3. Meet(s.writes, Seen)
        BY <2>3, <3>1 DEF Meet
      <4>4. Before(cut, s.key)
        BY <4>1, <4>2, <4>3, <2>2, PendingLater
      <4> QED
        BY <3>1, <4>4
    <3>2. ASSUME NEW k \in DOMAIN log, f \in log[k].writes
          PROVE  log[k] \in prefix(cut)
      <4>1. Wrote(k, Seen)
        BY <2>3, <3>2 DEF Wrote, Meet
      <4>2. ~Before(cut, log[k].key)
        BY <4>1, <2>1, <2>2 DEF LastSeen
      <4> QED
        BY <4>2
    <3> HIDE DEF prefix
    <3>3. CASE \A k \in DOMAIN log : f \notin log[k].writes
      BY <3>1, <3>3, NeverWritten
    <3>4. CASE \E k \in DOMAIN log : f \in log[k].writes
      <4>1. \E k \in DOMAIN log : Wrote(k, {f})
        BY <3>4 DEF Wrote, Meet
      <4>2. PICK i \in DOMAIN log : LastFor(i, f)
        BY <4>1 DEF LastInv
      <4>3. LastRun(f) = log[i].key
        BY <4>2, <1>s, LastRunIs
      <4>4. LastSerial(prefix(cut), f) = log[i].key
        BY <4>2, <1>s, <3>1, <3>2, LastSerialIs
      <4> QED
        BY <4>3, <4>4
    <3> QED
      BY <3>3, <3>4
  <2> QED
    BY <2>3 DEF SubscriptionStateSerial, Seen
<1> QED
  BY <1>1, <1>2

LEMMA LastInit == Init => LastInv
  BY DEF Init, LastInv, Wrote

\* After every Msg, subscriptions reads what some prefix of Sky.Live's order
\* leaves in its fields, as long as spaDeliverFragment ran nothing.  It is what hold_free_pairs asks of a pair besides that
\* the two commute: one of them writes nothing that subscriptions reads, or a
\* Msg that runs while a hold is out (holdFreeNow) would start or stop a
\* subscription at a model Sky.Live never has.
THEOREM SubscriptionsSeeAPrefix == Spec => []SubscriptionStateSerial
<1>1. Init => Inv /\ (NoneAround => LastInv)
  BY InvInit, LastInit
<1>2. Inv /\ (NoneAround => LastInv) /\ [Next]_vars => (Inv /\ (NoneAround => LastInv))'
  <2>1. Inv /\ [Next]_vars => Inv'
    BY InvStep
  <2>2. ASSUME Inv, Inv', NoneAround => LastInv, [Next]_vars, NoneAround'
        PROVE  LastInv'
    <3>1. NoneAround
      BY <2>2, AroundStays
    <3> QED
      BY <2>2, <3>1, LastStep
  <2> QED
    BY <2>1, <2>2
<1> QED
  BY <1>1, <1>2, SerialNow, PTL DEF Spec

=============================================================================
