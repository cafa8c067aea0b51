--------------------------- MODULE SpaSchedProofs ---------------------------
(***************************************************************************)
(* Theorems about the Sky.Spa scheduler, for every app, every table entry  *)
(* that hold_free_pairs allows and every bound.                            *)
(*                                                                         *)
(* The invariant Inv is about keys, the places of Msgs in Sky.Live's order.*)
(* The queue is in that order but for what dispatchFrom put ahead, which   *)
(* commutes with what it passed (QueueInv); a key runs or waits once, and  *)
(* its parent has run (KeyInv); a request belongs to one that ran, and its *)
(* result is still to come (JobInv); a hold is in flight, and what waits   *)
(* comes after it (HoldInv); what ran comes before what is still to run,   *)
(* or commutes with it and with all that follows from it, or was delivered *)
(* around the queue (OrderInv).                                            *)
(***************************************************************************)
EXTENDS SpaSched, TLAPS, FiniteSetTheorems, SequenceTheorems

Elems(s) == {s[i] : i \in DOMAIN s}
Pairwise(s, R) == \A i, j \in DOMAIN s : i < j => <<s[i], s[j]>> \in R

\* p and q part at some place, where p is the smaller: so do their extensions.
Less(p, q) ==
    \E i \in DOMAIN p \cap DOMAIN q :
        p[i] < q[i] /\ \A k \in 1 .. i - 1 : p[k] = q[k]
Prefix(p, q) == Len(p) <= Len(q) /\ \A k \in DOMAIN p : p[k] = q[k]
Child(k, i) == k \o <<i>>
Parent(k) == SubSeq(k, 1, Len(k) - 1)

Ran == {r.key : r \in Elems(log)}
Waiting == {x.key : x \in Elems(queue)}

\* A Msg of Sky.Live's order.
Ordered(x) == x.kind \in {"event", "followUp", "result"}
Input(x) == x.kind = "event" /\ x.urgent
HoldAnswer(x) == x.kind = "result" /\ x.urgent

\* Neither x nor its follow-ups send a request.
Inert(x) ==
    /\ x.kind \in {"event", "followUp"} => ~Server(x.ctor)
    /\ \A i \in DOMAIN x.plan : ~Server(x.plan[i])

\* a may wait ahead of b.
Fits(a, b) ==
    /\ Ordered(a) /\ Ordered(b) => Less(a.key, b.key)
    /\ Input(b) => Inert(a)
    /\ HoldAnswer(b) => ~Ordered(a)
FitSet == {ab \in Msg \X Msg : Fits(ab[1], ab[2])}

\* What holds of every Msg that waits.
Sound(x) ==
    /\ x.key = NoKey <=> ~Ordered(x)
    /\ x.kind # "result" => x.plan = <<>>
    /\ x.kind = "followUp" => ~x.urgent
    /\ Input(x) => ~Server(x.ctor)

QueueInv ==
    /\ Pairwise(queue, FitSet)
    /\ \A x \in Elems(queue) : Sound(x)

\* The order of r and s shows: in the model, or in what subscriptions reads.
Seen == IF app.subs.known THEN app.subs.reads ELSE Fields
Shows(r, s) == Clash(r, s) \/ (Meet(r.writes, Seen) /\ Meet(s.writes, Seen))

\* What ran comes before x, or commutes with x and with what follows x.
Calm(r, x) ==
    /\ r.quiet
    /\ Inert(x)
    /\ ~Shows(r, Effect(x))
    /\ \A i \in DOMAIN x.plan : ~Shows(r, Effect(FollowUpMsgs(x)[i]))
InOrder(r, x) ==
    Less(r.key, x.key) \/ Prefix(r.key, x.key) \/ Calm(r, x) \/ r.around

Answer(j) == ResultOf(j, "result", Child(j.key, 0), TRUE)

\* The follow-ups of a step that ran are there.
FollowInv ==
    \A r \in Elems(log) : \A i \in 1 .. r.follows : Child(r.key, i) \in Ran \cup Waiting

KeyInv ==
    /\ \A k \in Ran : k # NoKey
    /\ \A k \in Ran \cup Waiting : k # NoKey =>
          /\ k[1] \in 1 .. arrivals
          /\ Len(k) > 1 => Parent(k) \in Ran
    /\ \A n \in 1 .. arrivals : <<n>> \in Ran \cup Waiting
    /\ Ran \cap Waiting = {}
    /\ FollowInv

JobInv ==
    /\ \A j \in inflight :
          /\ j.key \in Ran
          /\ Child(j.key, 0) \notin Ran \cup Waiting
          /\ \A i \in DOMAIN j.plan :
                /\ j.plan[i] \notin app.internal
                /\ app.conts[j.ctor].known => j.plan[i] \in app.conts[j.ctor].to
    /\ \A j, k \in inflight : j.key = k.key => j = k

HoldInv ==
    /\ hold # NoKey => \E j \in inflight : j.key = hold
    /\ hold # NoKey => \A x \in Elems(queue) :
          /\ Ordered(x) => Less(hold, x.key)
          /\ ~HoldAnswer(x)
          /\ Input(x) => \A j \in inflight :
                j.key = hold => <<j.ctor, x.ctor>> \in HoldFreePairs(app)
    /\ \A r \in Elems(log) : r.holds =>
          \/ hold = r.key
          \/ /\ \A j \in inflight : j.key # r.key
             /\ Child(r.key, 0) \in Ran \cup Waiting

DrainInv == ~running => ~Runnable(queue, hold)

LogFits(r, s) ==
    /\ r.key # s.key
    /\ \/ Less(r.key, s.key) \/ Prefix(r.key, s.key)
       \/ r.quiet /\ ~Shows(r, s)
       \/ r.around
LogFitSet == {rs \in Run \X Run : LogFits(rs[1], rs[2])}

OrderInv ==
    /\ Pairwise(log, LogFitSet)
    /\ \A r \in Elems(log) :
          /\ \A x \in Elems(queue) : Ordered(x) => InOrder(r, x)
          /\ \A j \in inflight : j.key = hold => InOrder(r, Answer(j))

CountInv == IsFiniteSet(inflight) /\ TickBusyExact

-----------------------------------------------------------------------------
\* SEQUENCES AND KEYS

LEMMA ElemsConcat ==
    ASSUME NEW S, NEW s \in Seq(S), NEW t \in Seq(S)
    PROVE  Elems(s \o t) = Elems(s) \cup Elems(t)
<1> DEFINE u == s \o t
<1>1. /\ DOMAIN s = 1 .. Len(s) /\ DOMAIN t = 1 .. Len(t) /\ DOMAIN u = 1 .. Len(u)
      /\ Len(s) \in Nat /\ Len(t) \in Nat /\ Len(u) = Len(s) + Len(t)
      /\ \A i \in 1 .. Len(s) + Len(t) : u[i] = IF i <= Len(s) THEN s[i] ELSE t[i - Len(s)]
  BY ConcatProperties, LenProperties
<1> HIDE DEF u
<1>2. \A i \in DOMAIN u : u[i] \in Elems(s) \cup Elems(t)
  BY <1>1 DEF Elems
<1>3. \A i \in DOMAIN s : i \in DOMAIN u /\ u[i] = s[i]
  BY <1>1
<1>4. \A i \in DOMAIN t : i + Len(s) \in DOMAIN u /\ u[i + Len(s)] = t[i]
  BY <1>1
<1>5. Elems(s) \subseteq Elems(u) /\ Elems(t) \subseteq Elems(u)
  BY <1>3, <1>4 DEF Elems
<1>6. Elems(u) \subseteq Elems(s) \cup Elems(t)
  BY <1>2 DEF Elems
<1> QED
  BY <1>5, <1>6 DEF u

LEMMA ElemsType ==
    ASSUME NEW S, NEW s \in Seq(S)
    PROVE  Elems(s) \subseteq S
BY LenProperties, ElementOfSeq DEF Elems

LEMMA Single ==
    ASSUME NEW S, NEW x \in S
    PROVE  /\ <<x>> \in Seq(S) /\ Elems(<<x>>) = {x}
           /\ \A R : Pairwise(<<x>>, R)
BY DEF Elems, Pairwise

LEMMA Empty ==
    /\ \A S : <<>> \in Seq(S)
    /\ Elems(<<>>) = {}
    /\ \A R : Pairwise(<<>>, R)
BY DEF Elems, Pairwise

LEMMA PairwiseConcat ==
    ASSUME NEW S, NEW s \in Seq(S), NEW t \in Seq(S), NEW R
    PROVE  Pairwise(s \o t, R) <=>
              /\ Pairwise(s, R) /\ Pairwise(t, R)
              /\ \A a \in Elems(s), b \in Elems(t) : <<a, b>> \in R
<1> DEFINE u == s \o t
<1>1. /\ DOMAIN s = 1 .. Len(s) /\ DOMAIN t = 1 .. Len(t) /\ DOMAIN u = 1 .. Len(u)
      /\ Len(s) \in Nat /\ Len(t) \in Nat /\ Len(u) = Len(s) + Len(t)
      /\ \A i \in 1 .. Len(s) + Len(t) : u[i] = IF i <= Len(s) THEN s[i] ELSE t[i - Len(s)]
  BY ConcatProperties, LenProperties
<1> HIDE DEF u
<1>3. \A i \in DOMAIN s : i \in DOMAIN u /\ u[i] = s[i]
  BY <1>1
<1>4. \A i \in DOMAIN t : i + Len(s) \in DOMAIN u /\ u[i + Len(s)] = t[i]
  BY <1>1
<1>5. ASSUME Pairwise(u, R) PROVE Pairwise(s, R)
  BY <1>1, <1>3, <1>5 DEF Pairwise
<1>6. ASSUME Pairwise(u, R) PROVE Pairwise(t, R)
  <2> SUFFICES ASSUME NEW i \in DOMAIN t, NEW j \in DOMAIN t, i < j
               PROVE  <<t[i], t[j]>> \in R
    BY DEF Pairwise
  <2>1. i + Len(s) < j + Len(s)
    BY <1>1
  <2> QED
    BY <2>1, <1>4, <1>6 DEF Pairwise
<1>7. ASSUME Pairwise(u, R), NEW a \in Elems(s), NEW b \in Elems(t)
      PROVE  <<a, b>> \in R
  <2>1. PICK i \in DOMAIN s, j \in DOMAIN t : a = s[i] /\ b = t[j]
    BY DEF Elems
  <2>2. i < j + Len(s)
    BY <1>1
  <2> QED
    BY <2>1, <2>2, <1>3, <1>4, <1>7 DEF Pairwise
<1>8. ASSUME Pairwise(s, R), Pairwise(t, R),
             \A a \in Elems(s), b \in Elems(t) : <<a, b>> \in R
      PROVE  Pairwise(u, R)
  <2> SUFFICES ASSUME NEW i \in DOMAIN u, NEW j \in DOMAIN u, i < j
               PROVE  <<u[i], u[j]>> \in R
    BY DEF Pairwise
  <2>1. CASE j <= Len(s)
    BY <2>1, <1>1, <1>8 DEF Pairwise
  <2>2. CASE i > Len(s)
    <3>1. i - Len(s) \in DOMAIN t /\ j - Len(s) \in DOMAIN t /\ i - Len(s) < j - Len(s)
      BY <2>2, <1>1
    <3>2. u[i] = t[i - Len(s)] /\ u[j] = t[j - Len(s)]
      BY <2>2, <1>1
    <3> QED
      BY <3>1, <3>2, <1>8 DEF Pairwise
  <2>3. CASE i <= Len(s) /\ j > Len(s)
    <3>1. i \in DOMAIN s /\ j - Len(s) \in DOMAIN t
      BY <2>3, <1>1
    <3>2. u[i] = s[i] /\ u[j] = t[j - Len(s)]
      BY <2>3, <1>1
    <3> QED
      BY <3>1, <3>2, <1>8 DEF Elems
  <2> QED
    BY <2>1, <2>2, <2>3, <1>1
<1> QED
  BY <1>5, <1>6, <1>7, <1>8 DEF u

LEMMA HeadFirst ==
    ASSUME NEW S, NEW s \in Seq(S), s # <<>>
    PROVE  /\ Head(s) \in S /\ Tail(s) \in Seq(S) /\ Head(s) = s[1]
           /\ s = <<Head(s)>> \o Tail(s)
<1>1. 1 \in 1 .. Len(s) /\ Len(s) \in 1 .. Len(s)
  BY EmptySeq
<1>2. SubSeq(s, 1, Len(s)) = <<s[1]>> \o SubSeq(s, 2, Len(s))
  BY <1>1, SubSeqRecursiveFirst
<1> QED
  BY <1>1, <1>2, SubSeqFull, TailIsSubSeq, HeadTailProperties

LEMMA Cut ==
    ASSUME NEW S, NEW s \in Seq(S), NEW i \in 0 .. Len(s)
    PROVE  /\ SubSeq(s, 1, i) \in Seq(S) /\ SubSeq(s, i + 1, Len(s)) \in Seq(S)
           /\ s = SubSeq(s, 1, i) \o SubSeq(s, i + 1, Len(s))
<1>1. Len(s) \in Nat /\ \A k \in 1 .. Len(s) : s[k] \in S
  BY LenProperties, ElementOfSeq
<1>2. SubSeq(s, 1, i) \in Seq(S)
  BY <1>1, SubSeqProperties
<1>3. SubSeq(s, i + 1, Len(s)) \in Seq(S)
  BY <1>1, SubSeqProperties
<1>4. SubSeq(s, 1, i) \o SubSeq(s, i + 1, Len(s)) = SubSeq(s, 1, Len(s))
  <2>1. /\ 1 \in 1 .. Len(s) + 1 /\ i \in 1 - 1 .. Len(s) /\ Len(s) \in i .. Len(s)
    BY <1>1
  <2> QED
    BY <2>1, ConcatAdjacentSubSeq
<1> QED
  BY <1>2, <1>3, <1>4, SubSeqFull

LEMMA OneKey ==
    ASSUME NEW n \in Nat
    PROVE  <<n>> \in Keys /\ <<n>> # NoKey /\ <<n>>[1] = n /\ Len(<<n>>) = 1
BY DEF Keys, NoKey

LEMMA KeyFacts ==
    ASSUME NEW k \in Keys
    PROVE  /\ Len(k) \in Nat /\ DOMAIN k = 1 .. Len(k) /\ \A i \in DOMAIN k : k[i] \in Nat
           /\ k # NoKey => Len(k) > 0 /\ 1 \in DOMAIN k
BY EmptySeq DEF Keys, NoKey

LEMMA ChildKey ==
    ASSUME NEW k \in Keys, NEW i \in Nat
    PROVE  /\ Child(k, i) \in Keys
           /\ Len(Child(k, i)) = Len(k) + 1
           /\ DOMAIN k = 1 .. Len(k) /\ DOMAIN Child(k, i) = 1 .. Len(k) + 1
           /\ Len(k) \in Nat
           /\ \A n \in 1 .. Len(k) : Child(k, i)[n] = k[n] /\ k[n] \in Nat
           /\ Child(k, i)[Len(k) + 1] = i
           /\ Parent(Child(k, i)) = k
<1> DEFINE one == <<i>>
           c == Child(k, i)
<1>1. one \in Seq(Nat) /\ Len(one) = 1 /\ one[1] = i
  OBVIOUS
<1> HIDE DEF one
<1>2. /\ c \in Keys /\ Len(c) = Len(k) + 1
      /\ \A n \in 1 .. Len(k) + 1 : c[n] = IF n <= Len(k) THEN k[n] ELSE one[n - Len(k)]
  BY <1>1, ConcatProperties DEF Keys, Child, one
<1> HIDE DEF c
<1>3. /\ DOMAIN k = 1 .. Len(k) /\ DOMAIN c = 1 .. Len(k) + 1 /\ Len(k) \in Nat
      /\ \A n \in 1 .. Len(k) : k[n] \in Nat
  BY <1>2, LenProperties DEF Keys
<1>4. \A n \in 1 .. Len(k) : c[n] = k[n]
  BY <1>2, <1>3
<1>5. c[Len(k) + 1] = i
  BY <1>1, <1>2, <1>3
<1>6. Parent(c) = k
  <2> DEFINE p == SubSeq(c, 1, Len(k))
  <2>1. \A n \in 1 .. Len(k) : c[n] \in Nat
    BY <1>3, <1>4
  <2>2. /\ p \in Seq(Nat) /\ Len(p) = Len(k)
        /\ \A n \in 1 .. Len(k) : p[n] = c[n]
    <3>1. /\ p \in Seq(Nat) /\ Len(p) = IF 1 <= Len(k) THEN Len(k) - 1 + 1 ELSE 0
          /\ \A n \in 1 .. Len(k) - 1 + 1 : p[n] = c[1 + n - 1]
      BY <2>1, <1>3, SubSeqProperties
    <3> QED
      BY <3>1, <1>3
  <2>3. p = k
    <3> HIDE DEF p
    <3>1. \A n \in 1 .. Len(p) : p[n] = k[n]
      BY <2>2, <1>4
    <3> QED
      BY <3>1, <2>2, SeqEqual DEF Keys
  <2>4. Len(c) - 1 = Len(k)
    BY <1>2, <1>3
  <2> QED
    BY <2>3, <2>4 DEF Parent
<1> QED
  BY <1>2, <1>3, <1>4, <1>5, <1>6 DEF c

LEMMA ChildNotNoKey ==
    ASSUME NEW k \in Keys, NEW i \in Nat
    PROVE  Child(k, i) # NoKey
BY ChildKey DEF NoKey

LEMMA ChildFirst ==
    ASSUME NEW k \in Keys, k # NoKey, NEW i \in Nat
    PROVE  Child(k, i)[1] = k[1] /\ Parent(Child(k, i)) = k /\ Len(Child(k, i)) > 1
<1>1. Len(k) \in Nat /\ Len(k) > 0 /\ 1 \in 1 .. Len(k)
  BY KeyFacts
<1>2. /\ \A n \in 1 .. Len(k) : Child(k, i)[n] = k[n]
      /\ Parent(Child(k, i)) = k /\ Len(Child(k, i)) = Len(k) + 1
  BY ChildKey
<1> QED
  BY <1>1, <1>2

LEMMA ChildInjective ==
    ASSUME NEW k \in Keys, NEW l \in Keys, NEW m \in Nat, NEW n \in Nat,
           Child(k, m) = Child(l, n)
    PROVE  k = l /\ m = n
<1>1. /\ DOMAIN k = 1 .. Len(k) /\ DOMAIN Child(k, m) = 1 .. Len(k) + 1
      /\ Len(k) \in Nat /\ Len(Child(k, m)) = Len(k) + 1
      /\ \A q \in 1 .. Len(k) : Child(k, m)[q] = k[q]
      /\ Child(k, m)[Len(k) + 1] = m /\ Parent(Child(k, m)) = k
  BY ChildKey
<1>2. /\ DOMAIN l = 1 .. Len(l) /\ DOMAIN Child(l, n) = 1 .. Len(l) + 1
      /\ Len(l) \in Nat /\ Len(Child(l, n)) = Len(l) + 1
      /\ \A q \in 1 .. Len(l) : Child(l, n)[q] = l[q]
      /\ Child(l, n)[Len(l) + 1] = n /\ Parent(Child(l, n)) = l
  BY ChildKey
<1> QED
  BY <1>1, <1>2

LEMMA LessChild ==
    ASSUME NEW k \in Keys, NEW l \in Keys, NEW i \in Nat
    PROVE  /\ Less(k, l) => Less(Child(k, i), l) /\ Less(k, Child(l, i))
           /\ Prefix(k, l) => Prefix(k, Child(l, i))
           /\ Prefix(k, Child(k, i))
<1>a. /\ DOMAIN k = 1 .. Len(k) /\ DOMAIN Child(k, i) = 1 .. Len(k) + 1
      /\ Len(k) \in Nat /\ Len(Child(k, i)) = Len(k) + 1
      /\ \A n \in 1 .. Len(k) : Child(k, i)[n] = k[n]
      /\ Child(k, i)[Len(k) + 1] = i /\ Parent(Child(k, i)) = k
  BY ChildKey
<1>b. /\ DOMAIN l = 1 .. Len(l) /\ DOMAIN Child(l, i) = 1 .. Len(l) + 1
      /\ Len(l) \in Nat /\ Len(Child(l, i)) = Len(l) + 1
      /\ \A n \in 1 .. Len(l) : Child(l, i)[n] = l[n]
      /\ Child(l, i)[Len(l) + 1] = i /\ Parent(Child(l, i)) = l
  BY ChildKey
<1>1. ASSUME Less(k, l) PROVE Less(Child(k, i), l) /\ Less(k, Child(l, i))
  <2>1. PICK n \in DOMAIN k \cap DOMAIN l : k[n] < l[n] /\ \A m \in 1 .. n - 1 : k[m] = l[m]
    BY <1>1 DEF Less
  <2>2. n \in Nat /\ \A m \in 1 .. n - 1 : m \in 1 .. Len(k) /\ m \in 1 .. Len(l)
    BY KeyFacts
  <2>3. Less(Child(k, i), l)
    <3> DEFINE c == Child(k, i)
    <3>1. /\ n \in DOMAIN c \cap DOMAIN l /\ c[n] = k[n]
          /\ \A m \in 1 .. n - 1 : c[m] = k[m]
      BY <2>2, <1>a, <1>b
    <3> QED
      BY <3>1, <2>1, <2>2 DEF Less
  <2>4. Less(k, Child(l, i))
    <3> DEFINE c == Child(l, i)
    <3>1. /\ n \in DOMAIN c \cap DOMAIN k /\ c[n] = l[n]
          /\ \A m \in 1 .. n - 1 : c[m] = l[m]
      BY <2>2, <1>a, <1>b
    <3> QED
      BY <3>1, <2>1, <2>2 DEF Less
  <2> QED
    BY <2>3, <2>4
<1>2. Prefix(k, l) => Prefix(k, Child(l, i))
  BY <1>a, <1>b DEF Prefix
<1>3. Prefix(k, Child(k, i))
  BY <1>a, <1>b DEF Prefix
<1> QED
  BY <1>1, <1>2, <1>3

LEMMA LessSiblings ==
    ASSUME NEW k \in Keys, NEW i \in Nat, NEW j \in Nat, i < j
    PROVE  Less(Child(k, i), Child(k, j))
<1>1. /\ DOMAIN k = 1 .. Len(k) /\ DOMAIN Child(k, i) = 1 .. Len(k) + 1
      /\ Len(k) \in Nat /\ Len(Child(k, i)) = Len(k) + 1
      /\ \A n \in 1 .. Len(k) : Child(k, i)[n] = k[n]
      /\ Child(k, i)[Len(k) + 1] = i /\ Parent(Child(k, i)) = k
  BY ChildKey
<1>2. /\ DOMAIN k = 1 .. Len(k) /\ DOMAIN Child(k, j) = 1 .. Len(k) + 1
      /\ Len(k) \in Nat /\ Len(Child(k, j)) = Len(k) + 1
      /\ \A n \in 1 .. Len(k) : Child(k, j)[n] = k[n]
      /\ Child(k, j)[Len(k) + 1] = j /\ Parent(Child(k, j)) = k
  BY ChildKey
<1>3. Len(k) + 1 \in DOMAIN Child(k, i) \cap DOMAIN Child(k, j)
  BY <1>1, <1>2
<1>4. \A n \in 1 .. (Len(k) + 1) - 1 : Child(k, i)[n] = Child(k, j)[n]
  BY <1>1, <1>2
<1> QED
  BY <1>1, <1>2, <1>3, <1>4 DEF Less

LEMMA LessNew ==
    ASSUME NEW k \in Keys, k # NoKey, NEW n \in Nat, k[1] < n
    PROVE  Less(k, <<n>>)
BY KeyFacts, OneKey DEF Less

LEMMA LessDiffers ==
    ASSUME NEW k \in Keys, NEW l \in Keys, Less(k, l)
    PROVE  k # l
BY KeyFacts DEF Less

\* What is Less or a prefix is not overtaken.
LEMMA SeenNotBefore ==
    ASSUME NEW k \in Keys, NEW l \in Keys, Less(k, l) \/ Prefix(k, l)
    PROVE  ~Before(l, k)
<1> SUFFICES ASSUME NEW i \in DOMAIN k,
                    \A n \in 1 .. i - 1 : n <= Len(l) /\ l[n] = k[n],
                    i > Len(l) \/ l[i] < k[i]
             PROVE  FALSE
  BY DEF Before
<1>1. CASE Prefix(k, l)
  BY <1>1, KeyFacts DEF Prefix
<1>2. CASE Less(k, l)
  <2>1. PICK m \in DOMAIN k \cap DOMAIN l : k[m] < l[m] /\ \A n \in 1 .. m - 1 : k[n] = l[n]
    BY <1>2 DEF Less
  <2>2. i \in 1 .. Len(k) /\ m \in 1 .. Len(l) /\ m \in 1 .. Len(k) /\ Len(l) \in Nat /\ Len(k) \in Nat
        /\ k[m] \in Nat /\ l[m] \in Nat
    BY KeyFacts
  <2>3. CASE i < m
    BY <2>1, <2>2, <2>3, KeyFacts
  <2>4. CASE i >= m
    BY <2>1, <2>2, <2>4, KeyFacts
  <2> QED
    BY <2>2, <2>3, <2>4
<1> QED
  BY <1>1, <1>2

-----------------------------------------------------------------------------
\* THE APP, AND TYPES

LEMMA AppType == ASSUME TypeOK PROVE app \in Report
BY SchedAssumption DEF TypeOK

LEMMA HandledType == ASSUME TypeOK PROVE Handled \subseteq Ctors
<1>1. \A a \in app.arms : a.ctor \in Ctors \cup {"_"}
  BY AppType DEF Report, Arm
<1> QED
  BY <1>1 DEF Handled, HeadsReadable, Heads

LEMMA ReadsType ==
    ASSUME TypeOK, NEW c
    PROVE  Reads(c) \subseteq Fields /\ Writes(c) \subseteq Fields
<1>1. \A a \in app.arms : a.reads \subseteq Fields /\ a.writes \subseteq Fields
  BY AppType DEF Report, Arm
<1>2. HeadSets(app, c).reads \subseteq Fields /\ HeadSets(app, c).writes \subseteq Fields
  BY <1>1 DEF HeadSets
<1> QED
  BY <1>2 DEF Reads, Writes

LEMMA PlanType ==
    ASSUME NEW p \in Plans
    PROVE  /\ p \in Seq(Ctors)
           /\ Len(p) \in 0 .. MaxPlan /\ Len(p) \in Nat /\ DOMAIN p = 1 .. Len(p)
           /\ \A i \in DOMAIN p : p[i] \in Ctors
BY SchedAssumption DEF Plans

LEMMA EffectType ==
    ASSUME TypeOK, NEW m \in Msg
    PROVE  /\ Effect(m) \in Run /\ Effect(m).key = m.key
           /\ Effect(m).around = FALSE /\ Effect(m).follows = Len(m.plan)
<1>1. m.key \in Keys /\ Len(m.plan) \in 0 .. MaxPlan
  BY PlanType DEF Msg
<1>2. Effect(m).key = m.key
  BY DEF Effect
<1>3. Effect(m).reads \subseteq Fields /\ Effect(m).writes \subseteq Fields
  BY ReadsType DEF Effect
<1>4. Effect(m).quiet \in BOOLEAN /\ Effect(m).holds \in BOOLEAN
  BY DEF Effect
<1>5. Effect(m) = [key |-> Effect(m).key, reads |-> Effect(m).reads, writes |-> Effect(m).writes,
                   quiet |-> Effect(m).quiet, holds |-> Effect(m).holds,
                   around |-> FALSE, follows |-> Len(m.plan)]
  BY DEF Effect
<1>6. Effect(m).around = FALSE /\ Effect(m).follows = Len(m.plan)
  BY DEF Effect
<1> HIDE DEF Effect
<1> QED
  BY <1>1, <1>2, <1>3, <1>4, <1>5, <1>6 DEF Run

LEMMA EmptyPlan == <<>> \in Plans /\ DOMAIN <<>> = {}
BY SchedAssumption DEF Plans

LEMMA FollowUpsType ==
    ASSUME NEW m \in Msg
    PROVE  /\ FollowUpMsgs(m) \in Seq(Msg)
           /\ DOMAIN FollowUpMsgs(m) = DOMAIN m.plan
           /\ DOMAIN m.plan \subseteq Nat \ {0}
           /\ \A i \in DOMAIN m.plan : FollowUpMsgs(m)[i] = FollowUp(m, i)
           /\ Elems(FollowUpMsgs(m)) = {FollowUp(m, i) : i \in DOMAIN m.plan}
<1> DEFINE n == Len(m.plan)
           F == FollowUpMsgs(m)
<1>1. m.plan \in Plans /\ m.key \in Keys
  BY DEF Msg
<1>2. n \in Nat /\ DOMAIN m.plan = 1 .. n /\ \A i \in 1 .. n : m.plan[i] \in Ctors
  BY <1>1, PlanType
<1>3. DOMAIN F = 1 .. n /\ \A i \in 1 .. n : F[i] = FollowUp(m, i)
  BY <1>2 DEF FollowUpMsgs
<1>4. \A i \in 1 .. n : FollowUp(m, i) \in Msg
  <2> SUFFICES ASSUME NEW i \in 1 .. n PROVE FollowUp(m, i) \in Msg
    OBVIOUS
  <2>1. Child(m.key, i) \in Keys
    BY <1>1, <1>2, ChildKey
  <2> QED
    BY <2>1, <1>2, EmptyPlan DEF FollowUp, Child, Msg
<1>5. F = [i \in 1 .. n |-> FollowUp(m, i)]
  BY <1>2 DEF FollowUpMsgs
<1>6. F \in [1 .. n -> Msg]
  BY <1>4, <1>5
<1>7. F \in Seq(Msg)
  <2> HIDE DEF F, n
  <2> QED
    BY <1>2, <1>6
<1>8. Elems(F) = {FollowUp(m, i) : i \in 1 .. n}
  <2> HIDE DEF F, n
  <2> QED
    BY <1>3 DEF Elems
<1> QED
  BY <1>2, <1>3, <1>7, <1>8

LEMMA AppKept ==
    ASSUME app' = app
    PROVE  /\ \A c : Server(c)' <=> Server(c)
           /\ \A x : Inert(x)' <=> Inert(x)
           /\ FitSet' = FitSet
           /\ \A x : Sound(x)' <=> Sound(x)
           /\ \A x : Effect(x)' = Effect(x)
           /\ \A r, x : InOrder(r, x)' <=> InOrder(r, x)
           /\ \A r, s : Shows(r, s)' <=> Shows(r, s)
           /\ LogFitSet' = LogFitSet
<1>1. \A c : Server(c)' <=> Server(c)
  BY DEF Server
<1>2. \A x : Inert(x)' <=> Inert(x)
  BY <1>1 DEF Inert
<1>3. \A a, b : Fits(a, b)' <=> Fits(a, b)
  BY <1>2 DEF Fits
<1>4. FitSet' = FitSet
  BY <1>3 DEF FitSet
<1>5. \A x : Sound(x)' <=> Sound(x)
  BY <1>1 DEF Sound
<1>6. \A x : Effect(x)' = Effect(x)
  BY <1>1 DEF Effect, Reads, Writes, Quiet, Readable
<1>s. \A r, s : Shows(r, s)' <=> Shows(r, s)
  BY DEF Shows, Seen
<1>7. \A r, x : Calm(r, x)' <=> Calm(r, x)
  BY <1>2, <1>6, <1>s DEF Calm
<1>8. \A r, x : InOrder(r, x)' <=> InOrder(r, x)
  BY <1>7 DEF InOrder
<1>9. LogFitSet' = LogFitSet
  BY <1>s DEF LogFitSet, LogFits
<1> QED
  BY <1>1, <1>2, <1>4, <1>5, <1>6, <1>8, <1>9, <1>s

-----------------------------------------------------------------------------
\* THE QUEUE

LEMMA AddMsg ==
    ASSUME TypeOK, QueueInv, app' = app,
           NEW m \in Msg, NEW s \in Seq(Msg), NEW t \in Seq(Msg),
           queue = s \o t, queue' = (s \o <<m>>) \o t,
           Sound(m), \A a \in Elems(s) : Fits(a, m), \A b \in Elems(t) : Fits(m, b)
    PROVE  /\ QueueInv' /\ queue' \in Seq(Msg)
           /\ Elems(queue') = Elems(queue) \cup {m}
<1> DEFINE one == <<m>>
<1>1. one \in Seq(Msg) /\ Elems(one) = {m} /\ Pairwise(one, FitSet)
  BY Single
<1> HIDE DEF one
<1>2. Elems(s) \subseteq Msg /\ Elems(t) \subseteq Msg
  BY ElemsType
<1>3. /\ Pairwise(s, FitSet) /\ Pairwise(t, FitSet)
      /\ \A a \in Elems(s), b \in Elems(t) : <<a, b>> \in FitSet
  BY PairwiseConcat DEF QueueInv
<1>4. /\ \A a \in Elems(s) : <<a, m>> \in FitSet
      /\ \A b \in Elems(t) : <<m, b>> \in FitSet
  BY <1>2 DEF FitSet
<1> DEFINE u == s \o one
<1>5. u \in Seq(Msg) /\ Elems(u) = Elems(s) \cup {m} /\ Pairwise(u, FitSet)
  <2>1. u \in Seq(Msg)
    BY <1>1, ConcatProperties
  <2>2. Elems(u) = Elems(s) \cup Elems(one)
    BY <1>1, ElemsConcat
  <2>3. \A a \in Elems(s), b \in Elems(one) : <<a, b>> \in FitSet
    BY <1>1, <1>4
  <2>4. Pairwise(u, FitSet)
    BY <1>1, <1>3, <2>3, PairwiseConcat
  <2> QED
    BY <2>1, <2>2, <2>4, <1>1
<1> HIDE DEF u
<1>6. /\ u \o t \in Seq(Msg) /\ Elems(u \o t) = Elems(u) \cup Elems(t)
      /\ Pairwise(u \o t, FitSet)
  <2>1. u \o t \in Seq(Msg) /\ Elems(u \o t) = Elems(u) \cup Elems(t)
    BY <1>5, ConcatProperties, ElemsConcat
  <2>2. \A a \in Elems(u), b \in Elems(t) : <<a, b>> \in FitSet
    BY <1>3, <1>4, <1>5
  <2>3. Pairwise(u \o t, FitSet)
    BY <1>3, <1>5, <2>2, PairwiseConcat
  <2> QED
    BY <2>1, <2>3
<1>7. queue' = u \o t
  BY DEF u, one
<1>8. Elems(queue) = Elems(s) \cup Elems(t)
  BY ElemsConcat
<1>9. Elems(queue') = Elems(queue) \cup {m}
  BY <1>5, <1>6, <1>7, <1>8
<1>10. \A x \in Elems(queue') : Sound(x)
  BY <1>9 DEF QueueInv
<1>11. QueueInv'
  BY <1>6, <1>7, <1>10, AppKept DEF QueueInv
<1> QED
  BY <1>6, <1>7, <1>9, <1>11

\* The two ends of the queue.
LEMMA QueueEnds ==
    ASSUME TypeOK, NEW m \in Msg
    PROVE  /\ queue \in Seq(Msg) /\ <<>> \in Seq(Msg)
           /\ queue = queue \o <<>> /\ queue = <<>> \o queue
           /\ Append(queue, m) = (queue \o <<m>>) \o <<>>
           /\ <<m>> \o queue = (<<>> \o <<m>>) \o queue
           /\ Elems(<<>>) = {}
<1>1. queue \in Seq(Msg) /\ <<>> \in Seq(Msg) /\ <<m>> \in Seq(Msg)
  BY Single, Empty DEF TypeOK
<1>2. queue \o <<m>> \in Seq(Msg) /\ Append(queue, m) = queue \o <<m>>
  BY <1>1, ConcatProperties, AppendIsConcat
<1>3. (queue \o <<m>>) \o <<>> = queue \o <<m>> /\ <<>> \o <<m>> = <<m>>
  BY <1>1, <1>2, ConcatEmptySeq
<1> QED
  BY <1>1, <1>2, <1>3, ConcatEmptySeq, Empty

\* dispatchFirst: the follow-ups take the place of the Msg that ran.
LEMMA ReplaceHead ==
    ASSUME TypeOK, QueueInv, app' = app, queue # <<>>,
           queue' = FollowUpMsgs(Head(queue)) \o Tail(queue)
    PROVE  LET m == Head(queue) IN
           /\ QueueInv' /\ queue' \in Seq(Msg)
           /\ m \in Msg /\ Sound(m) /\ m = queue[1]
           /\ Elems(queue) = {m} \cup Elems(Tail(queue))
           /\ Elems(queue') = {FollowUp(m, i) : i \in DOMAIN m.plan} \cup Elems(Tail(queue))
           /\ \A b \in Elems(Tail(queue)) : b \in Msg /\ Fits(m, b)
<1> DEFINE m == Head(queue)
           t == Tail(queue)
           F == FollowUpMsgs(m)
<1> DEFINE one == <<m>>
<1>1. queue \in Seq(Msg) /\ m \in Msg /\ t \in Seq(Msg) /\ m = queue[1] /\ queue = one \o t
  BY HeadFirst DEF TypeOK
<1>2. one \in Seq(Msg) /\ Elems(one) = {m}
  BY <1>1, Single
<1>3. F \in Seq(Msg) /\ DOMAIN F = DOMAIN m.plan
      /\ DOMAIN m.plan \subseteq Nat \ {0}
      /\ (\A i \in DOMAIN m.plan : F[i] = FollowUp(m, i))
      /\ Elems(F) = {FollowUp(m, i) : i \in DOMAIN m.plan}
  BY <1>1, FollowUpsType
<1>4. queue' = F \o t
  OBVIOUS
<1> HIDE DEF m, t, F, one
<1>5. Elems(queue) = {m} \cup Elems(t) /\ Elems(t) \subseteq Msg /\ Elems(F) \subseteq Msg
  <2>1. Elems(one \o t) = Elems(one) \cup Elems(t)
    BY <1>1, <1>2, ElemsConcat
  <2> QED
    BY <2>1, <1>1, <1>2, <1>3, ElemsType
<1>6. /\ Pairwise(t, FitSet)
      /\ \A a \in Elems(one), b \in Elems(t) : <<a, b>> \in FitSet
  <2>1. Pairwise(one \o t, FitSet)
    BY <1>1 DEF QueueInv
  <2> QED
    BY <2>1, <1>1, <1>2, PairwiseConcat
<1>7. \A b \in Elems(t) : b \in Msg /\ Fits(m, b)
  BY <1>2, <1>5, <1>6 DEF FitSet
<1>8. Sound(m) /\ \A b \in Elems(t) : Sound(b)
  BY <1>5 DEF QueueInv
<1>9. m.key \in Keys
  BY <1>1 DEF Msg
<1>10. Pairwise(F, FitSet)
  <2> SUFFICES ASSUME NEW i \in DOMAIN F, NEW j \in DOMAIN F, i < j
               PROVE  <<F[i], F[j]>> \in FitSet
    BY DEF Pairwise
  <2>1. Less(Child(m.key, i), Child(m.key, j))
    BY <1>3, <1>9, LessSiblings
  <2>2. F[i] = FollowUp(m, i) /\ F[j] = FollowUp(m, j) /\ F[i] \in Msg /\ F[j] \in Msg
    BY <1>3, <1>5
  <2>3. Fits(FollowUp(m, i), FollowUp(m, j))
    BY <2>1 DEF Fits, FollowUp, Child, Input, HoldAnswer
  <2> QED
    BY <2>2, <2>3 DEF FitSet
<1>11. ASSUME NEW i \in DOMAIN m.plan, NEW b \in Elems(t)
       PROVE  Fits(FollowUp(m, i), b)
  <2>1. Fits(m, b) /\ b.key \in Keys
    BY <1>7 DEF Msg
  <2>2. m.kind = "result"
    BY <1>8, EmptyPlan DEF Sound
  <2>3. Ordered(b) => Less(Child(m.key, i), b.key)
    BY <2>1, <2>2, <1>3, <1>9, LessChild DEF Fits, Ordered
  <2>4. Input(b) => Inert(FollowUp(m, i))
    BY <2>1, EmptyPlan DEF Fits, Inert, FollowUp, Child
  <2>5. ~HoldAnswer(b)
    BY <2>1, <2>2 DEF Fits, Ordered
  <2> QED
    BY <2>3, <2>4, <2>5 DEF Fits, FollowUp, Child
<1>12. \A a \in Elems(F), b \in Elems(t) : <<a, b>> \in FitSet
  BY <1>3, <1>5, <1>11 DEF FitSet
<1>13. /\ F \o t \in Seq(Msg) /\ Elems(F \o t) = Elems(F) \cup Elems(t)
       /\ Pairwise(F \o t, FitSet)
  <2>1. F \o t \in Seq(Msg) /\ Elems(F \o t) = Elems(F) \cup Elems(t)
    BY <1>1, <1>3, ConcatProperties, ElemsConcat
  <2>2. Pairwise(F \o t, FitSet)
    BY <1>1, <1>3, <1>6, <1>10, <1>12, PairwiseConcat
  <2> QED
    BY <2>1, <2>2
<1>14. ASSUME NEW i \in DOMAIN m.plan PROVE Sound(FollowUp(m, i))
  <2>1. i \in Nat
    BY <1>3
  <2>2. Child(m.key, i) # NoKey
    BY <1>9, <2>1, ChildNotNoKey
  <2> QED
    BY <2>2 DEF Sound, FollowUp, Child, Ordered, Input
<1>15. \A x \in Elems(queue') : Sound(x)
  BY <1>3, <1>4, <1>8, <1>13, <1>14
<1>16. QueueInv'
  BY <1>4, <1>13, <1>15, AppKept DEF QueueInv
<1> QED
  BY <1>1, <1>3, <1>4, <1>5, <1>7, <1>8, <1>13, <1>16 DEF m, t

-----------------------------------------------------------------------------
\* THE STEPS

LEMMA KeyTypes ==
    ASSUME TypeOK
    PROVE  /\ Elems(log) \subseteq Run /\ Elems(queue) \subseteq Msg
           /\ Ran \subseteq Keys /\ Waiting \subseteq Keys
           /\ \A j \in inflight : j.key \in Keys /\ Child(j.key, 0) \in Keys
<1>1. Elems(log) \subseteq Run /\ Elems(queue) \subseteq Msg
  BY ElemsType DEF TypeOK
<1>2. Ran \subseteq Keys /\ Waiting \subseteq Keys
  BY <1>1 DEF Ran, Waiting, Run, Msg
<1>3. \A j \in inflight : j.key \in Keys
  BY DEF TypeOK, Job
<1>4. \A j \in inflight : Child(j.key, 0) \in Keys
  BY <1>3, ChildKey
<1> QED
  BY <1>1, <1>2, <1>3, <1>4

LEMMA NewKeyFacts ==
    ASSUME TypeOK, KeyInv
    PROVE  /\ NewKey \in Keys /\ NewKey # NoKey /\ NewKey[1] = arrivals + 1 /\ Len(NewKey) = 1
           /\ NewKey \notin Ran \cup Waiting
           /\ \A k \in Ran \cup Waiting : k # NoKey => Less(k, NewKey)
           /\ \A k \in Keys, i \in Nat : k # NoKey => Child(k, i) # NewKey
<1>1. arrivals \in Nat /\ arrivals + 1 \in Nat
  BY DEF TypeOK
<1>2. NewKey \in Keys /\ NewKey # NoKey /\ NewKey[1] = arrivals + 1 /\ Len(NewKey) = 1
  BY <1>1, OneKey DEF NewKey
<1>3. ASSUME NEW k \in Ran \cup Waiting, k # NoKey PROVE Less(k, NewKey)
  <2>1. k \in Keys /\ k[1] < arrivals + 1
    BY <1>1, <1>3, KeyTypes DEF KeyInv
  <2> QED
    BY <2>1, <1>1, <1>3, LessNew DEF NewKey
<1>4. NewKey \notin Ran \cup Waiting
  BY <1>2, <1>3, LessDiffers
<1>5. ASSUME NEW k \in Keys, NEW i \in Nat, k # NoKey PROVE Child(k, i) # NewKey
  <2>1. Len(Child(k, i)) = Len(k) + 1 /\ Len(k) \in Nat /\ Len(k) > 0
    BY <1>5, ChildKey, KeyFacts
  <2>2. Len(Child(k, i)) # 1
    BY <2>1
  <2> QED
    BY <2>2, <1>2
<1> QED
  BY <1>2, <1>3, <1>4, <1>5

\* The job that holdFreeNow asks about is the one of the hold in flight.
LEMMA HeldJobIs ==
    ASSUME JobInv, NEW j \in inflight, j.key = hold
    PROVE  HeldJob = j
<1> DEFINE h == CHOOSE k \in inflight : k.key = hold
<1>1. h \in inflight /\ h.key = hold
  OBVIOUS
<1>2. h = j
  BY <1>1 DEF JobInv
<1> QED
  BY <1>2 DEF HeldJob

\* A Msg arrives at the end of the queue.
LEMMA Arrival ==
    ASSUME TypeOK, QueueInv, KeyInv, JobInv, HoldInv, OrderInv,
           app' = app, log' = log, hold' = hold, inflight' \subseteq inflight,
           \A j \in inflight : j.key = hold => j \in inflight',
           arrivals' = arrivals + 1,
           NEW m \in Msg, m.key = NewKey, Ordered(m), Sound(m),
           m.urgent => m.kind = "event" /\ HoldFreeNow(m.ctor),
           queue' = Append(queue, m)
    PROVE  /\ queue' \in Seq(Msg)
           /\ QueueInv' /\ KeyInv' /\ JobInv' /\ HoldInv' /\ OrderInv'
<1>0. /\ NewKey \in Keys /\ NewKey # NoKey /\ NewKey[1] = arrivals + 1 /\ Len(NewKey) = 1
      /\ NewKey \notin Ran \cup Waiting
      /\ \A k \in Ran \cup Waiting : k # NoKey => Less(k, NewKey)
      /\ \A k \in Keys, i \in Nat : k # NoKey => Child(k, i) # NewKey
      /\ arrivals \in Nat
  BY NewKeyFacts DEF TypeOK
<1>1. \A a \in Elems(queue) : Fits(a, m)
  <2> SUFFICES ASSUME NEW a \in Elems(queue) PROVE Fits(a, m)
    OBVIOUS
  <2>1. Sound(a) /\ a.key \in Waiting
    BY DEF QueueInv, Waiting
  <2>2. Ordered(a) => Less(a.key, m.key)
    BY <2>1, <1>0 DEF Sound
  <2>3. ASSUME Input(m) PROVE Inert(a)
    <3>1. HoldFreeNow(m.ctor)
      BY <2>3 DEF Input
    <3>2. hold # NoKey /\ a.urgent
      BY <3>1 DEF HoldFreeNow, Elems
    <3>3. a.kind # "result" /\ a.kind # "followUp"
      BY <3>2, <2>1 DEF HoldInv, HoldAnswer, Sound
    <3> QED
      BY <3>2, <3>3, <2>1, EmptyPlan DEF Sound, Input, Inert
  <2>4. ~HoldAnswer(m)
    BY DEF HoldAnswer
  <2> QED
    BY <2>2, <2>3, <2>4 DEF Fits
<1>2. /\ queue \in Seq(Msg) /\ <<>> \in Seq(Msg) /\ queue = queue \o <<>>
      /\ queue' = (queue \o <<m>>) \o <<>> /\ Elems(<<>>) = {}
  BY QueueEnds
<1>3. QueueInv' /\ queue' \in Seq(Msg) /\ Elems(queue') = Elems(queue) \cup {m}
  BY <1>1, <1>2, AddMsg
<1>4. Ran' = Ran /\ Waiting' = Waiting \cup {NewKey} /\ Elems(log)' = Elems(log)
  BY <1>3 DEF Ran, Waiting, Elems
<1>5. KeyInv'
  <2>1. \A k \in Ran' \cup Waiting' : k # NoKey =>
           k[1] \in 1 .. arrivals' /\ (Len(k) > 1 => Parent(k) \in Ran')
    <3> SUFFICES ASSUME NEW k \in Ran' \cup Waiting', k # NoKey
                 PROVE  k[1] \in 1 .. arrivals' /\ (Len(k) > 1 => Parent(k) \in Ran')
      OBVIOUS
    <3>1. CASE k = NewKey
      BY <3>1, <1>0
    <3>2. CASE k \in Ran \cup Waiting
      <4>1. k[1] \in 1 .. arrivals /\ (Len(k) > 1 => Parent(k) \in Ran)
        BY <3>2 DEF KeyInv
      <4> QED
        BY <4>1, <1>0, <1>4
    <3> QED
      BY <3>1, <3>2, <1>4
  <2>2. \A n \in 1 .. arrivals' : <<n>> \in Ran' \cup Waiting'
    <3>1. \A n \in 1 .. arrivals' : n \in 1 .. arrivals \/ n = arrivals + 1
      BY <1>0
    <3> QED
      BY <3>1, <1>4 DEF KeyInv, NewKey
  <2>3. Ran' \cap Waiting' = {} /\ \A k \in Ran' : k # NoKey
    BY <1>0, <1>4 DEF KeyInv
  <2>4. FollowInv'
    BY <1>4 DEF KeyInv, FollowInv
  <2> QED
    BY <2>1, <2>2, <2>3, <2>4 DEF KeyInv
<1>6. JobInv'
  <2>1. ASSUME NEW j \in inflight PROVE Child(j.key, 0) \notin Ran' \cup Waiting'
    <3>1. j.key \in Keys /\ j.key # NoKey
      BY KeyTypes DEF JobInv, KeyInv
    <3> QED
      BY <3>1, <1>0, <1>4 DEF JobInv
  <2> QED
    BY <2>1, <1>4 DEF JobInv
<1>7. HoldInv'
  <2>1. hold # NoKey => \E j \in inflight' : j.key = hold
    BY DEF HoldInv
  <2>2. ASSUME hold # NoKey
        PROVE  /\ Ordered(m) => Less(hold, m.key)
               /\ ~HoldAnswer(m)
               /\ Input(m) => \A j \in inflight' :
                     j.key = hold => <<j.ctor, m.ctor>> \in HoldFreePairs(app)
    <3>1. Less(hold, m.key)
      BY <2>2, <1>0 DEF HoldInv, JobInv
    <3>2. ~HoldAnswer(m)
      BY DEF HoldAnswer
    <3>3. ASSUME Input(m), NEW j \in inflight, j.key = hold
          PROVE  <<j.ctor, m.ctor>> \in HoldFreePairs(app)
      BY <3>3, HeldJobIs DEF Input, HoldFreeNow, Listed
    <3> QED
      BY <3>1, <3>2, <3>3
  <2>3. hold # NoKey => \A x \in Elems(queue') :
          /\ Ordered(x) => Less(hold, x.key)
          /\ ~HoldAnswer(x)
          /\ Input(x) => \A j \in inflight' :
                j.key = hold => <<j.ctor, x.ctor>> \in HoldFreePairs(app)
    BY <2>2, <1>3 DEF HoldInv
  <2>4. \A r \in Elems(log) : r.holds =>
          \/ hold = r.key
          \/ /\ \A j \in inflight' : j.key # r.key
             /\ Child(r.key, 0) \in Ran' \cup Waiting'
    BY <1>4 DEF HoldInv
  <2> QED
    BY <2>1, <2>3, <2>4, <1>4 DEF HoldInv
<1>8. OrderInv'
  <2>1. ASSUME NEW r \in Elems(log) PROVE InOrder(r, m)
    BY <1>0 DEF InOrder, Ran, KeyInv
  <2>2. \A r \in Elems(log) :
          /\ \A x \in Elems(queue') : Ordered(x) => InOrder(r, x)
          /\ \A j \in inflight' : j.key = hold => InOrder(r, Answer(j))
    BY <2>1, <1>3 DEF OrderInv
  <2>3. LogFitSet' = LogFitSet /\ \A r, x : InOrder(r, x)' <=> InOrder(r, x)
    BY AppKept
  <2> QED
    BY <2>2, <2>3, <1>4 DEF OrderInv
<1> QED
  BY <1>3, <1>5, <1>6, <1>7, <1>8

\* A connection change or a report joins the queue: neither is ordered.
LEMMA Notification ==
    ASSUME TypeOK, QueueInv, KeyInv, JobInv, HoldInv, OrderInv,
           UNCHANGED <<app, log, hold, inflight, arrivals>>,
           NEW m \in Msg, m.key = NoKey, m.kind \in {"report", "connection"}, m.plan = <<>>,
           NEW s \in Seq(Msg), NEW t \in Seq(Msg),
           queue = s \o t, queue' = (s \o <<m>>) \o t
    PROVE  /\ queue' \in Seq(Msg)
           /\ QueueInv' /\ KeyInv' /\ JobInv' /\ HoldInv' /\ OrderInv'
<1>1. ~Ordered(m) /\ ~Input(m) /\ ~HoldAnswer(m) /\ Inert(m) /\ Sound(m)
  BY EmptyPlan DEF Ordered, Input, HoldAnswer, Inert, Sound
<1>2. \A x : Fits(x, m) /\ Fits(m, x)
  BY <1>1 DEF Fits
<1>3. QueueInv' /\ queue' \in Seq(Msg) /\ Elems(queue') = Elems(queue) \cup {m}
  BY <1>1, <1>2, AddMsg
<1>4. Ran' = Ran /\ Waiting' = Waiting \cup {NoKey} /\ Elems(log)' = Elems(log)
  BY <1>3 DEF Ran, Waiting, Elems
<1>5. KeyInv'
  <2>1. FollowInv'
    BY <1>4 DEF KeyInv, FollowInv
  <2> QED
    BY <2>1, <1>4 DEF KeyInv
<1>6. JobInv'
  <2>1. \A j \in inflight : Child(j.key, 0) # NoKey
    BY KeyTypes, ChildNotNoKey
  <2> QED
    BY <2>1, <1>4 DEF JobInv
<1>7. HoldInv'
  BY <1>1, <1>3, <1>4 DEF HoldInv
<1>8. OrderInv'
  BY <1>1, <1>3, <1>4, AppKept DEF OrderInv
<1> QED
  BY <1>3, <1>5, <1>6, <1>7, <1>8

LEMMA AnswerType ==
    ASSUME TypeOK, NEW j \in inflight
    PROVE  /\ Answer(j) \in Msg
           /\ Answer(j).key = Child(j.key, 0) /\ Answer(j).kind = "result"
           /\ Answer(j).urgent = TRUE
           /\ Answer(j).ctor = j.ctor /\ Answer(j).plan = j.plan
<1>1. j.key \in Keys /\ j.ctor \in Ctors /\ j.plan \in Plans /\ Child(j.key, 0) \in Keys
  BY KeyTypes DEF TypeOK, Job
<1> QED
  BY <1>1 DEF Answer, ResultOf, Msg

\* What the table promises: the input commutes with all that the hold's answer
\* will do, and none of it sends a request.
LEMMA HoldFreeSound ==
    ASSUME TypeOK, JobInv, NEW j \in inflight, NEW c \in Ctors,
           <<j.ctor, c>> \in HoldFreePairs(app)
    PROVE  /\ ~Server(c)
           /\ Inert(Answer(j))
           /\ \A m \in Msg : m.kind = "event" /\ m.ctor = c => Calm(Effect(m), Answer(j))
<1> DEFINE h == j.ctor
           a == Answer(j)
<1>1. /\ ~app.guard /\ ~app.rpcError /\ HeadsReadable(app)
      /\ ReadableHold(app, h) /\ Commutes(app, h, c)
  BY DEF HoldFreePairs
<1>2. ~app.wholeUpdate
  BY <1>1 DEF HeadsReadable
<1>3. ~Server(c) /\ Readable(c) /\ Quiet(c)
  BY <1>1, <1>2 DEF Commutes, Server, Readable, Quiet
<1>4. a.kind = "result" /\ a.ctor = h /\ a.plan = j.plan /\ a \in Msg
  BY AnswerType
<1>5. \A i \in DOMAIN j.plan : j.plan[i] \in FollowUps(app, h)
  BY <1>1 DEF JobInv, ReadableHold, FollowUps
<1>6. \A f \in FollowUps(app, h) : ~Server(f) /\ Readable(f)
  BY <1>1, <1>2 DEF ReadableHold, Server, Readable
<1>7. Inert(a)
  BY <1>4, <1>5, <1>6 DEF Inert
<1>8. Reads(c) = HeadSets(app, c).reads /\ Writes(c) = HeadSets(app, c).writes
  BY <1>1, <1>3 DEF Reads, Writes
<1>9. Readable(h)
  BY <1>1 DEF ReadableHold, Readable
<1>10. Writes(h) \subseteq WritesAfter(app, h)
  BY <1>9 DEF Writes, WritesAfter
<1>11. \A f \in FollowUps(app, h) :
          Writes(f) \subseteq WritesAfter(app, h) /\ Reads(f) \subseteq ReadsAfter(app, h)
  BY <1>1, <1>6 DEF Writes, Reads, WritesAfter, ReadsAfter
<1>12. /\ Writes(c) \cap (WritesAfter(app, h) \cup ReadsAfter(app, h)) = {}
       /\ Reads(c) \cap WritesAfter(app, h) = {}
  BY <1>1, <1>8 DEF Commutes, Meet
<1>s. ~(Meet(Seen, WritesAfter(app, h)) /\ Meet(Seen, Writes(c)))
  BY <1>1, <1>8 DEF Commutes, SubsClash, Seen, HoldFreePairs
<1>13. ASSUME NEW m \in Msg, m.kind = "event", m.ctor = c
       PROVE  Calm(Effect(m), a)
  <2>1. /\ Effect(m).reads = Reads(c) /\ Effect(m).writes = Writes(c) /\ Effect(m).quiet
    BY <1>13, <1>3 DEF Effect
  <2>2. Effect(a).reads = {} /\ Effect(a).writes = Writes(h)
    BY <1>4, <1>1 DEF Effect
  <2>3. ~Shows(Effect(m), Effect(a))
    BY <2>1, <2>2, <1>10, <1>12, <1>s DEF Shows, Clash, Meet
  <2>4. ASSUME NEW i \in DOMAIN a.plan
        PROVE  ~Shows(Effect(m), Effect(FollowUpMsgs(a)[i]))
    <3> DEFINE f == FollowUpMsgs(a)[i]
    <3>1. f = FollowUp(a, i)
      BY <1>4, FollowUpsType
    <3>2. f.kind = "followUp" /\ f.ctor = j.plan[i]
      BY <3>1, <1>4 DEF FollowUp, Child
    <3>3. f.ctor \in FollowUps(app, h)
      BY <3>2, <1>4, <1>5
    <3>4. Effect(f).reads = Reads(f.ctor) /\ Effect(f).writes = Writes(f.ctor)
      BY <3>2, <3>3, <1>6 DEF Effect
    <3> HIDE DEF f
    <3>5. ~Shows(Effect(m), Effect(f))
      BY <3>3, <3>4, <2>1, <1>11, <1>12, <1>s DEF Shows, Clash, Meet
    <3> QED
      BY <3>5 DEF f
  <2> QED
    BY <2>1, <2>3, <2>4, <1>7 DEF Calm
<1> QED
  BY <1>3, <1>7, <1>13

\* settle of the hold: its answer becomes the first Msg.
LEMMA HoldAnswered ==
    ASSUME TypeOK, QueueInv, KeyInv, JobInv, HoldInv, OrderInv,
           UNCHANGED <<app, log, arrivals>>,
           NEW j \in inflight, hold = j.key, inflight' = inflight \ {j}, hold' = NoKey,
           queue' = <<Answer(j)>> \o queue
    PROVE  /\ queue' \in Seq(Msg)
           /\ QueueInv' /\ KeyInv' /\ JobInv' /\ HoldInv' /\ OrderInv'
<1> DEFINE m == Answer(j)
<1>0. /\ m \in Msg /\ m.key = Child(hold, 0) /\ m.kind = "result" /\ m.urgent = TRUE
      /\ m.ctor = j.ctor /\ m.plan = j.plan
  BY AnswerType
<1>1. /\ hold \in Keys /\ hold \in Ran /\ hold # NoKey
      /\ Child(hold, 0) \in Keys /\ Child(hold, 0) # NoKey
      /\ Child(hold, 0) \notin Ran \cup Waiting
  BY KeyTypes, ChildNotNoKey DEF JobInv, KeyInv
<1>2. queue' = <<m>> \o queue
  OBVIOUS
<1> HIDE DEF m
<1>3. \A b \in Elems(queue) : Fits(m, b)
  <2> SUFFICES ASSUME NEW b \in Elems(queue) PROVE Fits(m, b)
    OBVIOUS
  <2>1. b \in Msg /\ b.key \in Keys /\ b.ctor \in Ctors
    BY KeyTypes DEF Msg
  <2>2. Ordered(b) => Less(m.key, b.key)
    BY <2>1, <1>0, <1>1, LessChild DEF HoldInv
  <2>3. ASSUME Input(b) PROVE Inert(m)
    <3>1. <<j.ctor, b.ctor>> \in HoldFreePairs(app)
      BY <2>3, <1>1 DEF HoldInv
    <3> QED
      BY <3>1, <2>1, HoldFreeSound DEF m
  <2>4. ~HoldAnswer(b)
    BY <1>1 DEF HoldInv
  <2> QED
    BY <2>2, <2>3, <2>4 DEF Fits
<1>4. Sound(m) /\ Ordered(m)
  BY <1>0, <1>1 DEF Sound, Ordered, Input
<1>5. /\ queue \in Seq(Msg) /\ <<>> \in Seq(Msg) /\ queue = <<>> \o queue
      /\ queue' = (<<>> \o <<m>>) \o queue /\ Elems(<<>>) = {}
  BY <1>0, <1>2, QueueEnds
<1>6. QueueInv' /\ queue' \in Seq(Msg) /\ Elems(queue') = Elems(queue) \cup {m}
  BY <1>0, <1>3, <1>4, <1>5, AddMsg
<1>7. Ran' = Ran /\ Waiting' = Waiting \cup {Child(hold, 0)} /\ Elems(log)' = Elems(log)
  BY <1>0, <1>6 DEF Ran, Waiting, Elems
<1>8. KeyInv'
  <2>1. Child(hold, 0)[1] = hold[1] /\ Parent(Child(hold, 0)) = hold
    BY <1>1, ChildFirst
  <2>2. \A k \in Ran \cup Waiting' : k # NoKey =>
           k[1] \in 1 .. arrivals /\ (Len(k) > 1 => Parent(k) \in Ran)
    BY <2>1, <1>1, <1>7 DEF KeyInv
  <2>3. Ran \cap Waiting' = {}
    BY <1>1, <1>7 DEF KeyInv
  <2>4. FollowInv'
    BY <1>7 DEF KeyInv, FollowInv
  <2> QED
    BY <2>2, <2>3, <2>4, <1>7 DEF KeyInv
<1>9. JobInv'
  <2>1. ASSUME NEW k \in inflight' PROVE Child(k.key, 0) \notin Ran' \cup Waiting'
    <3>1. k \in inflight /\ k.key # hold /\ k.key \in Keys
      BY KeyTypes DEF JobInv
    <3>2. Child(k.key, 0) # Child(hold, 0)
      BY <3>1, <1>1, ChildInjective
    <3> QED
      BY <3>1, <3>2, <1>7 DEF JobInv
  <2> QED
    BY <2>1, <1>7 DEF JobInv
<1>10. HoldInv'
  <2>1. ASSUME NEW r \in Elems(log), r.holds
        PROVE  /\ \A k \in inflight' : k.key # r.key
               /\ Child(r.key, 0) \in Ran' \cup Waiting'
    <3>1. CASE hold = r.key
      BY <3>1, <1>7 DEF JobInv
    <3>2. CASE hold # r.key
      BY <3>2, <2>1, <1>7 DEF HoldInv
    <3> QED
      BY <3>1, <3>2
  <2> QED
    BY <2>1, <1>7 DEF HoldInv
<1>11. OrderInv'
  <2>1. \A k \in inflight' : k.key # NoKey
    BY DEF JobInv, KeyInv
  <2>2. \A r \in Elems(log) : InOrder(r, m)
    BY DEF OrderInv, m
  <2>3. \A r \in Elems(log) :
          /\ \A x \in Elems(queue') : Ordered(x) => InOrder(r, x)
          /\ \A k \in inflight' : k.key = hold' => InOrder(r, Answer(k))
    BY <2>1, <2>2, <1>6 DEF OrderInv
  <2>4. LogFitSet' = LogFitSet /\ \A r, x : InOrder(r, x)' <=> InOrder(r, x)
    BY AppKept
  <2> QED
    BY <2>3, <2>4, <1>7 DEF OrderInv
<1> QED
  BY <1>6, <1>8, <1>9, <1>10, <1>11

LEMMA LogAppend ==
    ASSUME TypeOK, NEW e \in Run, log' = Append(log, e), NEW R,
           Pairwise(log, R), \A r \in Elems(log) : <<r, e>> \in R
    PROVE  log' \in Seq(Run) /\ Elems(log') = Elems(log) \cup {e} /\ Pairwise(log', R)
<1> DEFINE one == <<e>>
<1>1. one \in Seq(Run) /\ Elems(one) = {e} /\ Pairwise(one, R)
  BY Single
<1>2. log \in Seq(Run) /\ log' = log \o one
  BY AppendIsConcat DEF TypeOK
<1> HIDE DEF one
<1>3. log \o one \in Seq(Run) /\ Elems(log \o one) = Elems(log) \cup Elems(one)
  BY <1>1, <1>2, ConcatProperties, ElemsConcat
<1>4. \A r \in Elems(log), b \in Elems(one) : <<r, b>> \in R
  BY <1>1
<1>5. Pairwise(log \o one, R)
  BY <1>1, <1>2, <1>4, PairwiseConcat
<1> QED
  BY <1>1, <1>2, <1>3, <1>5

\* What the drain runs while a hold is in flight sends no request and has no
\* follow-ups.
LEMMA RunsBesideHold ==
    ASSUME TypeOK, QueueInv, HoldInv, Runnable(queue, hold), hold # NoKey
    PROVE  LET m == Head(queue) IN
           /\ Input(m) \/ ~Ordered(m)
           /\ m.plan = <<>>
           /\ m.kind \in {"event", "followUp"} => ~Server(m.ctor)
<1> DEFINE m == Head(queue)
<1>1. queue # <<>> /\ m = queue[1] /\ m.urgent
  BY HeadFirst DEF Runnable, TypeOK
<1>2. 1 \in DOMAIN queue
  BY <1>1, EmptySeq, LenProperties DEF TypeOK
<1>3. m \in Elems(queue) /\ m \in Msg
  BY <1>1, <1>2, KeyTypes DEF Elems
<1>4. Sound(m) /\ ~HoldAnswer(m)
  BY <1>3 DEF QueueInv, HoldInv
<1> HIDE DEF m
<1>5. m.kind # "result" /\ m.kind # "followUp"
  BY <1>1, <1>4 DEF HoldAnswer, Sound
<1>6. Input(m) \/ ~Ordered(m)
  BY <1>1, <1>5 DEF Ordered, Input
<1> QED
  BY <1>1, <1>4, <1>5, <1>6 DEF Sound, Input, m

\* The facts about a turn of the drain that its invariants need.
LEMMA TurnFacts ==
    ASSUME TypeOK, QueueInv, KeyInv, JobInv, HoldInv, OrderInv, RunHead
    PROVE  LET m == Head(queue)
               F == {FollowUp(m, i) : i \in DOMAIN m.plan}
               T == Elems(Tail(queue))
           IN
           /\ queue' \in Seq(Msg) /\ QueueInv' /\ log' \in Seq(Run)
           /\ m \in Msg /\ Sound(m) /\ m.key \in Keys
           /\ Elems(queue) = {m} \cup T
           /\ Elems(queue') = F \cup T
           /\ \A b \in T : b \in Msg /\ Fits(m, b)
           /\ DOMAIN m.plan \subseteq Nat \ {0}
           /\ Ordered(m) => Elems(log') = Elems(log) \cup {Effect(m)}
           /\ ~Ordered(m) => log' = log /\ F = {}
           /\ Pairwise(log', LogFitSet)
           /\ m.key \notin Ran
           /\ \A i \in Nat : m.key # NoKey => Child(m.key, i) \notin Ran \cup Waiting
<1> DEFINE m == Head(queue)
           F == {FollowUp(m, i) : i \in DOMAIN m.plan}
           T == Elems(Tail(queue))
<1>1. /\ app' = app /\ queue # <<>> /\ queue' = FollowUpMsgs(m) \o Tail(queue)
      /\ log' = IF Ordered(m) THEN Append(log, Effect(m)) ELSE log
  BY DEF RunHead, Runnable, Ordered
<1>2. /\ QueueInv' /\ queue' \in Seq(Msg)
      /\ m \in Msg /\ Sound(m)
      /\ Elems(queue) = {m} \cup T
      /\ Elems(queue') = F \cup T
      /\ \A b \in T : b \in Msg /\ Fits(m, b)
  BY <1>1, ReplaceHead
<1>3. DOMAIN m.plan \subseteq Nat \ {0} /\ m.key \in Keys
  BY <1>2, FollowUpsType DEF Msg
<1>4. ~Ordered(m) => F = {}
  BY <1>2, EmptyPlan DEF Sound, Ordered
<1> HIDE DEF m, F, T
<1>5. m.key \in Waiting /\ m.key \notin Ran
  BY <1>2 DEF Waiting, KeyInv
<1>6. Effect(m) \in Run /\ Effect(m).key = m.key
  BY <1>2, EffectType
<1>7. ASSUME Ordered(m), NEW r \in Elems(log) PROVE <<r, Effect(m)>> \in LogFitSet
  <2>1. r \in Run /\ r.key \in Keys /\ r.key # m.key
    BY <1>5, KeyTypes DEF Ran, Run
  <2>2. InOrder(r, m)
    BY <1>2, <1>7 DEF OrderInv
  <2>3. \/ Less(r.key, m.key) \/ Prefix(r.key, m.key)
        \/ r.quiet /\ ~Shows(r, Effect(m))
        \/ r.around
    BY <2>2 DEF InOrder, Calm
  <2>4. LogFits(r, Effect(m))
    BY <2>1, <2>3, <1>6 DEF LogFits
  <2> QED
    BY <2>1, <2>4, <1>6 DEF LogFitSet
<1>8. Pairwise(log, LogFitSet) /\ log \in Seq(Run)
  BY DEF OrderInv, TypeOK
<1>9. /\ log' \in Seq(Run) /\ Pairwise(log', LogFitSet)
      /\ Ordered(m) => Elems(log') = Elems(log) \cup {Effect(m)}
      /\ ~Ordered(m) => log' = log
  <2>1. CASE Ordered(m)
    BY <2>1, <1>1, <1>6, <1>7, <1>8, LogAppend
  <2>2. CASE ~Ordered(m)
    BY <2>2, <1>1, <1>8
  <2> QED
    BY <2>1, <2>2
<1>10. ASSUME NEW i \in Nat, m.key # NoKey PROVE Child(m.key, i) \notin Ran \cup Waiting
  <2>1. Parent(Child(m.key, i)) = m.key /\ Len(Child(m.key, i)) > 1 /\ Child(m.key, i) # NoKey
    BY <1>3, <1>10, ChildFirst, ChildNotNoKey
  <2> QED
    BY <2>1, <1>5 DEF KeyInv
<1> QED
  BY <1>2, <1>3, <1>4, <1>5, <1>9, <1>10 DEF m, F, T

\* The two shapes of a turn: a request is sent, or the jobs stay.
LEMMA TurnShape ==
    ASSUME TypeOK, QueueInv, HoldInv, RunHead
    PROVE  LET m == Head(queue)
           IN
           \/ /\ ~(m.kind \in {"event", "followUp"} /\ Server(m.ctor))
              /\ UNCHANGED <<inflight, tickNet, hold>>
           \/ /\ m.kind \in {"event", "followUp"} /\ Server(m.ctor) /\ hold = NoKey
              /\ hold' = IF m.ctor \in Holds THEN m.key ELSE NoKey
              /\ \E plan \in MayAnswer(m) :
                    inflight' = inflight \cup
                       {[key |-> m.key, ctor |-> m.ctor, plan |-> plan, tick |-> m.tick,
                         named |-> TRUE]}
              /\ tickNet' = tickNet + (IF m.tick THEN 1 ELSE 0)
<1> DEFINE m == Head(queue)
           sends == m.kind \in {"event", "followUp"} /\ Server(m.ctor)
<1>1. /\ IF sends THEN \E plan \in MayAnswer(m) : Issue(m, plan, TRUE)
                  ELSE UNCHANGED <<inflight, tickNet, hold>>
      /\ Runnable(queue, hold)
  BY DEF RunHead
<1>2. sends => hold = NoKey
  BY <1>1, RunsBesideHold
<1> HIDE DEF m
<1>3. CASE sends
  <2>1. PICK plan \in MayAnswer(m) : Issue(m, plan, TRUE)
    BY <1>1, <1>3
  <2> QED
    BY <2>1, <1>2, <1>3 DEF Issue, m
<1>4. CASE ~sends
  BY <1>1, <1>4 DEF m
<1> QED
  BY <1>3, <1>4

LEMMA Turn ==
    ASSUME TypeOK, QueueInv, KeyInv, JobInv, HoldInv, OrderInv, RunHead
    PROVE  KeyInv' /\ JobInv' /\ HoldInv' /\ OrderInv'
<1> DEFINE m == Head(queue)
           e == Effect(m)
           F == {FollowUp(m, i) : i \in DOMAIN m.plan}
           T == Elems(Tail(queue))
           sends == m.kind \in {"event", "followUp"} /\ Server(m.ctor)
           job(plan) == [key |-> m.key, ctor |-> m.ctor, plan |-> plan, tick |-> m.tick,
                         named |-> TRUE]
<1>1. /\ app' = app /\ arrivals' = arrivals
      /\ m \in Msg /\ Sound(m) /\ m.key \in Keys
      /\ Elems(queue) = {m} \cup T
      /\ Elems(queue') = F \cup T
      /\ \A b \in T : b \in Msg /\ Fits(m, b)
      /\ DOMAIN m.plan \subseteq Nat \ {0}
      /\ Ordered(m) => Elems(log') = Elems(log) \cup {e}
      /\ ~Ordered(m) => log' = log /\ F = {}
      /\ Pairwise(log', LogFitSet)
      /\ m.key \notin Ran
      /\ \A i \in Nat : m.key # NoKey => Child(m.key, i) \notin Ran \cup Waiting
  BY TurnFacts DEF RunHead
<1>2. /\ e \in Run /\ e.key = m.key /\ e.follows = Len(m.plan)
      /\ DOMAIN m.plan = 1 .. Len(m.plan)
      /\ e.holds <=> m.kind # "result" /\ Server(m.ctor) /\ m.ctor \in Holds
  <2>1. DOMAIN m.plan = 1 .. Len(m.plan)
    BY <1>1, PlanType DEF Msg
  <2> QED
    BY <2>1, <1>1, EffectType DEF Effect
<1>3. \/ ~sends /\ inflight' = inflight /\ hold' = hold
      \/ /\ sends /\ hold = NoKey
         /\ hold' = IF m.ctor \in Holds THEN m.key ELSE NoKey
         /\ \E plan \in MayAnswer(m) : inflight' = inflight \cup {job(plan)}
  BY TurnShape
<1>4. hold # NoKey => (Input(m) \/ ~Ordered(m)) /\ F = {}
  BY RunsBesideHold, EmptyPlan DEF RunHead
<1>5. \A i \in DOMAIN m.plan : m.kind = "result" /\ i \in Nat \ {0}
  BY <1>1, EmptyPlan DEF Sound
<1> HIDE DEF m, e, F, T
<1>6. /\ Ordered(m) <=> m.key # NoKey
      /\ m.key \in Waiting
  BY <1>1 DEF Sound, Waiting
<1> DEFINE FK == {Child(m.key, i) : i \in DOMAIN m.plan}
           TK == {x.key : x \in T}
<1>7. /\ Waiting = {m.key} \cup TK /\ Waiting' = FK \cup TK
      /\ {f.key : f \in F} = FK
  <2>1. {f.key : f \in F} = FK
    <3>1. \A i \in DOMAIN m.plan : FollowUp(m, i).key = Child(m.key, i)
      BY DEF FollowUp, Child
    <3> QED
      BY <3>1 DEF F
  <2>2. Waiting = {m.key} \cup TK
    BY <1>1 DEF Waiting
  <2>3. Waiting' = {f.key : f \in F} \cup TK
    BY <1>1 DEF Waiting
  <2> QED
    BY <2>1, <2>2, <2>3
<1>8. Ran' = IF Ordered(m) THEN Ran \cup {m.key} ELSE Ran
  <2>1. CASE Ordered(m)
    BY <2>1, <1>1, <1>2 DEF Ran
  <2>2. CASE ~Ordered(m)
    BY <2>2, <1>1 DEF Ran
  <2> QED
    BY <2>1, <2>2
<1>9. ~Ordered(m) => FK = {}
  BY <1>5 DEF Ordered
<1>10. m.key # NoKey => m.key \notin TK
  <2> SUFFICES ASSUME m.key # NoKey, NEW b \in T PROVE b.key # m.key
    OBVIOUS
  <2>1. b.key \in Keys /\ Fits(m, b) /\ Sound(b)
    BY <1>1 DEF Msg, QueueInv
  <2> QED
    BY <2>1, <1>1, <1>6, LessDiffers DEF Fits, Sound
<1>11. \A k \in FK : /\ k # NoKey /\ k \notin Ran \cup Waiting
                     /\ k # m.key /\ k[1] = m.key[1] /\ Parent(k) = m.key
  <2> SUFFICES ASSUME NEW i \in DOMAIN m.plan
               PROVE  LET k == Child(m.key, i)
                      IN  /\ k # NoKey /\ k \notin Ran \cup Waiting
                          /\ k # m.key /\ k[1] = m.key[1] /\ Parent(k) = m.key
    OBVIOUS
  <2>1. i \in Nat /\ m.key # NoKey
    BY <1>5, <1>6 DEF Ordered
  <2> QED
    BY <2>1, <1>1, <1>6, ChildFirst, ChildNotNoKey
<1>12. KeyInv'
  <2>1. \A k \in Ran' : k # NoKey
    BY <1>6, <1>8 DEF KeyInv
  <2>2. ASSUME NEW k \in Ran' \cup Waiting', k # NoKey
        PROVE  k[1] \in 1 .. arrivals /\ (Len(k) > 1 => Parent(k) \in Ran')
    <3>1. CASE k \in Ran \cup Waiting
      BY <3>1, <2>2, <1>8 DEF KeyInv
    <3>2. CASE k \in FK
      <4>1. m.key # NoKey
        BY <3>2, <1>6, <1>9
      <4>2. m.key[1] \in 1 .. arrivals
        BY <4>1, <1>6 DEF KeyInv
      <4> QED
        BY <3>2, <4>1, <4>2, <1>6, <1>8, <1>11
    <3> QED
      BY <3>1, <3>2, <1>6, <1>7, <1>8
  <2>3. ASSUME NEW n \in 1 .. arrivals PROVE <<n>> \in Ran' \cup Waiting'
    <3>1. <<n>> \in Ran \cup Waiting /\ <<n>> # NoKey
      BY OneKey DEF KeyInv, TypeOK, NoKey
    <3> QED
      BY <3>1, <1>6, <1>7, <1>8
  <2>4. Ran' \cap Waiting' = {}
    <3>1. Ran \cap TK = {} /\ Ran \cap FK = {} /\ m.key \notin FK
      BY <1>7, <1>11 DEF KeyInv
    <3> QED
      BY <3>1, <1>6, <1>7, <1>8, <1>10
  <2>5. FollowInv'
    <3> SUFFICES ASSUME NEW r \in Elems(log'), NEW i \in 1 .. r.follows
                 PROVE  Child(r.key, i) \in Ran' \cup Waiting'
      BY DEF FollowInv
    <3>1. CASE r \in Elems(log)
      <4>1. r.key \in Keys /\ i \in Nat /\ Child(r.key, i) \in Ran \cup Waiting
        BY <3>1, KeyTypes DEF Run, KeyInv, FollowInv
      <4>2. Child(r.key, i) # NoKey
        BY <4>1, ChildNotNoKey
      <4> QED
        BY <4>1, <4>2, <1>6, <1>7, <1>8
    <3>2. CASE Ordered(m) /\ r = e
      <4>1. i \in DOMAIN m.plan /\ r.key = m.key
        BY <3>2, <1>2
      <4> QED
        BY <4>1, <1>7
    <3> QED
      BY <3>1, <3>2, <1>1 DEF Elems
  <2> QED
    BY <2>1, <2>2, <2>3, <2>4, <2>5, <1>1 DEF KeyInv
<1>13. /\ Ran \cup Waiting \subseteq Ran' \cup Waiting' \cup {NoKey}
       /\ Ran' \cup Waiting' \subseteq Ran \cup Waiting \cup FK
       /\ Ran \subseteq Ran'
  BY <1>6, <1>7, <1>8
<1>14. ASSUME NEW j \in inflight PROVE Child(j.key, 0) \notin Ran' \cup Waiting'
  <2>1. j.key \in Keys /\ Child(j.key, 0) \notin Ran \cup Waiting
    BY KeyTypes DEF JobInv
  <2>2. Child(j.key, 0) \notin FK
    <3> SUFFICES ASSUME NEW i \in DOMAIN m.plan PROVE Child(j.key, 0) # Child(m.key, i)
      OBVIOUS
    <3>1. i \in Nat /\ i # 0
      BY <1>5
    <3> QED
      BY <3>1, <2>1, <1>1, ChildInjective
  <2> QED
    BY <2>1, <2>2, <1>13
<1>15. \A j \in inflight : j.key # m.key
  BY <1>1 DEF JobInv
<1>16. ASSUME sends, NEW plan \in MayAnswer(m), inflight' = inflight \cup {job(plan)}
       PROVE  JobInv'
  <2>1. Ordered(m) /\ m.key # NoKey /\ FK = {}
    BY <1>16, <1>5, <1>6 DEF Ordered
  <2>2. Child(m.key, 0) \notin Ran' \cup Waiting'
    BY <2>1, <1>1, <1>13
  <2>3. \A i \in DOMAIN plan :
           /\ plan[i] \notin app.internal
           /\ app.conts[m.ctor].known => plan[i] \in app.conts[m.ctor].to
    BY DEF MayAnswer
  <2>4. m.key \in Ran'
    BY <2>1, <1>8
  <2>5. ASSUME NEW j \in inflight'
        PROVE  /\ j.key \in Ran'
               /\ Child(j.key, 0) \notin Ran' \cup Waiting'
               /\ \A i \in DOMAIN j.plan :
                     /\ j.plan[i] \notin app.internal
                     /\ app.conts[j.ctor].known => j.plan[i] \in app.conts[j.ctor].to
    <3>1. CASE j \in inflight
      BY <3>1, <1>13, <1>14 DEF JobInv
    <3>2. CASE j = job(plan)
      <4>1. j.key = m.key /\ j.ctor = m.ctor /\ j.plan = plan
        BY <3>2
      <4> QED
        BY <4>1, <2>2, <2>3, <2>4
    <3> QED
      BY <3>1, <3>2, <1>16
  <2>6. \A j, k \in inflight' : j.key = k.key => j = k
    <3>1. job(plan).key = m.key
      OBVIOUS
    <3> QED
      BY <3>1, <1>15, <1>16 DEF JobInv
  <2> QED
    BY <2>5, <2>6, <1>1 DEF JobInv
<1>17. ASSUME ~sends, inflight' = inflight, hold' = hold
       PROVE  JobInv' /\ HoldInv'
  <2>1. JobInv'
    BY <1>1, <1>13, <1>14, <1>17 DEF JobInv
  <2>2. HoldInv'
    <3>1. hold # NoKey => \A x \in Elems(queue') :
            /\ Ordered(x) => Less(hold, x.key)
            /\ ~HoldAnswer(x)
            /\ Input(x) => \A j \in inflight :
                  j.key = hold => <<j.ctor, x.ctor>> \in HoldFreePairs(app)
      BY <1>1, <1>4 DEF HoldInv
    <3>2. ASSUME NEW r \in Elems(log'), r.holds
          PROVE  \/ hold = r.key
                 \/ /\ \A j \in inflight : j.key # r.key
                    /\ Child(r.key, 0) \in Ran' \cup Waiting'
      <4>1. ~(Ordered(m) /\ r = e)
        BY <3>2, <1>2, <1>17 DEF Ordered
      <4>2. r \in Elems(log)
        BY <4>1, <1>1 DEF Elems
      <4>3. r.key \in Keys /\ Child(r.key, 0) # NoKey
        BY <4>2, KeyTypes, ChildNotNoKey DEF Run
      <4> QED
        BY <3>2, <4>2, <4>3, <1>13 DEF HoldInv
    <3>3. hold # NoKey => \E j \in inflight : j.key = hold
      BY DEF HoldInv
    <3> QED
      BY <3>1, <3>2, <3>3, <1>1, <1>17 DEF HoldInv
  <2> QED
    BY <2>1, <2>2
<1>18. ASSUME sends, hold = NoKey,
              hold' = IF m.ctor \in Holds THEN m.key ELSE NoKey,
              \E plan \in MayAnswer(m) : inflight' = inflight \cup {job(plan)}
       PROVE  JobInv' /\ HoldInv'
  <2>1. PICK plan \in MayAnswer(m) : inflight' = inflight \cup {job(plan)}
    BY <1>18
  <2>2. JobInv'
    BY <2>1, <1>16, <1>18
  <2>3. HoldInv'
    <3>0. Ordered(m) /\ FK = {} /\ F = {} /\ job(plan).key = m.key
      BY <1>5, <1>18 DEF Ordered, F
    <3>1. hold' # NoKey => \E j \in inflight' : j.key = hold'
      BY <3>0, <2>1, <1>18
    <3>2. ASSUME hold' # NoKey, NEW x \in Elems(queue')
          PROVE  /\ Ordered(x) => Less(hold', x.key)
                 /\ ~HoldAnswer(x) /\ ~Input(x)
      <4>1. x \in T /\ Fits(m, x) /\ hold' = m.key
        BY <3>0, <3>2, <1>1, <1>18
      <4> QED
        BY <4>1, <3>0, <1>18 DEF Fits, Inert
    <3>3. ASSUME NEW r \in Elems(log'), r.holds
          PROVE  \/ hold' = r.key
                 \/ /\ \A j \in inflight' : j.key # r.key
                    /\ Child(r.key, 0) \in Ran' \cup Waiting'
      <4>1. CASE r = e
        BY <4>1, <3>3, <1>2, <1>18
      <4>2. CASE r \in Elems(log)
        <5>1. r.key \in Keys /\ r.key \in Ran /\ r.key # NoKey /\ Child(r.key, 0) # NoKey
          BY <4>2, KeyTypes, ChildNotNoKey DEF Run, Ran, KeyInv
        <5>2. r.key # m.key
          BY <5>1, <1>1
        <5>3. /\ \A j \in inflight : j.key # r.key
              /\ Child(r.key, 0) \in Ran \cup Waiting
          BY <4>2, <3>3, <5>1, <1>18 DEF HoldInv
        <5> QED
          BY <5>1, <5>2, <5>3, <3>0, <2>1, <1>13
      <4> QED
        BY <4>1, <4>2, <3>0, <1>1
    <3> QED
      BY <3>1, <3>2, <3>3, <1>1 DEF HoldInv
  <2> QED
    BY <2>2, <2>3
<1>19. OrderInv'
  <2>1. ASSUME NEW r \in Elems(log), NEW x \in Elems(queue'), Ordered(x) PROVE InOrder(r, x)
    <3>0. r.key \in Keys
      BY KeyTypes DEF Run
    <3>1. CASE x \in T
      BY <3>1, <2>1, <1>1 DEF OrderInv
    <3>2. CASE x \in F
      <4>1. PICK i \in DOMAIN m.plan : x = FollowUp(m, i)
        BY <3>2 DEF F
      <4>2. /\ x.key = Child(m.key, i) /\ x.kind = "followUp" /\ x.ctor = m.plan[i]
            /\ x.plan = <<>>
        BY <4>1 DEF FollowUp, Child
      <4>3. InOrder(r, m) /\ i \in Nat
        BY <1>1, <1>5 DEF OrderInv, Ordered
      <4>6. CASE r.around
        BY <4>6 DEF InOrder
      <4>4. CASE Less(r.key, m.key) \/ Prefix(r.key, m.key)
        BY <4>2, <4>3, <4>4, <3>0, <1>1, LessChild DEF InOrder
      <4>5. CASE Calm(r, m)
        <5>1. r.quiet /\ ~Server(m.plan[i]) /\ ~Shows(r, Effect(FollowUpMsgs(m)[i]))
          BY <4>5 DEF Calm, Inert
        <5>2. FollowUpMsgs(m)[i] = x
          BY <4>1, <1>1, FollowUpsType
        <5>3. Inert(x)
          BY <5>1, <4>2, EmptyPlan DEF Inert
        <5> QED
          BY <5>1, <5>2, <5>3, <4>2, EmptyPlan DEF InOrder, Calm
      <4> QED
        BY <4>3, <4>4, <4>5, <4>6 DEF InOrder
    <3> QED
      BY <3>1, <3>2, <1>1
  <2>2. ASSUME Ordered(m), NEW x \in Elems(queue'), Ordered(x) PROVE InOrder(e, x)
    <3>1. CASE x \in T
      BY <3>1, <2>2, <1>1, <1>2 DEF Fits, InOrder
    <3>2. CASE x \in F
      <4>1. PICK i \in DOMAIN m.plan : x = FollowUp(m, i)
        BY <3>2 DEF F
      <4>2. x.key = Child(m.key, i) /\ i \in Nat
        BY <4>1, <1>5 DEF FollowUp, Child
      <4> QED
        BY <4>2, <1>1, <1>2, LessChild DEF InOrder
    <3> QED
      BY <3>1, <3>2, <1>1
  <2>3. ASSUME NEW r \in Elems(log'), NEW j \in inflight', j.key = hold'
        PROVE  InOrder(r, Answer(j))
    <3>1. CASE j \in inflight
      <4>1. hold' # NoKey
        BY <2>3, <3>1 DEF JobInv, KeyInv
      <4>2. hold' = hold
        BY <2>3, <3>1, <4>1, <1>3, <1>15
      <4>3. CASE r \in Elems(log)
        BY <4>2, <4>3, <3>1, <2>3 DEF OrderInv
      <4>4. CASE Ordered(m) /\ r = e
        <5>1. Input(m) /\ m \in Elems(queue) /\ m.ctor \in Ctors
          BY <4>1, <4>2, <4>4, <1>1, <1>4 DEF Msg
        <5>2. <<j.ctor, m.ctor>> \in HoldFreePairs(app)
          BY <5>1, <4>1, <4>2, <3>1, <2>3 DEF HoldInv
        <5>3. Calm(e, Answer(j))
          BY <5>1, <5>2, <3>1, <1>1, HoldFreeSound DEF Input, e
        <5> QED
          BY <5>3, <4>4 DEF InOrder
      <4>5. r \in Elems(log) \/ (Ordered(m) /\ r = e)
        BY <2>3, <1>1 DEF Elems
      <4> QED
        BY <4>3, <4>4, <4>5
    <3>2. CASE j \notin inflight
      <4>1. PICK plan \in MayAnswer(m) : inflight' = inflight \cup {job(plan)} /\ sends
        BY <3>2, <2>3, <1>3
      <4>2. j.key = m.key /\ Ordered(m)
        BY <4>1, <3>2, <2>3 DEF Ordered
      <4>3. Answer(j).key = Child(m.key, 0)
        BY <4>2 DEF Answer, ResultOf
      <4>4. CASE r = e
        BY <4>3, <4>4, <1>1, <1>2, LessChild DEF InOrder
      <4>5. CASE r \in Elems(log)
        <5>1. r.key \in Keys /\ InOrder(r, m)
          BY <4>2, <4>5, <1>1, KeyTypes DEF Run, OrderInv
        <5>2. ~Calm(r, m)
          BY <4>1 DEF Calm, Inert
        <5> QED
          BY <5>1, <5>2, <4>3, <1>1, LessChild DEF InOrder
      <4> QED
        BY <4>2, <4>4, <4>5, <1>1
    <3> QED
      BY <3>1, <3>2
  <2>4. ASSUME NEW r \in Elems(log'), NEW x \in Elems(queue'), Ordered(x) PROVE InOrder(r, x)
    <3>1. r \in Elems(log) \/ (Ordered(m) /\ r = e)
      BY <1>1 DEF Elems
    <3> QED
      BY <3>1, <2>1, <2>2, <2>4
  <2>5. LogFitSet' = LogFitSet /\ \A r, x : InOrder(r, x)' <=> InOrder(r, x)
    BY <1>1, AppKept
  <2> QED
    BY <2>3, <2>4, <2>5, <1>1 DEF OrderInv
<1> QED
  BY <1>3, <1>12, <1>17, <1>18, <1>19

\* The tick gate's count over a new job, and over one that is settled.
LEMMA CountMore ==
    ASSUME TypeOK, CountInv, NEW j, j \notin inflight, j.tick \in BOOLEAN,
           inflight' = inflight \cup {j},
           tickNet' = tickNet + (IF j.tick THEN 1 ELSE 0)
    PROVE  CountInv' /\ tickNet' \in Nat
<1> DEFINE S == {k \in inflight : k.tick}
           S1 == {k \in inflight' : k.tick}
<1>1. IsFiniteSet(inflight') /\ IsFiniteSet(S) /\ Cardinality(S) \in Nat
  BY FS_AddElement, FS_Subset, FS_CardinalityType DEF CountInv
<1>2. tickNet = Cardinality(S)
  BY DEF CountInv, TickBusyExact
<1>3. CASE j.tick
  <2>1. S1 = S \cup {j} /\ j \notin S
    BY <1>3
  <2>2. Cardinality(S1) = Cardinality(S) + 1
    BY <2>1, <1>1, FS_AddElement
  <2>3. tickNet' = tickNet + 1
    BY <1>3
  <2>4. tickNet' = Cardinality(S1) /\ tickNet' \in Nat
    BY <2>2, <2>3, <1>1, <1>2
  <2> QED
    BY <2>4, <1>1 DEF CountInv, TickBusyExact
<1>4. CASE ~j.tick
  <2>1. S1 = S
    BY <1>4
  <2>2. tickNet' = tickNet + 0
    BY <1>4
  <2>3. tickNet' = Cardinality(S1) /\ tickNet' \in Nat
    <3> HIDE DEF S, S1
    <3> QED
      BY <2>1, <2>2, <1>1, <1>2
  <2> QED
    BY <2>3, <1>1 DEF CountInv, TickBusyExact
<1> QED
  BY <1>3, <1>4

LEMMA CountLess ==
    ASSUME TypeOK, CountInv, NEW j \in inflight,
           inflight' = inflight \ {j}, tickNet' = TickNetAfter(j)
    PROVE  CountInv' /\ tickNet' \in Nat
<1> DEFINE S == {k \in inflight : k.tick}
           S1 == {k \in inflight' : k.tick}
<1>1. IsFiniteSet(inflight') /\ IsFiniteSet(S) /\ Cardinality(S) \in Nat
  BY FS_RemoveElement, FS_Subset, FS_CardinalityType DEF CountInv
<1>2. tickNet = Cardinality(S) /\ j.tick \in BOOLEAN
  BY DEF CountInv, TickBusyExact, TypeOK, Job
<1>3. IsFiniteSet(S1) /\ Cardinality(S1) \in Nat
  BY <1>1, FS_Subset, FS_CardinalityType
<1>4. CASE j.tick
  <2>1. S1 = S \ {j} /\ j \in S
    BY <1>4
  <2>2. Cardinality(S1) = Cardinality(S) - 1
    BY <2>1, <1>1, FS_RemoveElement
  <2>3. tickNet' = tickNet - 1
    <3>1. Cardinality(S) # 0
      BY <2>1, <1>1, FS_EmptySet
    <3>2. tickNet \in Nat /\ tickNet # 0
      BY <3>1, <1>1, <1>2
    <3>3. tickNet' = IF tickNet <= 1 THEN 0 ELSE tickNet - 1
      BY <1>4 DEF TickNetAfter
    <3> QED
      BY <3>2, <3>3
  <2>4. tickNet' = Cardinality(S1)
    BY <2>2, <2>3, <1>2
  <2> QED
    BY <2>4, <1>1, <1>3 DEF CountInv, TickBusyExact
<1>5. CASE ~j.tick
  <2>1. S1 = S
    BY <1>5
  <2>2. tickNet' = tickNet
    BY <1>5 DEF TickNetAfter
  <2>3. tickNet' = Cardinality(S1)
    <3> HIDE DEF S, S1
    <3> QED
      BY <2>1, <2>2, <1>1, <1>2
  <2> QED
    BY <2>3, <1>1, <1>3 DEF CountInv, TickBusyExact
<1> QED
  BY <1>2, <1>4, <1>5

Inv == /\ TypeOK /\ QueueInv /\ KeyInv /\ JobInv
       /\ HoldInv /\ OrderInv /\ DrainInv /\ CountInv

LEMMA InvInit == Init => Inv
<1> SUFFICES ASSUME Init PROVE Inv
  OBVIOUS
<1>1. Elems(queue) = {} /\ Elems(log) = {} /\ Waiting = {} /\ Ran = {}
  BY Empty DEF Init, Waiting, Ran
<1>2. TypeOK
  <2>1. <<>> \in Seq(Msg) /\ <<>> \in Seq(Run) /\ NoKey \in Keys
    BY Empty DEF Keys, NoKey
  <2>2. 0 \in 0 .. MaxArrivals /\ 0 \in 0 .. MaxNotices
    BY SchedAssumption
  <2> QED
    BY <2>1, <2>2 DEF Init, TypeOK
<1>3. QueueInv /\ OrderInv
  BY <1>1, Empty DEF Init, QueueInv, OrderInv
<1>4. KeyInv /\ JobInv /\ HoldInv
  BY <1>1 DEF Init, KeyInv, FollowInv, JobInv, HoldInv
<1>5. DrainInv
  BY DEF Init, DrainInv, Runnable
<1>6. {j \in inflight : j.tick} = {}
  BY DEF Init
<1>7. CountInv
  BY <1>6, FS_EmptySet DEF Init, CountInv, TickBusyExact
<1> QED
  BY <1>2, <1>3, <1>4, <1>5, <1>7 DEF Inv

LEMMA DrainStops ==
    ASSUME NEW q, NEW h, Drain(q, h)
    PROVE  DrainInv'
BY DEF Drain, DrainInv

\* dispatch, dispatchTick and dispatchFrom.
LEMMA EventStep ==
    ASSUME Inv, NEW c \in Handled, NEW tick \in BOOLEAN, NEW urgent \in BOOLEAN,
           urgent => HoldFreeNow(c),
           Arrive, Drain(Append(queue, Event(c, tick, urgent)), hold),
           UNCHANGED <<app, inflight, tickNet, notices, log>>
    PROVE  Inv'
<1> DEFINE m == Event(c, tick, urgent)
<1>0. TypeOK /\ QueueInv /\ KeyInv /\ JobInv /\ HoldInv /\ OrderInv /\ CountInv
  BY DEF Inv
<1>1. c \in Ctors /\ NewKey \in Keys /\ NewKey # NoKey
  BY <1>0, HandledType, NewKeyFacts
<1>2. m \in Msg /\ m.key = NewKey /\ m.kind = "event" /\ m.ctor = c /\ m.plan = <<>> /\ m.urgent = urgent
  BY <1>1, EmptyPlan DEF Event, Msg
<1>3. urgent => ~Server(c)
  <2> SUFFICES ASSUME urgent PROVE ~Server(c)
    OBVIOUS
  <2>1. hold # NoKey /\ <<HeldJob.ctor, c>> \in HoldFreePairs(app)
    BY DEF HoldFreeNow, Listed
  <2>2. PICK j \in inflight : j.key = hold
    BY <2>1, <1>0 DEF HoldInv
  <2> QED
    BY <2>1, <2>2, <1>0, <1>1, HeldJobIs, HoldFreeSound
<1>4. Ordered(m) /\ Sound(m)
  BY <1>1, <1>2, <1>3 DEF Ordered, Sound, Input
<1>5. queue' = Append(queue, m) /\ hold' = hold /\ arrivals' = arrivals + 1 /\ arrivals < MaxArrivals
  BY DEF Drain, Arrive
<1> HIDE DEF m
<1>6. /\ queue' \in Seq(Msg)
      /\ QueueInv' /\ KeyInv' /\ JobInv' /\ HoldInv' /\ OrderInv'
  BY <1>0, <1>2, <1>4, <1>5, Arrival
<1>7. running' \in BOOLEAN
  BY <1>0 DEF Drain, TypeOK
<1>8. TypeOK'
  BY <1>0, <1>5, <1>6, <1>7, SchedAssumption DEF TypeOK
<1>9. CountInv'
  BY <1>0 DEF CountInv, TickBusyExact
<1> QED
  BY <1>6, <1>8, <1>9, DrainStops DEF Inv

\* A connection change or a report.
LEMMA NoticeStep ==
    ASSUME Inv, NEW m \in Msg, m.key = NoKey, m.kind \in {"report", "connection"},
           m.plan = <<>>, NEW s \in Seq(Msg), NEW t \in Seq(Msg), queue = s \o t,
           Notice, Drain((s \o <<m>>) \o t, hold),
           UNCHANGED <<app, inflight, tickNet, arrivals, log>>
    PROVE  Inv'
<1>0. TypeOK /\ QueueInv /\ KeyInv /\ JobInv /\ HoldInv /\ OrderInv /\ CountInv
  BY DEF Inv
<1>1. queue' = (s \o <<m>>) \o t /\ hold' = hold
  BY DEF Drain
<1>2. /\ queue' \in Seq(Msg)
      /\ QueueInv' /\ KeyInv' /\ JobInv' /\ HoldInv' /\ OrderInv'
  BY <1>0, <1>1, Notification
<1>3. running' \in BOOLEAN
  BY <1>0 DEF Drain, TypeOK
<1>4. notices' \in 0 .. MaxNotices
  BY <1>0, SchedAssumption DEF Notice, TypeOK
<1>5. TypeOK'
  BY <1>0, <1>1, <1>2, <1>3, <1>4 DEF TypeOK
<1>6. CountInv'
  BY <1>0 DEF CountInv, TickBusyExact
<1> QED
  BY <1>2, <1>5, <1>6, DrainStops DEF Inv

LEMMA DispatchUrgentStep ==
    ASSUME Inv, NEW c \in Handled, DispatchUrgent(c)
    PROVE  Inv'
<1> DEFINE P == {k \in DOMAIN queue : \A l \in 1 .. k : queue[l].urgent}
           i == Cardinality(P)
           m == [Event(c, FALSE, TRUE) EXCEPT !.kind = "connection", !.key = NoKey]
           s == SubSeq(queue, 1, i)
           t == SubSeq(queue, i + 1, Len(queue))
<1>0. TypeOK
  BY DEF Inv
<1>1. queue \in Seq(Msg) /\ Len(queue) \in Nat /\ DOMAIN queue = 1 .. Len(queue)
  BY <1>0, LenProperties DEF TypeOK
<1>2. IsFiniteSet(1 .. Len(queue)) /\ Cardinality(1 .. Len(queue)) = Len(queue)
  BY <1>1, FS_Interval
<1>3. i \in 0 .. Len(queue)
  <2>1. P \in SUBSET (1 .. Len(queue))
    BY <1>1
  <2> HIDE DEF P
  <2>2. IsFiniteSet(P) /\ Cardinality(P) <= Len(queue)
    BY <2>1, <1>2, FS_Subset
  <2>3. Cardinality(P) \in Nat
    BY <2>2, FS_CardinalityType
  <2> QED
    BY <2>2, <2>3, <1>1
<1>4. c \in Ctors /\ NoKey \in Keys
  BY <1>0, HandledType, Empty DEF NoKey, Keys
<1>5. m \in Msg /\ m.key = NoKey /\ m.kind = "connection" /\ m.plan = <<>>
  BY <1>4, EmptyPlan DEF Event, Msg
<1>6. /\ Notice /\ Drain((s \o <<m>>) \o t, hold)
      /\ UNCHANGED <<app, inflight, tickNet, arrivals, log>>
  BY DEF DispatchUrgent
<1> HIDE DEF i, m
<1>7. s \in Seq(Msg) /\ t \in Seq(Msg) /\ queue = s \o t
  BY <1>1, <1>3, Cut
<1> HIDE DEF s, t
<1> QED
  BY <1>5, <1>6, <1>7, NoticeStep

LEMMA ReportStep ==
    ASSUME Inv, NEW j \in inflight, ReportError(j)
    PROVE  Inv'
<1> DEFINE m == ResultOf(j, "report", NoKey, hold = j.key)
<1>0. TypeOK
  BY DEF Inv
<1>1. j.ctor \in Ctors /\ NoKey \in Keys
  BY <1>0, Empty DEF TypeOK, Job, NoKey, Keys
<1>2. m \in Msg /\ m.key = NoKey /\ m.kind = "report" /\ m.plan = <<>>
  BY <1>1, EmptyPlan DEF ResultOf, Msg
<1>3. /\ Notice
      /\ Drain(IF hold = j.key THEN <<m>> \o queue ELSE Append(queue, m), hold)
      /\ UNCHANGED <<app, inflight, tickNet, arrivals, log>>
  BY DEF ReportError
<1> HIDE DEF m
<1>4. /\ queue \in Seq(Msg) /\ <<>> \in Seq(Msg)
      /\ queue = queue \o <<>> /\ queue = <<>> \o queue
      /\ Append(queue, m) = (queue \o <<m>>) \o <<>>
      /\ <<m>> \o queue = (<<>> \o <<m>>) \o queue
  BY <1>0, <1>2, QueueEnds
<1>5. CASE hold = j.key
  <2>1. Drain((<<>> \o <<m>>) \o queue, hold)
    BY <1>3, <1>4, <1>5
  <2> QED
    BY <2>1, <1>2, <1>3, <1>4, NoticeStep
<1>6. CASE hold # j.key
  <2>1. Drain((queue \o <<m>>) \o <<>>, hold)
    BY <1>3, <1>4, <1>6
  <2> QED
    BY <2>1, <1>2, <1>3, <1>4, NoticeStep
<1> QED
  BY <1>5, <1>6

LEMMA SettleStep ==
    ASSUME Inv, NEW j \in inflight, Settle(j)
    PROVE  Inv'
<1>0. /\ TypeOK /\ QueueInv /\ KeyInv /\ JobInv /\ HoldInv /\ OrderInv /\ CountInv
      /\ j.key # NoKey
  BY DEF Inv, JobInv, KeyInv
<1>1. /\ inflight' = inflight \ {j} /\ tickNet' = TickNetAfter(j)
      /\ UNCHANGED <<app, notices, log>>
  BY DEF Settle, Settled
<1>2. CountInv' /\ tickNet' \in Nat
  BY <1>0, <1>1, CountLess
<1>3. CASE hold = j.key
  <2>1. Drain(<<Answer(j)>> \o queue, NoKey) /\ arrivals' = arrivals
    BY <1>3 DEF Settle, HoldAfter, Answer, Child
  <2>2. queue' = <<Answer(j)>> \o queue /\ hold' = NoKey
    BY <2>1 DEF Drain
  <2>3. /\ queue' \in Seq(Msg)
        /\ QueueInv' /\ KeyInv' /\ JobInv' /\ HoldInv' /\ OrderInv'
    BY <2>1, <2>2, <1>0, <1>1, <1>3, HoldAnswered
  <2>4. running' \in BOOLEAN
    BY <2>1, <1>0 DEF Drain, TypeOK
  <2>5. TypeOK'
    BY <2>1, <2>2, <2>3, <2>4, <1>0, <1>1, <1>2, Empty DEF TypeOK, NoKey, Keys
  <2> QED
    BY <2>1, <2>3, <2>5, <1>2, DrainStops DEF Inv
<1>4. CASE hold # j.key
  <2> DEFINE m == ResultOf(j, "result", NewKey, FALSE)
  <2>1. /\ arrivals < MaxArrivals /\ arrivals' = arrivals + 1
        /\ Drain(Append(queue, m), hold)
    BY <1>4 DEF Settle, HoldAfter, Arrive
  <2>2. queue' = Append(queue, m) /\ hold' = hold
    BY <2>1 DEF Drain
  <2>3. j.ctor \in Ctors /\ j.plan \in Plans /\ NewKey \in Keys /\ NewKey # NoKey
    BY <1>0, NewKeyFacts DEF TypeOK, Job
  <2>4. m \in Msg /\ m.key = NewKey /\ m.kind = "result" /\ m.urgent = FALSE
    BY <2>3 DEF ResultOf, Msg
  <2> HIDE DEF m
  <2>5. Ordered(m) /\ Sound(m)
    BY <2>3, <2>4 DEF Ordered, Sound, Input
  <2>6. \A k \in inflight : k.key = hold => k \in inflight'
    BY <1>1, <1>4
  <2>7. /\ queue' \in Seq(Msg)
        /\ QueueInv' /\ KeyInv' /\ JobInv' /\ HoldInv' /\ OrderInv'
    BY <2>1, <2>2, <2>4, <2>5, <2>6, <1>0, <1>1, Arrival
  <2>8. running' \in BOOLEAN
    BY <2>1, <1>0 DEF Drain, TypeOK
  <2>9. TypeOK'
    BY <2>1, <2>2, <2>7, <2>8, <1>0, <1>1, <1>2, SchedAssumption DEF TypeOK
  <2> QED
    BY <2>1, <2>7, <2>9, <1>2, DrainStops DEF Inv
<1> QED
  BY <1>3, <1>4

LEMMA RunStep ==
    ASSUME Inv, RunHead
    PROVE  Inv'
<1> DEFINE m == Head(queue)
<1>0. TypeOK /\ QueueInv /\ KeyInv /\ JobInv /\ HoldInv /\ OrderInv /\ CountInv
  BY DEF Inv
<1>1. KeyInv' /\ JobInv' /\ HoldInv' /\ OrderInv'
  BY <1>0, Turn
<1>2. queue' \in Seq(Msg) /\ QueueInv' /\ log' \in Seq(Run) /\ m \in Msg /\ m.key \notin Ran
  BY <1>0, TurnFacts
<1>3. DrainInv' /\ running' \in BOOLEAN /\ UNCHANGED <<app, arrivals, notices>>
  BY DEF RunHead, DrainInv, Runnable
<1>4. hold' \in Keys /\ inflight' \subseteq Job /\ CountInv' /\ tickNet' \in Nat
  <2>1. CASE UNCHANGED <<inflight, tickNet, hold>>
    BY <2>1, <1>0 DEF TypeOK, CountInv, TickBusyExact
  <2>2. CASE /\ hold' = IF m.ctor \in Holds THEN m.key ELSE NoKey
             /\ \E plan \in MayAnswer(m) :
                   inflight' = inflight \cup
                      {[key |-> m.key, ctor |-> m.ctor, plan |-> plan, tick |-> m.tick,
                        named |-> TRUE]}
             /\ tickNet' = tickNet + (IF m.tick THEN 1 ELSE 0)
    <3> HIDE DEF m
    <3>1. m.key \in Keys /\ m.ctor \in Ctors /\ m.tick \in BOOLEAN /\ NoKey \in Keys
      BY <1>2, Empty DEF Msg, NoKey, Keys
    <3>2. PICK plan \in MayAnswer(m) :
             inflight' = inflight \cup
                {[key |-> m.key, ctor |-> m.ctor, plan |-> plan, tick |-> m.tick,
                  named |-> TRUE]}
      BY <2>2
    <3> DEFINE j == [key |-> m.key, ctor |-> m.ctor, plan |-> plan, tick |-> m.tick,
                     named |-> TRUE]
    <3>3. plan \in Plans
      BY DEF MayAnswer
    <3>4. j \in Job /\ j.key = m.key /\ j.tick = m.tick
      BY <3>1, <3>3 DEF Job
    <3>5. j \notin inflight
      BY <3>4, <1>0, <1>2 DEF JobInv
    <3>6. inflight' = inflight \cup {j}
      BY <3>2
    <3> HIDE DEF j
    <3>7. CountInv' /\ tickNet' \in Nat
      <4>1. tickNet' = tickNet + (IF j.tick THEN 1 ELSE 0)
        BY <2>2, <3>4
      <4>2. j.tick \in BOOLEAN
        BY <3>1, <3>4
      <4> QED
        BY <4>1, <4>2, <3>5, <3>6, <1>0, CountMore
    <3>8. hold' \in Keys
      BY <2>2, <3>1
    <3> QED
      BY <3>4, <3>6, <3>7, <3>8, <1>0 DEF TypeOK
  <2> QED
    BY <2>1, <2>2, <1>0, TurnShape
<1>5. TypeOK'
  BY <1>0, <1>2, <1>3, <1>4 DEF TypeOK
<1> QED
  BY <1>1, <1>2, <1>3, <1>4, <1>5 DEF Inv

\* What spaDeliverFragment logs.
LEMMA FragmentRun ==
    ASSUME TypeOK, KeyInv, NEW c \in Handled
    PROVE  LET m == Event(c, FALSE, FALSE)
               e == [Effect(m) EXCEPT !.around = TRUE, !.holds = @ /\ hold = NoKey]
           IN  /\ m \in Msg /\ m.key = NewKey /\ m.kind = "event" /\ m.ctor = c
               /\ m.plan = <<>> /\ m.tick = FALSE
               /\ e \in Run /\ e.key = NewKey /\ e.around = TRUE /\ e.follows = 0
               /\ e.holds <=> Server(c) /\ c \in Holds /\ hold = NoKey
<1> DEFINE m == Event(c, FALSE, FALSE)
<1>1. c \in Ctors /\ NewKey \in Keys
  BY HandledType, NewKeyFacts
<1>2. /\ m \in Msg /\ m.key = NewKey /\ m.kind = "event" /\ m.ctor = c
      /\ m.plan = <<>> /\ m.tick = FALSE
  BY <1>1, EmptyPlan DEF Event, Msg
<1>3. Effect(m) \in Run /\ Effect(m).key = NewKey /\ Effect(m).follows = 0
  BY <1>2, EffectType
<1>4. /\ Effect(m).holds \in BOOLEAN
      /\ Effect(m).holds <=> Server(c) /\ c \in Holds
  BY <1>2 DEF Effect
<1> QED
  BY <1>2, <1>3, <1>4 DEF Run

\* spaDeliverFragment: a step at once, around what waits.
LEMMA FragmentStep ==
    ASSUME Inv, NEW c \in Handled, DeliverFragment(c)
    PROVE  Inv'
<1> DEFINE m == Event(c, FALSE, FALSE)
           e == [Effect(m) EXCEPT !.around = TRUE, !.holds = @ /\ hold = NoKey]
           job(plan) == [key |-> m.key, ctor |-> m.ctor, plan |-> plan, tick |-> m.tick,
                         named |-> FALSE]
<1>0. /\ TypeOK /\ QueueInv /\ KeyInv /\ JobInv /\ HoldInv /\ OrderInv
      /\ DrainInv /\ CountInv
  BY DEF Inv
<1>1. /\ c \in Ctors /\ NewKey \in Keys /\ NewKey # NoKey
      /\ NewKey[1] = arrivals + 1 /\ Len(NewKey) = 1
      /\ NewKey \notin Ran \cup Waiting /\ arrivals \in Nat
      /\ \A k \in Ran \cup Waiting : k # NoKey => Less(k, NewKey)
      /\ \A k \in Keys, i \in Nat : k # NoKey => Child(k, i) # NewKey
  BY <1>0, HandledType, NewKeyFacts DEF TypeOK
<1>2. /\ m \in Msg /\ m.key = NewKey /\ m.kind = "event" /\ m.ctor = c
      /\ m.plan = <<>> /\ m.tick = FALSE
  BY <1>0, FragmentRun
<1>3. /\ ~running /\ running' = running /\ app' = app /\ queue' = queue /\ notices' = notices
      /\ arrivals < MaxArrivals /\ arrivals' = arrivals + 1
      /\ log' = Append(log, e)
  BY DEF DeliverFragment, Arrive
<1>4. /\ e \in Run /\ e.key = NewKey /\ e.around = TRUE /\ e.follows = 0
      /\ e.holds <=> Server(c) /\ c \in Holds /\ hold = NoKey
  BY <1>0, FragmentRun
<1>5. \/ ~Server(c) /\ inflight' = inflight /\ tickNet' = tickNet /\ hold' = hold
      \/ /\ Server(c) /\ tickNet' = tickNet + 0
         /\ hold' = IF c \in Holds /\ hold = NoKey THEN NewKey ELSE hold
         /\ \E plan \in MayAnswer(m) : inflight' = inflight \cup {job(plan)}
  <2>1. IF Server(c) THEN \E plan \in MayAnswer(m) : Issue(m, plan, FALSE)
                     ELSE UNCHANGED <<inflight, tickNet, hold>>
    BY DEF DeliverFragment
  <2> HIDE DEF m
  <2> QED
    BY <2>1, <1>2 DEF Issue
<1>p. \A plan \in MayAnswer(m) :
         /\ plan \in Plans
         /\ \A i \in DOMAIN plan :
               /\ plan[i] \notin app.internal
               /\ app.conts[c].known => plan[i] \in app.conts[c].to
  BY <1>2 DEF MayAnswer
<1> HIDE DEF m, e
<1>6. hold = NoKey => queue = <<>> /\ Elems(queue) = {}
  BY <1>0, <1>3, Empty DEF DrainInv, Runnable
<1>7. ASSUME NEW r \in Elems(log) PROVE Less(r.key, NewKey) /\ r.key # NewKey
  BY <1>0, <1>1, <1>7 DEF Ran, KeyInv
<1>8. \A r \in Elems(log) : LogFits(r, e) /\ r \in Run
  BY <1>0, <1>4, <1>7, KeyTypes DEF LogFits
<1>9. log' \in Seq(Run) /\ Elems(log') = Elems(log) \cup {e} /\ Pairwise(log', LogFitSet)
  <2>1. \A r \in Elems(log) : <<r, e>> \in LogFitSet
    BY <1>4, <1>8 DEF LogFitSet
  <2>2. Pairwise(log, LogFitSet)
    BY <1>0 DEF OrderInv
  <2> HIDE DEF LogFitSet
  <2> QED
    BY <2>1, <2>2, <1>0, <1>3, <1>4, LogAppend
<1>10. Ran' = Ran \cup {NewKey} /\ Waiting' = Waiting /\ Elems(queue') = Elems(queue)
  BY <1>3, <1>4, <1>9 DEF Ran, Waiting
<1>11. KeyInv'
  <2>1. ASSUME NEW k \in Ran' \cup Waiting', k # NoKey
        PROVE  k[1] \in 1 .. arrivals' /\ (Len(k) > 1 => Parent(k) \in Ran')
    <3>1. CASE k = NewKey
      BY <3>1, <1>1, <1>3
    <3>2. CASE k \in Ran \cup Waiting
      <4>1. k[1] \in 1 .. arrivals /\ (Len(k) > 1 => Parent(k) \in Ran)
        BY <3>2, <2>1, <1>0 DEF KeyInv
      <4> QED
        BY <4>1, <1>1, <1>3, <1>10
    <3> QED
      BY <3>1, <3>2, <1>10
  <2>2. \A n \in 1 .. arrivals' : <<n>> \in Ran' \cup Waiting'
    <3>1. \A n \in 1 .. arrivals' : n \in 1 .. arrivals \/ n = arrivals + 1
      BY <1>1, <1>3
    <3> QED
      BY <3>1, <1>0, <1>10 DEF KeyInv, NewKey
  <2>3. Ran' \cap Waiting' = {} /\ \A k \in Ran' : k # NoKey
    BY <1>0, <1>1, <1>10 DEF KeyInv
  <2>4. FollowInv'
    BY <1>0, <1>4, <1>9, <1>10 DEF KeyInv, FollowInv
  <2> QED
    BY <2>1, <2>2, <2>3, <2>4 DEF KeyInv
<1>12. /\ \A j \in inflight : j.key \in Ran /\ j.key # NewKey
       /\ hold # NoKey => hold \in Ran /\ hold # NewKey
  BY <1>0, <1>1 DEF JobInv, HoldInv
<1>13. ASSUME NEW k \in Ran \cup {NewKey} PROVE Child(k, 0) # NewKey
  BY <1>0, <1>1, KeyTypes DEF KeyInv
<1>14. \A j \in inflight' : j \in inflight \/ j.key = NewKey
  BY <1>2, <1>5
<1>15. JobInv'
  <2>1. ASSUME NEW j \in inflight'
        PROVE  /\ j.key \in Ran'
               /\ Child(j.key, 0) \notin Ran' \cup Waiting'
               /\ \A i \in DOMAIN j.plan :
                     /\ j.plan[i] \notin app.internal
                     /\ app.conts[j.ctor].known => j.plan[i] \in app.conts[j.ctor].to
    <3>1. CASE j \in inflight
      BY <3>1, <1>0, <1>10, <1>12, <1>13 DEF JobInv
    <3>2. CASE j \notin inflight
      <4>1. PICK plan \in MayAnswer(m) : j = job(plan)
        BY <3>2, <1>5
      <4>2. j.key = NewKey /\ j.ctor = c /\ j.plan = plan
        BY <4>1, <1>2
      <4>3. Child(NewKey, 0) \notin Ran \cup Waiting
        <5>1. /\ Parent(Child(NewKey, 0)) = NewKey /\ Len(Child(NewKey, 0)) > 1
              /\ Child(NewKey, 0) # NoKey
          BY <1>1, ChildFirst, ChildNotNoKey
        <5> QED
          BY <5>1, <1>0, <1>1 DEF KeyInv
      <4> QED
        BY <4>2, <4>3, <1>10, <1>13, <1>p
    <3> QED
      BY <3>1, <3>2
  <2>2. \A j, k \in inflight' : j.key = k.key => j = k
    <3>1. \A plan : job(plan).key = NewKey
      BY <1>2
    <3> HIDE DEF job
    <3> QED
      BY <3>1, <1>0, <1>5, <1>12 DEF JobInv
  <2> QED
    BY <2>1, <2>2, <1>3 DEF JobInv
<1>16. \/ hold' = hold /\ (hold # NoKey => \A j \in inflight' : j.key = hold => j \in inflight)
       \/ hold = NoKey /\ hold' = NewKey
  BY <1>5, <1>12, <1>14
<1>17. inflight \subseteq inflight'
  BY <1>5
<1>18. HoldInv'
  <2>1. hold' # NoKey => \E j \in inflight' : j.key = hold'
    <3>1. CASE hold' = hold
      BY <3>1, <1>0, <1>17 DEF HoldInv
    <3>2. CASE hold = NoKey /\ hold' = NewKey
      <4>1. PICK plan \in MayAnswer(m) : inflight' = inflight \cup {job(plan)}
        BY <3>2, <1>1, <1>5
      <4>2. job(plan) \in inflight' /\ job(plan).key = NewKey
        BY <4>1, <1>2
      <4> QED
        BY <3>2, <4>2
    <3> QED
      BY <3>1, <3>2, <1>16
  <2>2. hold' # NoKey => \A x \in Elems(queue) :
          /\ Ordered(x) => Less(hold', x.key)
          /\ ~HoldAnswer(x)
          /\ Input(x) => \A j \in inflight' :
                j.key = hold' => <<j.ctor, x.ctor>> \in HoldFreePairs(app)
    BY <1>0, <1>6, <1>16 DEF HoldInv
  <2>3. ASSUME NEW r \in Elems(log'), r.holds
        PROVE  \/ hold' = r.key
               \/ /\ \A j \in inflight' : j.key # r.key
                  /\ Child(r.key, 0) \in Ran' \cup Waiting'
    <3>1. CASE r = e
      BY <3>1, <2>3, <1>4, <1>5
    <3>2. CASE r \in Elems(log) /\ hold = r.key
      <4>1. hold # NoKey
        BY <3>2, <1>0 DEF Ran, KeyInv
      <4> QED
        BY <3>2, <4>1, <1>16
    <3>3. CASE r \in Elems(log) /\ hold # r.key
      BY <3>3, <2>3, <1>0, <1>7, <1>10, <1>14 DEF HoldInv
    <3> QED
      BY <3>1, <3>2, <3>3, <1>9
  <2> QED
    BY <2>1, <2>2, <2>3, <1>3 DEF HoldInv
<1>19. OrderInv'
  <2>1. ASSUME NEW r \in Elems(log'), NEW x \in Elems(queue'), Ordered(x) PROVE InOrder(r, x)
    BY <2>1, <1>0, <1>4, <1>9, <1>10 DEF OrderInv, InOrder
  <2>2. ASSUME NEW r \in Elems(log'), NEW j \in inflight', j.key = hold'
        PROVE  InOrder(r, Answer(j))
    <3>1. CASE r = e
      BY <3>1, <1>4 DEF InOrder
    <3>2. CASE r \in Elems(log) /\ hold' = hold
      <4>1. j \in inflight
        BY <2>2, <3>2, <1>1, <1>14, <1>16
      <4> QED
        BY <2>2, <3>2, <4>1, <1>0 DEF OrderInv
    <3>3. CASE r \in Elems(log) /\ hold' = NewKey
      <4>1. r.key \in Keys /\ Less(r.key, Child(NewKey, 0))
        BY <3>3, <1>0, <1>1, <1>7, KeyTypes, LessChild DEF Run
      <4>2. Answer(j).key = Child(NewKey, 0)
        BY <2>2, <3>3 DEF Answer, ResultOf
      <4> QED
        BY <4>1, <4>2 DEF InOrder
    <3> QED
      BY <3>1, <3>2, <3>3, <1>9, <1>16
  <2>3. LogFitSet' = LogFitSet /\ \A r, x : InOrder(r, x)' <=> InOrder(r, x)
    BY <1>3, AppKept
  <2> QED
    BY <2>1, <2>2, <2>3, <1>9 DEF OrderInv
<1>20. DrainInv'
  BY <1>0, <1>3, <1>6, <1>16 DEF DrainInv, Runnable
<1>21. CountInv' /\ tickNet' \in Nat /\ inflight' \subseteq Job
  <2>1. CASE inflight' = inflight /\ tickNet' = tickNet
    BY <2>1, <1>0 DEF TypeOK, CountInv, TickBusyExact
  <2>2. ASSUME NEW plan \in MayAnswer(m), inflight' = inflight \cup {job(plan)},
               tickNet' = tickNet + 0
        PROVE  CountInv' /\ tickNet' \in Nat /\ inflight' \subseteq Job
    <3> DEFINE j == job(plan)
    <3>1. j \in Job /\ j.key = NewKey /\ j.tick = FALSE
      BY <1>1, <1>2, <1>p DEF Job
    <3>2. inflight' = inflight \cup {j}
      BY <2>2
    <3> HIDE DEF j
    <3>3. j \notin inflight
      BY <3>1, <1>12
    <3>4. tickNet' = tickNet + (IF j.tick THEN 1 ELSE 0) /\ j.tick \in BOOLEAN
      BY <2>2, <3>1
    <3>5. CountInv' /\ tickNet' \in Nat
      BY <3>2, <3>3, <3>4, <1>0, CountMore
    <3> QED
      BY <3>1, <3>2, <3>5, <1>0 DEF TypeOK
  <2> QED
    BY <2>1, <2>2, <1>5
<1>22. TypeOK'
  <2>1. hold' \in Keys /\ arrivals' \in 0 .. MaxArrivals
    BY <1>0, <1>1, <1>3, <1>16, SchedAssumption DEF TypeOK
  <2> QED
    BY <2>1, <1>0, <1>3, <1>9, <1>21 DEF TypeOK
<1>23. QueueInv'
  BY <1>0, <1>3, AppKept DEF QueueInv
<1> QED
  BY <1>11, <1>15, <1>18, <1>19, <1>20, <1>21, <1>22, <1>23 DEF Inv

LEMMA InvStep == Inv /\ [Next]_vars => Inv'
<1> SUFFICES ASSUME Inv, [Next]_vars PROVE Inv'
  OBVIOUS
<1>1. ASSUME NEW c \in Handled, Dispatch(c) PROVE Inv'
  BY <1>1, EventStep DEF Dispatch
<1>2. ASSUME NEW c \in Handled, DispatchTick(c) PROVE Inv'
  BY <1>2, EventStep DEF DispatchTick
<1>3. ASSUME NEW c \in Handled, DispatchFrom(c) PROVE Inv'
  <2>1. HoldFreeNow(c) \in BOOLEAN
    BY DEF HoldFreeNow
  <2> QED
    BY <1>3, <2>1, EventStep DEF DispatchFrom
<1>4. ASSUME NEW c \in Handled, DispatchUrgent(c) PROVE Inv'
  BY <1>4, DispatchUrgentStep
<1>5. CASE RunHead
  BY <1>5, RunStep
<1>6. ASSUME NEW j \in inflight, Settle(j) PROVE Inv'
  BY <1>6, SettleStep
<1>7. ASSUME NEW j \in inflight, ReportError(j) PROVE Inv'
  BY <1>7, ReportStep
<1>8. CASE UNCHANGED vars
  <2>1. /\ app' = app /\ queue' = queue /\ hold' = hold /\ running' = running
        /\ inflight' = inflight /\ tickNet' = tickNet /\ arrivals' = arrivals
        /\ notices' = notices /\ log' = log
    BY <1>8 DEF vars
  <2>2. Waiting' = Waiting /\ Ran' = Ran
    BY <2>1 DEF Waiting, Ran
  <2>3. TypeOK' /\ QueueInv' /\ OrderInv'
    BY <2>1, AppKept DEF Inv, TypeOK, QueueInv, OrderInv
  <2>4. KeyInv' /\ JobInv' /\ HoldInv'
    BY <2>1, <2>2 DEF Inv, KeyInv, FollowInv, JobInv, HoldInv
  <2>5. DrainInv' /\ CountInv'
    BY <2>1 DEF Inv, DrainInv, CountInv, TickBusyExact
  <2> QED
    BY <2>3, <2>4, <2>5 DEF Inv
<1>9. ASSUME NEW c \in Handled, DeliverFragment(c) PROVE Inv'
  BY <1>9, FragmentStep
<1> QED
  BY <1>1, <1>2, <1>3, <1>4, <1>5, <1>6, <1>7, <1>8, <1>9 DEF Next

LEMMA AlwaysInv == Spec => []Inv
BY InvInit, InvStep, PTL DEF Spec

-----------------------------------------------------------------------------
\* WHAT THE INVARIANT GIVES

\* A key that ran or waits does so once, any other never.
LEMMA OccursOnce ==
    ASSUME Inv, NEW k \in Keys, k # NoKey
    PROVE  Occurrences(k) = IF k \in Ran \cup Waiting THEN 1 ELSE 0
<1> DEFINE L == {i \in DOMAIN log : log[i].key = k}
           Q == {i \in DOMAIN queue : queue[i].key = k}
<1>0. TypeOK /\ QueueInv /\ KeyInv /\ OrderInv
  BY DEF Inv
<1>1. /\ log \in Seq(Run) /\ DOMAIN log = 1 .. Len(log) /\ Len(log) \in Nat
      /\ queue \in Seq(Msg) /\ DOMAIN queue = 1 .. Len(queue) /\ Len(queue) \in Nat
      /\ \A i \in DOMAIN queue : queue[i] \in Msg /\ queue[i] \in Elems(queue)
  BY <1>0, LenProperties, ElementOfSeq DEF TypeOK, Elems
<1>2. \A i, j \in L : i = j
  <2>1. ASSUME NEW i \in L, NEW j \in L, i < j PROVE FALSE
    <3>1. <<log[i], log[j]>> \in LogFitSet
      BY <2>1, <1>0 DEF OrderInv, Pairwise
    <3>2. LogFits(log[i], log[j])
      BY <3>1 DEF LogFitSet
    <3> QED
      BY <3>2 DEF LogFits
  <2> QED
    BY <2>1, <1>1
<1>3. \A i, j \in Q : i = j
  <2>1. ASSUME NEW i \in Q, NEW j \in Q, i < j PROVE FALSE
    <3>1. Fits(queue[i], queue[j])
      BY <2>1, <1>0 DEF QueueInv, Pairwise, FitSet
    <3>2. Ordered(queue[i]) /\ Ordered(queue[j])
      BY <1>0, <1>1 DEF QueueInv, Sound
    <3> QED
      BY <3>1, <3>2, LessDiffers DEF Fits
  <2> QED
    BY <2>1, <1>1
<1>4. (k \in Ran <=> L # {}) /\ (k \in Waiting <=> Q # {})
  BY DEF Ran, Waiting, Elems
<1>5. Occurrences(k) = Cardinality(L) + Cardinality(Q)
  BY DEF Occurrences
<1> HIDE DEF L, Q
<1>6. Cardinality(L) = IF k \in Ran THEN 1 ELSE 0
  <2>1. CASE L = {}
    BY <2>1, <1>4, FS_EmptySet
  <2>2. CASE L # {}
    <3>1. PICK i \in L : L = {i}
      BY <2>2, <1>2
    <3> QED
      BY <2>2, <3>1, <1>4, FS_Singleton
  <2> QED
    BY <2>1, <2>2
<1>7. Cardinality(Q) = IF k \in Waiting THEN 1 ELSE 0
  <2>1. CASE Q = {}
    BY <2>1, <1>4, FS_EmptySet
  <2>2. CASE Q # {}
    <3>1. PICK i \in Q : Q = {i}
      BY <2>2, <1>3
    <3> QED
      BY <2>2, <3>1, <1>4, FS_Singleton
  <2> QED
    BY <2>1, <2>2
<1>8. ~(k \in Ran /\ k \in Waiting)
  BY <1>0 DEF KeyInv
<1> QED
  BY <1>5, <1>6, <1>7, <1>8

LEMMA InvMeans ==
    Inv => /\ TypeOK /\ TickBusyExact /\ NothingStranded
           /\ OvertakersCommute /\ EveryMsgOnce
<1> SUFFICES ASSUME Inv
             PROVE  /\ TypeOK /\ TickBusyExact /\ NothingStranded
                    /\ OvertakersCommute /\ EveryMsgOnce
  OBVIOUS
<1>0. TypeOK /\ QueueInv /\ KeyInv /\ JobInv /\ HoldInv /\ OrderInv /\ DrainInv /\ CountInv
  BY DEF Inv
<1>1. TickBusyExact
  BY <1>0 DEF CountInv
<1>2. NothingStranded
  BY <1>0 DEF NothingStranded, DrainInv, Runnable, HoldInv
<1>3. OvertakersCommute
  <2> SUFFICES ASSUME NEW j \in DOMAIN log, NEW i \in 1 .. j - 1,
                      Before(log[j].key, log[i].key), ~log[i].around
               PROVE  log[i].quiet /\ ~Clash(log[i], log[j])
    BY DEF OvertakersCommute
  <2>1. i \in DOMAIN log /\ i < j
    BY <1>0, LenProperties DEF TypeOK
  <2>2. log[i].key \in Keys /\ log[j].key \in Keys
    <3>1. log[i] \in Elems(log) /\ log[j] \in Elems(log)
      BY <2>1 DEF Elems
    <3> QED
      BY <3>1, <1>0, KeyTypes DEF Run
  <2>3. LogFits(log[i], log[j])
    BY <2>1, <1>0 DEF OrderInv, Pairwise, LogFitSet
  <2> QED
    BY <2>2, <2>3, SeenNotBefore DEF LogFits, Shows
<1>4. EveryMsgOnce
  <2>1. ASSUME NEW n \in 1 .. arrivals PROVE Occurrences(<<n>>) = 1
    <3>1. n \in Nat /\ <<n>> \in Ran \cup Waiting
      BY <1>0 DEF KeyInv, TypeOK
    <3>2. <<n>> \in Keys /\ <<n>> # NoKey
      BY <3>1, OneKey
    <3> QED
      BY <3>1, <3>2, OccursOnce
  <2>2. ASSUME NEW i \in DOMAIN log, log[i].holds
        PROVE  Occurrences(log[i].key \o <<0>>)
                  = IF \E j \in inflight : j.key = log[i].key THEN 0 ELSE 1
    <3> DEFINE r == log[i]
               k == Child(r.key, 0)
    <3>1. r \in Elems(log) /\ r.key \in Ran /\ r.key # NoKey
      BY <1>0 DEF Elems, Ran, KeyInv
    <3>2. r.key \in Keys
      BY <3>1, <1>0, KeyTypes
    <3>3. k \in Keys /\ k # NoKey
      BY <3>2, ChildKey, ChildNotNoKey
    <3>4. Occurrences(k) = IF k \in Ran \cup Waiting THEN 1 ELSE 0
      BY <3>3, OccursOnce
    <3>5. (\E j \in inflight : j.key = r.key) => k \notin Ran \cup Waiting
      BY <1>0 DEF JobInv
    <3>6. ~(\E j \in inflight : j.key = r.key) => k \in Ran \cup Waiting
      BY <3>1, <2>2, <1>0 DEF HoldInv
    <3> QED
      BY <3>4, <3>5, <3>6 DEF Child
  <2>3. ASSUME NEW i \in DOMAIN log, NEW n \in 1 .. log[i].follows
        PROVE  Occurrences(log[i].key \o <<n>>) = 1
    <3> DEFINE r == log[i]
               k == Child(r.key, n)
    <3>1. r \in Elems(log) /\ r.key \in Ran /\ n \in Nat
      BY DEF Elems, Ran
    <3>2. r.key \in Keys
      BY <3>1, <1>0, KeyTypes
    <3>3. k \in Keys /\ k # NoKey
      BY <3>1, <3>2, ChildKey, ChildNotNoKey
    <3>4. k \in Ran \cup Waiting
      BY <3>1, <2>3, <1>0 DEF KeyInv, FollowInv
    <3> QED
      BY <3>3, <3>4, OccursOnce DEF Child
  <2> QED
    BY <2>1, <2>2, <2>3 DEF EveryMsgOnce
<1> QED
  BY <1>0, <1>1, <1>2, <1>3, <1>4

\* The scheduler's state keeps its type.
THEOREM Typed == Spec => []TypeOK
BY AlwaysInv, InvMeans, PTL

\* Whatever ran before a step that Sky.Live runs first started no command and
\* commutes with it, unless spaDeliverFragment ran it around the queue: for what
\* the queue holds, the table of hold_free_pairs and the test of holdFreeNow are
\* enough, for every app and every schedule (spa_rpcqueue.go).
THEOREM OvertakingIsInvisible == Spec => []OvertakersCommute
BY AlwaysInv, InvMeans, PTL

\* No Msg that arrived is lost or run twice, a hold has exactly one result, and
\* every follow-up that a result carried has run or waits, once: settle, drain
\* and dispatchFirst neither drop nor repeat a step (spa_rpcqueue.go).
THEOREM RunsOnce == Spec => []EveryMsgOnce
BY AlwaysInv, InvMeans, PTL

\* When drain is not running, what waits is behind a hold in flight.
THEOREM NoneStranded == Spec => []NothingStranded
BY AlwaysInv, InvMeans, PTL

\* tickNet counts the unsettled requests of the interval's ticks.
THEOREM TickGateExact == Spec => []TickBusyExact
BY AlwaysInv, InvMeans, PTL

=============================================================================
