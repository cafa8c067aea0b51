------------------------------ MODULE HoldFree ------------------------------
(***************************************************************************)
(* The auto-split's hold-free table: which input Msgs of a Sky.Spa app may *)
(* run on the client while a given server branch is in flight              *)
(* (head_sets and hold_free_pairs, rust/crates/project/src/                *)
(* spa_partition.rs).  A report is what the partition analysis knows of    *)
(* the app: the arms of `update` with the model fields they read and       *)
(* write, and the facts about commands and subscriptions.                  *)
(***************************************************************************)
EXTENDS Naturals, FiniteSets

CONSTANTS
    Fields,   \* fields of the app's model
    Ctors     \* Msg constructors

\* known: the arm's sets could be read and do not cover the whole model.
Arm == [ctor : Ctors \cup {"_"}, server : BOOLEAN, known : BOOLEAN,
        reads : SUBSET Fields, writes : SUBSET Fields]

Report == [arms : SUBSET Arm,
           wholeUpdate : BOOLEAN,         \* update is one server branch
           guard : BOOLEAN,               \* App.withGuard
           rpcError : BOOLEAN,            \* App.withRpcError
           internal : SUBSET Ctors,       \* server_internal
           conts : [Ctors -> [known : BOOLEAN, to : SUBSET Ctors]],
           quiet : SUBSET Ctors,
           subs : [known : BOOLEAN, reads : SUBSET Fields]]

\* A catch-all arm answers for constructors the table cannot name.
HeadsReadable(report) ==
    ~report.wholeUpdate /\ \A a \in report.arms : a.ctor # "_"

Heads(report) == {a.ctor : a \in report.arms}

\* head_sets: one constructor, over all its arms.
HeadSets(report, c) ==
    LET arms == {a \in report.arms : a.ctor = c}
    IN  [known |-> arms # {} /\ \A a \in arms : a.known,
         server |-> \E a \in arms : a.server,
         reads |-> UNION {a.reads : a \in arms},
         writes |-> UNION {a.writes : a \in arms}]

\* The follow-ups of h that run on the client.
FollowUps(report, h) == report.conts[h].to \ report.internal

\* h is a server branch whose result and follow-ups can be read.
ReadableHold(report, h) ==
    /\ HeadSets(report, h).known
    /\ HeadSets(report, h).server
    /\ report.conts[h].known
    /\ \A f \in FollowUps(report, h) :
          HeadSets(report, f).known /\ ~HeadSets(report, f).server

\* The fields that the result and the follow-ups of h write, and the fields
\* that the follow-ups read.
WritesAfter(report, h) ==
    HeadSets(report, h).writes
        \cup UNION {HeadSets(report, f).writes : f \in FollowUps(report, h)}
ReadsAfter(report, h) == UNION {HeadSets(report, f).reads : f \in FollowUps(report, h)}

Meet(A, B) == A \cap B # {}

SubsClashNever(report, h, c) == FALSE

\* subscriptions would see a write of c without the writes of h.
SubsClash(report, h, c) ==
    /\ Meet(report.subs.reads, WritesAfter(report, h))
    /\ Meet(report.subs.reads, HeadSets(report, c).writes)

\* c is client code without a command that commutes with all of h.
Commutes(report, h, c) ==
    LET cs == HeadSets(report, c)
    IN  /\ cs.known /\ ~cs.server
        /\ c # h /\ c \notin report.internal /\ c \in report.quiet
        /\ ~Meet(cs.writes, WritesAfter(report, h) \cup ReadsAfter(report, h))
        /\ ~Meet(cs.reads, WritesAfter(report, h))
        /\ ~SubsClash(report, h, c)

HoldFreePairs(report) ==
    {hc \in Heads(report) \X Heads(report) :
        /\ ~report.guard /\ ~report.rpcError /\ report.subs.known
        /\ HeadsReadable(report)
        /\ ReadableHold(report, hc[1])
        /\ Commutes(report, hc[1], hc[2])}

=============================================================================
