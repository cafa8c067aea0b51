----------------------------- MODULE MCSpaSched -----------------------------
(***************************************************************************)
(* Apps with a hold branch H, its client follow-up F, a form input C and a *)
(* polling async branch A, over two model fields.                          *)
(***************************************************************************)
EXTENDS SpaSched

ArmOf(c, server, rw) ==
    [ctor |-> c, server |-> server, known |-> TRUE, reads |-> rw[1], writes |-> rw[2]]

\* An app by what its arms H, F, C and its subscriptions read and write.
AppOf(hw, f, c, subs) ==
    [arms |-> {ArmOf("H", TRUE, <<{}, hw>>), ArmOf("F", FALSE, f), ArmOf("C", FALSE, c)},
     wholeUpdate |-> FALSE, guard |-> FALSE, rpcError |-> FALSE, internal |-> {},
     conts |-> [k \in Ctors |-> [known |-> TRUE, to |-> IF k = "H" THEN {"F"} ELSE {}]],
     quiet |-> {"C", "F"},
     subs |-> [known |-> TRUE, reads |-> subs]]

X == CHOOSE x \in Fields : TRUE
Y == CHOOSE y \in Fields : y # X

\* H, C and F read and write at most one field each, subscriptions any; that
\* F touches X and not Y is a choice of names.
AtMostOne == {{}, {X}, {Y}}
Plain == {AppOf(hw, f, c, subs) :
            hw \in AtMostOne, f \in (SUBSET {X}) \X (SUBSET {X}),
            c \in AtMostOne \X AtMostOne, subs \in SUBSET Fields}

\* C commutes with H and F; subscriptions reads what C writes.
Free == AppOf({X}, <<{X}, {X}>>, <<{Y}, {Y}>>, {Y})

\* Apps the analysis must refuse, one for each reason.
Refused ==
    LET arm(c) == CHOOSE a \in Free.arms : a.ctor = c
        without(c) == {a \in Free.arms : a.ctor # c}
    IN  {[Free EXCEPT !.guard = TRUE], [Free EXCEPT !.rpcError = TRUE],
         [Free EXCEPT !.wholeUpdate = TRUE],
         [Free EXCEPT !.subs.known = FALSE], [Free EXCEPT !.conts["H"].known = FALSE],
         [Free EXCEPT !.quiet = {}],
         [Free EXCEPT !.arms = without("C") \cup {[arm("C") EXCEPT !.ctor = "_"]}],
         [Free EXCEPT !.arms = without("C") \cup {[arm("C") EXCEPT !.known = FALSE]}],
         [Free EXCEPT !.arms = without("F") \cup {[arm("F") EXCEPT !.known = FALSE]}],
         [Free EXCEPT !.arms = without("F") \cup {[arm("F") EXCEPT !.server = TRUE]}],
         [Free EXCEPT !.arms = @ \cup {[arm("C") EXCEPT !.server = TRUE, !.reads = {X}]}]}

\* With a follow-up that stays on the server, a poll, and a second hold that C does not commute with.
Internal == [Free EXCEPT !.internal = {"F"}]
Polling == [Free EXCEPT !.arms = @ \cup {ArmOf("A", TRUE, <<{Y}, {X}>>)}]
TwoHolds == [Free EXCEPT !.arms = @ \cup {ArmOf("G", TRUE, <<{}, {Y}>>)}]

MCReports == Plain \cup Refused \cup {Internal, Polling, TwoHolds}

=============================================================================
