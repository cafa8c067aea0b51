----------------------------- MODULE MCDurable -----------------------------
(***************************************************************************)
(* Small instances of Durable: the bodies, definitions and poll policies   *)
(* that the .cfg files give to its constants.                              *)
(***************************************************************************)
EXTENDS Durable

step(k) == [kind |-> "step", id |-> k, ms |-> 0]
sleep(k, d) == [kind |-> "sleep", id |-> k, ms |-> d]
await(n) == [kind |-> "await", id |-> n, ms |-> 0]

\* reserve, wait for the payment, finalise: the checkout of the module's doc.
MCCheckout == [r \in Runs |-> <<step("reserve"), await("settled"), step("finalise")>>]

MCAllV1 == [r \in Runs |-> [name |-> "checkout", version |-> "1"]]
MCWorkersV1 == [w \in Workers |-> {[name |-> "checkout", version |-> "1"]}]
MCFailSafe == [w \in Workers |-> "FailSafe"]

\* A mail, a pause, another mail.
MCOnboarding == [r \in Runs |-> <<step("welcome"), sleep("nap", 1), step("followup")>>]

\* A sleep followed by a wait; a wait alone; one step.
MCSleepThenAwait == [r \in Runs |-> <<sleep("nap", 2), await("settled")>>]
MCAwait == [r \in Runs |-> <<await("settled")>>]
MCOneStep == [r \in Runs |-> <<step("charge")>>]

\* A rolling deploy: r1 was started under version 1, r2 under version 2, r3 is
\* of a workflow nobody registers, r4 was started before there were versions;
\* each worker has the code of one version.
MCDeploy == [r \in Runs |-> CASE r = "r1" -> [name |-> "checkout", version |-> "1"]
                              [] r = "r2" -> [name |-> "checkout", version |-> "2"]
                              [] r = "r4" -> [name |-> "checkout", version |-> ""]
                              [] OTHER -> [name |-> "refund", version |-> "1"]]
MCOldAndNew == [w \in Workers |->
    IF w = "old" THEN {[name |-> "checkout", version |-> "1"]}
    ELSE {[name |-> "checkout", version |-> "2"]}]
MCPinToStart == [w \in Workers |-> "PinToStart"]
MCMixed == [w \in Workers |-> IF w = "old" THEN "PinToStart" ELSE "FailSafe"]

=============================================================================
