---------------------------- MODULE JobContract ----------------------------
(***************************************************************************)
(* What a durable job queue promises, with no workers, leases or tables: a *)
(* submitted job waits until it has been handled successfully at least     *)
(* once, has failed MaxAttempts times, or is withdrawn; then it has left   *)
(* for good, and nothing that happens later changes how.                   *)
(***************************************************************************)
EXTENDS Naturals

CONSTANTS
    JobIds,       \* the jobs that may be submitted
    MaxAttempts,  \* failures after which a job may be given up
    Known         \* the jobs that every worker has a handler for

VARIABLES
    status,       \* job -> where it stands
    succeeded,    \* the jobs a handler has returned success for
    failures      \* job -> failures of its handler, up to MaxAttempts

contractVars == <<status, succeeded, failures>>

Settled == {"done", "dead", "cancelled"}

Init ==
    /\ status = [j \in JobIds |-> "unknown"]
    /\ succeeded = {}
    /\ failures = [j \in JobIds |-> 0]

Submit(j) ==
    /\ status[j] = "unknown"
    /\ status' = [status EXCEPT ![j] = "waiting"]
    /\ UNCHANGED <<succeeded, failures>>

\* A job may be delivered more than once, and still to a slow worker after it
\* has left; it is never delivered before it is submitted.
Succeed(j) ==
    /\ status[j] # "unknown"
    /\ succeeded' = succeeded \cup {j}
    /\ UNCHANGED <<status, failures>>

Fail(j) ==
    /\ status[j] # "unknown"
    /\ failures' = [failures EXCEPT ![j] = IF @ < MaxAttempts THEN @ + 1 ELSE @]
    /\ UNCHANGED <<status, succeeded>>

Leave(j, how) ==
    /\ status[j] = "waiting"
    /\ how = "done" => j \in succeeded
    /\ how = "dead" => failures[j] >= MaxAttempts \/ j \notin Known
    /\ status' = [status EXCEPT ![j] = how]
    /\ UNCHANGED <<succeeded, failures>>

Next == \E j \in JobIds :
    \/ Submit(j) \/ Succeed(j) \/ Fail(j)
    \/ \E how \in Settled : Leave(j, how)

Spec == Init /\ [][Next]_contractVars
=============================================================================
