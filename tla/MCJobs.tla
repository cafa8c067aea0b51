------------------------------- MODULE MCJobs -------------------------------
(***************************************************************************)
(* A small instance of Jobs: a rolling deploy in which one worker lacks    *)
(* the handler of the second job.                                          *)
(***************************************************************************)
EXTENDS Jobs

MCHandled == [w \in Workers |-> IF w = "old" THEN {"j1"} ELSE JobIds]
=============================================================================
