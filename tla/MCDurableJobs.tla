--------------------------- MODULE MCDurableJobs ---------------------------
(* Small instances of DurableJobs for TLC.                                 *)
EXTENDS DurableJobs, TLC

\* Both waits of the code, doubling, are of one unit.
MCBackoff == [a \in Attempts |-> 1]

\* The first job is the more urgent one.
MCPriority == [j \in Jobs |-> IF j = "j1" THEN 200 ELSE 100]
=============================================================================
