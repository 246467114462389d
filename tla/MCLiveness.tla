----------------------------- MODULE MCLiveness -----------------------------
(***************************************************************************)
(* Small instances of the two queues that workers drain, the runs and the  *)
(* durable jobs.  As in MCServices one of them moves in a behaviour.       *)
(***************************************************************************)
EXTENDS RunQueue, DurableJobs

VARIABLE moving

\* All messages are of one conversation.
MCConvOf == [r \in QueuedRuns |-> "c"]

\* Both waits of a job, doubling, are of one unit, and the first is the more
\* urgent job.
MCBackoff == [a \in Attempts |-> 1]
MCPriority == [j \in Jobs |-> IF j = "j1" THEN 200 ELSE 100]

LivenessInit == moving \in {"queue", "jobs"} /\ QueueInit /\ Init

\* Nobody pauses, cancels or gates the less urgent job: it is there to be in
\* the way of the other one.
LessUrgentGoesOn == jobs'["j2"].status \notin {"paused", "cancelled", "waiting_approval"}

LivenessNext ==
  \/ moving = "queue" /\ QueueNext /\ UNCHANGED <<moving, vars>>
  \/ moving = "jobs" /\ Next /\ LessUrgentGoesOn /\ UNCHANGED <<moving, queueVars>>

livenessVars == <<moving, queueVars, vars>>

\* What does not move has nothing to do: no action of it is enabled.
LivenessSpec ==
  /\ LivenessInit /\ [][LivenessNext]_livenessVars
  /\ QueueFairness /\ Fairness
=============================================================================
