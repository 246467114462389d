---------------------------- MODULE DurableJobs ----------------------------
(***************************************************************************)
(* Long-lived jobs (durable_jobs.go): operators create, edit and steer     *)
(* them, a reconciler makes them due and ends expired leases, and a single *)
(* worker claims, runs and finishes them while a heartbeat extends its     *)
(* lease.  Each execution is also a synthetic row of agent_runs, which the *)
(* recovery of the message runtime sees.  Each transaction is one action;  *)
(* time is kept in countdown timers.                                       *)
(***************************************************************************)
EXTENDS Integers, FiniteSets

CONSTANTS
  Jobs,
  Goals,        \* what a job may be asked to do
  Risky,        \* the goals with a high-risk word in them
  Periodic,     \* the goals with a schedule in them
  Priority,     \* job -> priority
  MaxAttempts,  \* max_attempts of every job
  AttemptCap,   \* bound: claims of one job, whatever their reason
  LeaseTime,    \* duration of a lease
  FirstRuns,    \* what may be left until a requested next_run_at
  Interval,     \* time between the rounds of a recurring job
  Backoff       \* attempt -> wait before its retry

ASSUME JobsAssumption ==
  /\ Risky \subseteq Goals /\ Periodic \subseteq Goals
  /\ Priority \in [Jobs -> Int]
  /\ MaxAttempts \in Nat \ {0} /\ AttemptCap \in Nat
  /\ LeaseTime \in Nat \ {0}
  /\ FirstRuns \subseteq Nat /\ Interval \in Nat
  /\ Backoff \in [1..AttemptCap -> Nat]

NoJob == "none"
NoGoal == "none"
NoTime == -1

ASSUME NamesAssumption == NoJob \notin Jobs /\ NoGoal \notin Goals

JobStatus == {"absent", "planned", "queued", "leased", "running",
              "waiting_approval", "paused", "retrying", "succeeded",
              "cancelled", "dead_letter", "unknown_manual"}

Times == Nat \cup {NoTime}
Attempts == 1..AttemptCap

JobRecord == [status : JobStatus, goal : Goals \cup {NoGoal}, approval : BOOLEAN,
              recurring : BOOLEAN, due : Times, attempts : 0..AttemptCap,
              lease : Nat, owned : BOOLEAN, approved : BOOLEAN]

NoWork == [phase |-> "idle", job |-> NoJob, attempt |-> 0, goal |-> NoGoal, recurring |-> FALSE]

WorkRecord == [phase : {"claimed", "started", "executing", "closing"}, job : Jobs,
               attempt : Attempts, goal : Goals, recurring : BOOLEAN]

VARIABLES
  jobs,   \* durable_jobs; approved is read off the events of the job: there is
          \* an approval of its present goal
  worker, \* what the worker goroutine holds, as it read it when it claimed
  runs,   \* the synthetic agent_runs row of each job and attempt
  shown   \* how often each attempt was executed

vars == <<jobs, worker, runs, shown>>

\* rerun is a row that an ordinary worker runs once more.
RunStatus == {"none", "running", "queued", "rerun", "closed"}

\* The tables have their shape: jobs that exist have a goal, and just those in
\* the hands of the worker an owner.
TypeOK ==
  /\ jobs \in [Jobs -> JobRecord]
  /\ worker \in WorkRecord \cup {NoWork}
  /\ runs \in [Jobs -> [Attempts -> RunStatus]]
  /\ shown \in [Jobs -> [Attempts -> 0..2]]
  /\ \A j \in Jobs : /\ jobs[j].status # "absent" => jobs[j].goal \in Goals
                     /\ jobs[j].owned <=> jobs[j].status \in {"leased", "running"}

Init ==
  /\ jobs = [j \in Jobs |->
       [status |-> "absent", goal |-> NoGoal, approval |-> FALSE, recurring |-> FALSE,
        due |-> NoTime, attempts |-> 0, lease |-> 0, owned |-> FALSE,
        approved |-> FALSE]]
  /\ worker = NoWork
  /\ runs = [j \in Jobs |-> [a \in Attempts |-> "none"]]
  /\ shown = [j \in Jobs |-> [a \in Attempts |-> 0]]

-----------------------------------------------------------------------------
(* Operators.                                                              *)

\* lease_owner, lease_expires_at and heartbeat_at go together.
Released(job, status) == [job EXCEPT !.status = status, !.owned = FALSE, !.lease = 0]

Planned(job, goal, approval, recurring, startNow, due) ==
  [job EXCEPT !.goal = goal, !.approval = approval, !.recurring = recurring, !.due = due,
     !.status = IF approval THEN "waiting_approval"
                ELSE IF startNow /\ due = NoTime THEN "queued" ELSE "planned"]

\* A high-risk goal needs approval whether or not the caller asked for it.
CreateJob(j, goal, asked, recurring, startNow, due) ==
  /\ jobs[j].status = "absent"
  /\ jobs' = [jobs EXCEPT ![j] =
       Planned(@, goal, asked \/ goal \in Risky, recurring, startNow, due)]
  /\ UNCHANGED <<worker, runs, shown>>

RegoaledKeepingGate(job, goal) ==
  [Released(job, IF job.approval THEN "waiting_approval" ELSE "queued")
     EXCEPT !.goal = goal, !.recurring = goal \in Periodic,
            !.due = NoTime, !.approved = FALSE]
RegoaledInPlace(job, goal) ==
  [job EXCEPT !.goal = goal, !.approval = goal \in Risky, !.recurring = goal \in Periodic,
     !.due = NoTime, !.approved = FALSE,
     !.status = IF goal \in Risky THEN "waiting_approval"
                ELSE IF job.status = "running" THEN "running" ELSE "queued"]
\* A new goal is approved anew and queued at once; attempts go on counting.
Regoaled(job, goal) ==
  [Released(job, IF goal \in Risky THEN "waiting_approval" ELSE "queued")
     EXCEPT !.goal = goal, !.approval = goal \in Risky, !.recurring = goal \in Periodic,
            !.due = NoTime, !.approved = FALSE]

UpdateGoal(j, goal) ==
  /\ jobs[j].status \notin {"absent", "succeeded", "cancelled", "dead_letter"}
  /\ jobs' = [jobs EXCEPT ![j] = Regoaled(@, goal)]
  /\ UNCHANGED <<worker, runs, shown>>

Target == [pause |-> "paused", resume |-> "queued", cancel |-> "cancelled",
           retry |-> "retrying", approve |-> "queued"]

\* durableJobTransitionAllowed, for the statuses the code reaches and the
\* targets an operator can ask for.
TransitionAllowed(from, to) ==
  \/ from = to
  \/ from = "planned" /\ to \in {"queued", "cancelled"}
  \/ from = "queued" /\ to \in {"paused", "cancelled"}
  \/ from = "leased" /\ to \in {"queued", "paused", "cancelled"}
  \/ from = "running" /\ to = "retrying"
  \/ from \in {"waiting_approval", "paused", "retrying"} /\ to \in {"queued", "cancelled"}
  \/ from = "unknown_manual" /\ to \in {"retrying", "queued", "cancelled"}
  \/ from = "cancelled" /\ to = "retrying"

Steered(job, action) ==
  [Released(job, Target[action]) EXCEPT !.approval = @ /\ action # "approve",
                                        !.approved = @ \/ action = "approve"]

\* Only "approve" lifts the gate, and a waiting job knows no other way on.
Transition(j, action) ==
  /\ jobs[j].status # "absent"
  /\ jobs[j].status = "waiting_approval" => action \in {"approve", "cancel"}
  /\ action = "approve" => jobs[j].status = "waiting_approval"
  /\ TransitionAllowed(jobs[j].status, Target[action])
  /\ jobs' = [jobs EXCEPT ![j] = Steered(@, action)]
  /\ UNCHANGED <<worker, runs, shown>>

-----------------------------------------------------------------------------
(* The reconciler.                                                         *)

DueUnlessLeased(job) ==
  \/ job.status = "planned" /\ ~ job.approval /\ job.due = 0
  \/ job.status = "retrying" /\ job.due \in {0, NoTime}
  \/ job.status = "running" /\ job.lease = 0
\* The rows of its SELECT.
Due(job) ==
  \/ job.status = "planned" /\ ~ job.approval /\ job.due = 0
  \/ job.status = "retrying" /\ job.due \in {0, NoTime}
  \/ job.status \in {"leased", "running"} /\ job.lease = 0

\* A running job whose lease expired may have had effects: a human decides.
Reconciled(job) == Released(job, IF job.status = "running" THEN "unknown_manual" ELSE "queued")

Reconcile ==
  /\ \E j \in Jobs : Due(jobs[j])
  /\ jobs' = [j \in Jobs |-> IF Due(jobs[j]) THEN Reconciled(jobs[j]) ELSE jobs[j]]
  /\ UNCHANGED <<worker, runs, shown>>

-----------------------------------------------------------------------------
(* The worker.                                                             *)

ClaimableOnTime(j) ==
  /\ jobs[j].status = "queued" /\ ~ jobs[j].approval
  /\ jobs[j].due = 0
  /\ jobs[j].attempts < AttemptCap
Claimable(j) ==
  /\ jobs[j].status = "queued" /\ ~ jobs[j].approval
  /\ jobs[j].due \in {0, NoTime}
  /\ jobs[j].attempts < AttemptCap

Leased(job) == [job EXCEPT !.status = "leased", !.owned = TRUE, !.lease = LeaseTime,
                           !.attempts = @ + 1]

\* The most urgent job that is due.  (The row is read back after the commit;
\* what happens in between makes the start fail.)
Claim(j) ==
  /\ worker.phase = "idle" /\ Claimable(j)
  /\ \A k \in Jobs : Claimable(k) => Priority[k] <= Priority[j]
  /\ jobs' = [jobs EXCEPT ![j] = Leased(@)]
  /\ worker' = [phase |-> "claimed", job |-> j, attempt |-> jobs[j].attempts + 1,
                goal |-> jobs[j].goal, recurring |-> jobs[j].recurring]
  /\ UNCHANGED <<runs, shown>>

\* The lease is still the worker's.
Holds(j, status) == jobs[j].status = status /\ jobs[j].owned

Running(job) == [job EXCEPT !.status = "running", !.lease = LeaseTime]

StartJob ==
  /\ worker.phase = "claimed"
  /\ LET j == worker.job IN
     IF Holds(j, "leased")
     THEN /\ jobs' = [jobs EXCEPT ![j] = Running(@)]
          /\ worker' = [worker EXCEPT !.phase = "started"]
     ELSE /\ worker' = NoWork
          /\ UNCHANGED jobs
  /\ UNCHANGED <<runs, shown>>

\* The synthetic run is written, and the work begins.
OpenRun ==
  /\ worker.phase = "started"
  /\ runs[worker.job][worker.attempt] = "none"
  /\ runs' = [runs EXCEPT ![worker.job][worker.attempt] = "running"]
  /\ shown' = [shown EXCEPT ![worker.job][worker.attempt] = 1]
  /\ worker' = [worker EXCEPT !.phase = "executing"]
  /\ UNCHANGED jobs

Heartbeat ==
  /\ worker.phase = "executing" /\ Holds(worker.job, "running")
  /\ jobs' = [jobs EXCEPT ![worker.job].lease = LeaseTime]
  /\ UNCHANGED <<worker, runs, shown>>

\* Status of a job after an attempt of it, from the record the worker read.
Verdict(outcome) ==
  CASE outcome = "success" -> IF worker.recurring THEN "planned" ELSE "succeeded"
    [] outcome = "uncertain" -> "unknown_manual"
    [] outcome = "failure" -> IF worker.attempt >= MaxAttempts THEN "dead_letter" ELSE "retrying"

Finished(job, outcome) ==
  LET status == Verdict(outcome) IN
  [Released(job, status) EXCEPT
     !.due = CASE status = "planned" -> Interval
               [] status = "retrying" -> Backoff[worker.attempt]
               [] OTHER -> NoTime]

\* A job that is no longer running keeps its state, and the synthetic run its.
Settle(outcome) ==
  IF Holds(worker.job, "running")
  THEN /\ jobs' = [jobs EXCEPT ![worker.job] = Finished(@, outcome)]
       /\ worker' = IF worker.phase = "executing" THEN [worker EXCEPT !.phase = "closing"]
                    ELSE NoWork
  ELSE worker' = NoWork /\ UNCHANGED jobs

\* The work is over, or its run could not be written.
FinishJob(outcome) ==
  /\ worker.phase = "executing" \/ (worker.phase = "started" /\ outcome = "failure")
  /\ Settle(outcome)
  /\ UNCHANGED <<runs, shown>>

\* A second transaction closes the synthetic run.
CloseRun ==
  /\ worker.phase = "closing"
  /\ runs' = [runs EXCEPT ![worker.job][worker.attempt] = "closed"]
  /\ worker' = NoWork
  /\ UNCHANGED <<jobs, shown>>

\* A transaction of the worker fails: it logs and takes the next job.
LoseJob ==
  /\ worker.phase # "idle"
  /\ worker' = NoWork
  /\ UNCHANGED <<jobs, runs, shown>>

-----------------------------------------------------------------------------
(* The message runtime, which sees the synthetic runs.                     *)

\* The process stops and comes back: interrupted runs are queued again.
Restart ==
  /\ worker' = NoWork
  /\ runs' = [j \in Jobs |-> [a \in Attempts |->
       IF runs[j][a] \in {"running", "rerun"} THEN "queued" ELSE runs[j][a]]]
  /\ UNCHANGED <<jobs, shown>>

\* An ordinary worker takes a queued row as it takes any run.
Rerun(j, a) ==
  /\ runs[j][a] = "queued"
  /\ runs' = [runs EXCEPT ![j][a] = "rerun"]
  /\ shown' = [shown EXCEPT ![j][a] = 2]
  /\ UNCHANGED <<jobs, worker>>

RerunEnds(j, a) ==
  /\ runs[j][a] = "rerun"
  /\ runs' = [runs EXCEPT ![j][a] = "closed"]
  /\ UNCHANGED <<jobs, worker, shown>>

Down(t) == IF t > 0 THEN t - 1 ELSE t
Aged(job) == [job EXCEPT !.lease = Down(@), !.due = Down(@)]

\* One unit of time passes.
Tick ==
  /\ jobs' = [j \in Jobs |-> Aged(jobs[j])]
  /\ UNCHANGED <<worker, runs, shown>>

-----------------------------------------------------------------------------
Outcomes == {"success", "failure", "uncertain"}

OperatorStep(j) ==
  \/ \E goal \in Goals, asked, recurring, startNow \in BOOLEAN,
       due \in FirstRuns \cup {NoTime} :
       CreateJob(j, goal, asked, recurring, startNow, due)
  \/ \E goal \in Goals : UpdateGoal(j, goal)
  \/ \E action \in DOMAIN Target : Transition(j, action)

WorkerStep ==
  \/ \E j \in Jobs : Claim(j)
  \/ StartJob
  \/ OpenRun
  \/ \E outcome \in Outcomes : FinishJob(outcome)
  \/ CloseRun

Next ==
  \/ \E j \in Jobs : OperatorStep(j)
  \/ WorkerStep
  \/ Heartbeat
  \/ LoseJob
  \/ Reconcile
  \/ Restart
  \/ \E j \in Jobs, a \in Attempts : Rerun(j, a) \/ RerunEnds(j, a)
  \/ Tick

Spec == Init /\ [][Next]_vars

\* The reconciler and the worker loop run on tickers, the clock goes on, and
\* an execution ends: model and tool calls have timeouts.
Fairness == WF_vars(Reconcile) /\ WF_vars(WorkerStep) /\ WF_vars(Tick)

FairSpec == Spec /\ Fairness

-----------------------------------------------------------------------------
(* Properties.                                                             *)

\* A job in the hands of the worker is one whose goal is harmless or was
\* approved after it was last set, whatever edits and transitions came between.
ApprovalGate ==
  \A j \in Jobs : jobs[j].status \in {"leased", "running"} /\ jobs[j].goal \in Risky
                    => jobs[j].approved

\* While the worker's job reads as running, it is the attempt and the goal the
\* worker holds: its heartbeat and its verdict never meet another execution,
\* although every execution writes the same lease owner.
OwnExecution ==
  worker.phase \in {"started", "executing"} /\ jobs[worker.job].status = "running" =>
    /\ jobs[worker.job].attempts = worker.attempt
    /\ jobs[worker.job].goal = worker.goal
    /\ jobs[worker.job].owned

\* The event id of a synthetic run, made of job and attempt, is never taken:
\* no edit, retry or restart lets two claims of a job share a number.
FreshAttempt ==
  worker.phase \in {"claimed", "started"} => runs[worker.job][worker.attempt] = "none"

\* Verdicts are final and come from an execution: a late worker never moves a
\* job that was taken from it, and nothing moves a job that has succeeded or
\* is dead.
VerdictsAreFinal ==
  [][\A j \in Jobs :
       /\ jobs[j].status \in {"succeeded", "dead_letter"} =>
            /\ jobs'[j].status = jobs[j].status
            /\ jobs'[j].goal = jobs[j].goal
       /\ jobs'[j].status \in {"succeeded", "dead_letter"} /\ jobs'[j].status # jobs[j].status =>
            jobs[j].status = "running" /\ worker.job = j]_vars

\* No lease outlives its worker: a job leaves leased and running, even when
\* the process stopped in the middle of it.
LeasesEnd ==
  \A j \in Jobs : jobs[j].status \in {"leased", "running"}
                    ~> jobs[j].status \notin {"leased", "running"}

\* The most urgent job that is queued and approved does not wait for ever,
\* whatever becomes of the executions before it.
UrgentJobsRun ==
  \A j \in Jobs :
    (\A k \in Jobs : Priority[k] <= Priority[j] /\ (k # j => Priority[k] < Priority[j])) =>
      (jobs[j].status = "queued" /\ ~ jobs[j].approval /\ jobs[j].attempts < AttemptCap
         ~> jobs[j].status # "queued" \/ jobs[j].approval)

\* transitionDurableJob's comment: a waiting job must not reach the queue with
\* requires_approval set, where "it would become stuck".
NoStuckJob == \A j \in Jobs : ~ (jobs[j].status = "queued" /\ jobs[j].approval)

\* The guide: an execution whose lease expired "is not blindly run again".
NoBlindRerun == \A j \in Jobs, a \in Attempts : shown[j][a] <= 1
=============================================================================
