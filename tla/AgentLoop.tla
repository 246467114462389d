------------------------------ MODULE AgentLoop -------------------------------
(***************************************************************************)
(* How a run is generated (runAgentLoopWithTargets): model steps that plan *)
(* tool calls and tools that are executed, each with a row of              *)
(* agent_task_steps, so that a run that was interrupted can be taken up    *)
(* again from the plans and the receipts it left.  One worker holds a run  *)
(* (OneWorkerPerRun of Outbox), which is what the claim of the loop says   *)
(* too; paid media tools resume from checkpoints of their own (MediaTask). *)
(***************************************************************************)
EXTENDS Integers, Sequences, SequencesExt, FiniteSets

CONSTANTS
  Tools,       \* tools the model may call
  Results,     \* what a tool may answer
  Failing,     \* results with ok = false
  Final,       \* results that are a reply to the member by themselves
  Settings,    \* what a plan may depend on, records [contract, endpoint]
  MaxSteps,    \* MaxAgentSteps
  MaxCalls,    \* bound: tools called by one plan
  MaxTroubles  \* bound: restarts, lost writes, cancels, retries, changes

ASSUME AgentAssumption ==
  /\ Failing \subseteq Results /\ Final \subseteq Results \ Failing
  /\ MaxSteps \in Nat \ {0} /\ MaxCalls \in Nat \ {0} /\ MaxTroubles \in Nat

VARIABLES
  task,      \* state and error code of the run
  plans,     \* its model steps: status, settings and history of the request,
             \* and the plan that came back
  receipts,  \* its tool steps, one for each call of each plan
  loop,      \* the worker: where it is, the step and the call, the settings
             \* it began with, the history, the results of the present plan
  promised,  \* whether the progress row is queued
  settings,  \* what the configuration says now
  effects,   \* how often a tool was executed for each call
  causes,    \* what may spoil a plan: settings changed, a tool failed
  troubles

agentVars == <<task, plans, receipts, loop, promised, settings, effects, causes, troubles>>

StepIds == 1..MaxSteps
CallIds == StepIds \X (1..MaxCalls)

\* The tools a completion calls; none, and its text is the reply.
Plans == BoundedSeq(Tools, MaxCalls)

NoSettings == [contract |-> 0, endpoint |-> 0]

NoPlan == [status |-> "absent", set |-> NoSettings, history |-> <<>>, plan |-> <<>>]
NoReceipt == [status |-> "absent", result |-> "none"]
NoLoop == [at |-> "away", step |-> 1, set |-> NoSettings, history |-> <<>>, plan |-> <<>>,
           done |-> <<>>, result |-> "none"]

StepStatus == {"absent", "pending", "running", "succeeded", "failed", "cancelled"}

\* Rows have their shape, succeeded tools a result, and a loop is at work only
\* on a run that is running or was cancelled behind its back.
AgentTypeOK ==
  /\ task \in [state : {"queued", "running", "answered", "failed", "cancelled"},
               code : {"", "failed", "plan_unavailable", "persistence_failed"}]
  /\ plans \in [StepIds -> [status : StepStatus, set : Settings \cup {NoSettings},
                            history : Seq([plan : Plans, results : Seq(Results)]), plan : Plans]]
  /\ receipts \in [CallIds -> [status : StepStatus, result : Results \cup {"none"}]]
  /\ \A c \in CallIds : receipts[c].status = "succeeded" => receipts[c].result \in Results \ Failing
  /\ loop.at \in {"away", "prepare", "ask", "save", "act", "tools", "execute", "store"}
  /\ loop.step \in 1..(MaxSteps + 1) /\ loop.done \in Seq(Results)
  /\ loop.at # "away" => task.state \in {"running", "cancelled"}
  /\ settings \in Settings /\ promised \in BOOLEAN /\ troubles \in 0..MaxTroubles

AgentInit ==
  /\ task = [state |-> "queued", code |-> ""]
  /\ plans = [s \in StepIds |-> NoPlan]
  /\ receipts = [c \in CallIds |-> NoReceipt]
  /\ loop = NoLoop
  /\ promised = FALSE
  /\ settings \in Settings
  /\ effects = [c \in CallIds |-> 0]
  /\ causes = {}
  /\ troubles = 0

Trouble == troubles < MaxTroubles /\ troubles' = troubles + 1

-----------------------------------------------------------------------------
(* The loop.                                                               *)

LoopGoes(at) == loop' = [loop EXCEPT !.at = at]
Step == loop.step
Call == <<Step, Len(loop.done) + 1>>

\* The task was neither cancelled nor superseded, as every step checks first.
Current == task.state = "running"

\* The loop ends; the worker sends the reply or the notice of the failure.
Ends(state, code) ==
  /\ task' = [state |-> state, code |-> code]
  /\ loop' = NoLoop

BeginLoop ==
  /\ loop.at = "away" /\ task.state = "queued"
  /\ task' = [state |-> "running", code |-> ""]
  /\ loop' = [NoLoop EXCEPT !.at = "prepare", !.set = settings]
  /\ UNCHANGED <<plans, receipts, promised, settings, effects, causes, troubles>>

\* The context of a cancelled run is cancelled, and the worker goes away: a
\* request in flight reads as failed, a tool comes back first.
GiveUp ==
  /\ ~ Current /\ loop.at \notin {"away", "execute", "store"}
  /\ plans' = IF loop.at = "ask" THEN [plans EXCEPT ![Step].status = "failed"] ELSE plans
  /\ loop' = NoLoop
  /\ UNCHANGED <<task, receipts, promised, settings, effects, causes, troubles>>

UsableUnlessPending(p) ==
  /\ p.status \in {"succeeded", "failed"} /\ p.set.contract = loop.set.contract
  /\ p.status = "succeeded" => p.history = loop.history /\ p.set.endpoint = loop.set.endpoint
\* What a row of a model step must say to be used again.  A plan needs its
\* history and its endpoint besides the contract.
Usable(p) ==
  /\ p.status # "cancelled" /\ p.set.contract = loop.set.contract
  /\ p.status = "succeeded" => p.history = loop.history /\ p.set.endpoint = loop.set.endpoint

\* A saved plan is restored.
Restore ==
  /\ loop.at = "prepare" /\ Current /\ Step <= MaxSteps
  /\ plans[Step].status = "succeeded" /\ Usable(plans[Step])
  /\ loop' = [loop EXCEPT !.at = "act", !.plan = plans[Step].plan]
  /\ UNCHANGED <<task, plans, receipts, promised, settings, effects, causes, troubles>>

\* Without one the request is written down and goes out.
OpenRequest ==
  /\ loop.at = "prepare" /\ Current /\ Step <= MaxSteps
  /\ plans[Step].status # "succeeded"
  /\ plans[Step].status # "absent" => Usable(plans[Step])
  /\ plans' = [plans EXCEPT ![Step] = [NoPlan EXCEPT !.status = "running", !.set = loop.set,
                                                     !.history = loop.history]]
  /\ LoopGoes("ask")
  /\ UNCHANGED <<task, receipts, promised, settings, effects, causes, troubles>>

SameContract == settings.contract = loop.set.contract

\* errTaskModelCheckpoint, which also ends a loop whose contract has changed
\* before the plan is acted on or a tool is called.
Incompatible ==
  /\ Current
  /\ \/ /\ loop.at = "prepare" /\ Step <= MaxSteps
        /\ plans[Step].status # "absent" /\ ~ Usable(plans[Step])
     \/ loop.at = "act" /\ ~ SameContract
     \/ loop.at = "tools" /\ Len(loop.done) < Len(loop.plan) /\ ~ SameContract
  /\ Ends("failed", "plan_unavailable")
  /\ UNCHANGED <<plans, receipts, promised, settings, effects, causes, troubles>>

TooManySteps ==
  /\ loop.at = "prepare" /\ Current /\ Step > MaxSteps
  /\ Ends("failed", "failed")
  /\ UNCHANGED <<plans, receipts, promised, settings, effects, causes, troubles>>

\* The provider plans; the plan is not kept yet.
PlanArrives(plan) ==
  /\ loop.at = "ask" /\ Current
  /\ loop' = [loop EXCEPT !.at = "save", !.plan = plan]
  /\ UNCHANGED <<task, plans, receipts, promised, settings, effects, causes, troubles>>

\* All routes fail, or what comes back is empty.
NotPlanned ==
  /\ loop.at = "ask" /\ Current
  /\ plans' = [plans EXCEPT ![Step].status = "failed"]
  /\ Ends("failed", "failed")
  /\ UNCHANGED <<receipts, promised, settings, effects, causes, troubles>>

PlanTaken == [plans EXCEPT ![Step].plan = loop.plan]
PlanKept == [plans EXCEPT ![Step].plan = loop.plan, ![Step].status = "succeeded"]

\* finishTaskModelStep: the plan is saved before anything follows from it.
SavePlan ==
  /\ loop.at = "save" /\ Current
  /\ plans' = PlanKept
  /\ LoopGoes("act")
  /\ UNCHANGED <<task, receipts, promised, settings, effects, causes, troubles>>

\* A plan without tools is the reply.
Reply ==
  /\ loop.at = "act" /\ Current /\ SameContract
  /\ loop.plan = <<>>
  /\ Ends("answered", "")
  /\ UNCHANGED <<plans, receipts, promised, settings, effects, causes, troubles>>

\* Otherwise some plans are announced, once for the run, and tools are called.
Announce(says) ==
  /\ loop.at = "act" /\ Current /\ SameContract
  /\ loop.plan # <<>>
  /\ promised' = (promised \/ says)
  /\ LoopGoes("tools")
  /\ UNCHANGED <<task, plans, receipts, settings, effects, causes, troubles>>

CallsTool == loop.at = "tools" /\ Current /\ SameContract /\ Len(loop.done) < Len(loop.plan)

\* The result of a tool goes to the history, or is the reply.
TakeResult(result) ==
  IF result \in Final THEN Ends("answered", "")
  ELSE /\ loop' = [loop EXCEPT !.at = "tools", !.result = "none", !.done = Append(@, result)]
       /\ UNCHANGED task

\* Only a receipt that says succeeded is read back.
Kept(receipt) == receipt.status = "succeeded"

Reuse ==
  /\ CallsTool /\ Kept(receipts[Call])
  /\ TakeResult(receipts[Call].result)
  /\ UNCHANGED <<plans, receipts, promised, settings, effects, causes, troubles>>

OpenTool ==
  /\ CallsTool /\ ~ Kept(receipts[Call])
  /\ receipts' = [receipts EXCEPT ![Call].status = "running"]
  /\ LoopGoes("execute")
  /\ UNCHANGED <<task, plans, promised, settings, effects, causes, troubles>>

\* A cancellation does not stop a tool that has been started.
Execute(result) ==
  /\ loop.at = "execute"
  /\ effects' = [effects EXCEPT ![Call] = @ + 1]
  /\ causes' = IF result \in Failing THEN causes \cup {"tool"} ELSE causes
  /\ loop' = [loop EXCEPT !.at = "store", !.result = result]
  /\ UNCHANGED <<task, plans, receipts, promised, settings, troubles>>

StoreResult ==
  /\ loop.at = "store"
  /\ receipts' = [receipts EXCEPT ![Call] =
       [status |-> IF loop.result \in Failing THEN "failed" ELSE "succeeded", result |-> loop.result]]
  /\ IF Current THEN TakeResult(loop.result) ELSE loop' = NoLoop /\ UNCHANGED task
  /\ UNCHANGED <<plans, promised, settings, effects, causes, troubles>>

NextStep ==
  /\ loop.at = "tools" /\ Current /\ Len(loop.done) = Len(loop.plan)
  /\ loop' = [loop EXCEPT !.at = "prepare", !.step = @ + 1, !.plan = <<>>, !.done = <<>>,
                !.history = Append(@, [plan |-> loop.plan, results |-> loop.done])]
  /\ UNCHANGED <<task, plans, receipts, promised, settings, effects, causes, troubles>>

\* A row cannot be written: nothing is done that it should have recorded, and
\* the run fails.  (The failure of a request need not be recorded.)
StepWriteFails ==
  /\ \/ loop.at = "prepare" /\ Step <= MaxSteps /\ plans[Step].status # "succeeded"
     \/ loop.at \in {"ask", "save", "store"}
     \/ loop.at = "act" /\ loop.plan # <<>>
     \/ CallsTool /\ ~ Kept(receipts[Call])
  /\ Trouble
  /\ IF Current THEN Ends("failed", IF loop.at \in {"ask", "act", "prepare"} THEN "failed"
                                    ELSE "persistence_failed")
     ELSE loop' = NoLoop /\ UNCHANGED task
  /\ UNCHANGED <<plans, receipts, promised, settings, effects, causes>>

-----------------------------------------------------------------------------
(* What happens to the run meanwhile.                                      *)

\* The process stops and comes back.
RestartLoop ==
  /\ (task.state = "running" \/ loop.at # "away") /\ Trouble
  /\ task' = IF Current THEN [task EXCEPT !.state = "queued"] ELSE task
  /\ plans' = [s \in StepIds |-> IF plans[s].status = "running"
                                 THEN [plans[s] EXCEPT !.status = "pending"] ELSE plans[s]]
  /\ receipts' = [c \in CallIds |-> IF receipts[c].status = "running"
                                  THEN [receipts[c] EXCEPT !.status = "pending"] ELSE receipts[c]]
  /\ loop' = NoLoop
  /\ UNCHANGED <<promised, settings, effects, causes>>

CancelTask ==
  /\ task.state \in {"queued", "running"} /\ Trouble
  /\ task' = [task EXCEPT !.state = "cancelled"]
  /\ plans' = [s \in StepIds |-> IF plans[s].status \in {"pending", "running"}
                                 THEN [plans[s] EXCEPT !.status = "cancelled"] ELSE plans[s]]
  /\ receipts' = [c \in CallIds |-> IF receipts[c].status \in {"pending", "running"}
                                  THEN [receipts[c] EXCEPT !.status = "cancelled"] ELSE receipts[c]]
  /\ UNCHANGED <<loop, promised, settings, effects, causes>>

ResetAll(row) == row.status # "absent"
\* What retryTask takes back: every step that has not succeeded.
Reset(row) == row.status \notin {"absent", "succeeded"}

\* A failed task whose input is there, or was put back by "continue".
RetryLoop ==
  /\ task.state = "failed" /\ Trouble
  /\ task' = [state |-> "queued", code |-> ""]
  /\ plans' = [s \in StepIds |-> IF Reset(plans[s])
                                 THEN [plans[s] EXCEPT !.status = "pending", !.plan = <<>>] ELSE plans[s]]
  /\ receipts' = [c \in CallIds |-> IF Reset(receipts[c])
                                  THEN [NoReceipt EXCEPT !.status = "pending"] ELSE receipts[c]]
  /\ UNCHANGED <<loop, promised, settings, effects, causes>>

ChangeSettings ==
  /\ Trouble
  /\ settings' \in Settings \ {settings}
  /\ causes' = causes \cup {"settings"}
  /\ UNCHANGED <<task, plans, receipts, loop, promised, effects>>

LoopStep ==
  \/ BeginLoop \/ Restore \/ OpenRequest \/ Incompatible \/ TooManySteps
  \/ NotPlanned \/ SavePlan \/ Reply \/ Reuse \/ OpenTool \/ StoreResult \/ NextStep
  \/ GiveUp \/ StepWriteFails
  \/ \E plan \in Plans : PlanArrives(plan)
  \/ \E says \in BOOLEAN : Announce(says)
  \/ \E result \in Results : Execute(result)

AgentNext == LoopStep \/ RestartLoop \/ CancelTask \/ RetryLoop \/ ChangeSettings

AgentSpec == AgentInit /\ [][AgentNext]_agentVars

-----------------------------------------------------------------------------
(* Properties.                                                             *)

\* Nothing follows from a plan that is not on disk: every tool that was ever
\* executed is called by a saved plan, each saved plan was made from the plans
\* saved before it, and a member is promised something only by one of them,
\* through lost writes, restarts, cancellations and retries.  (A "save failure
\* stops before tools are executed and progress is sent", SYSTEM_GUIDE.md.)
PlanBeforeEffects ==
  /\ \A c \in CallIds : effects[c] > 0 =>
       plans[c[1]].status = "succeeded" /\ c[2] <= Len(plans[c[1]].plan)
  /\ \A s \in StepIds : plans[s].status = "succeeded" =>
       /\ Len(plans[s].history) = s - 1
       /\ \A r \in 1..(s - 1) : /\ plans[r].status = "succeeded"
                                 /\ plans[s].history[r].plan = plans[r].plan
  /\ promised => plans[1].status = "succeeded"

\* What was saved is never done again: a saved plan is not asked for a second
\* time and never changes, a tool whose receipt says succeeded is not executed
\* again and keeps its result, whatever interrupts the run.  ("A successful
\* plan does not request the provider again", SYSTEM_GUIDE.md.)
SavedStepsStay ==
  [][/\ \A s \in StepIds : plans[s].status = "succeeded" => plans'[s] = plans[s]
     /\ \A c \in CallIds : receipts[c].status = "succeeded" =>
          receipts'[c] = receipts[c] /\ effects'[c] = effects[c]]_agentVars

\* A run whose tools all answered ok and whose settings stay is taken up again
\* wherever it was interrupted: the history rebuilt from the receipts is the
\* one its saved plans were made from.
PlansResume == task.code = "plan_unavailable" => causes # {}
=============================================================================
