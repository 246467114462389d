---------------------------- MODULE AgentLoopProofs ---------------------------
(***************************************************************************)
(* What a run saved stays, and nothing follows from a plan that was not    *)
(* saved: for any tools, settings, number of steps and of interruptions.   *)
(* The argument is about the worker in the middle of a step: the row it is *)
(* about to write is its own and has not succeeded, and the history in its *)
(* hands is that of the plans saved so far.                                *)
(***************************************************************************)
EXTENDS AgentLoop, TLAPS

Histories == Seq([plan : Plans, results : Seq(Results)])
Sets == Settings \cup {NoSettings}

PlanRows == [status : StepStatus, set : Sets, history : Histories, plan : Plans]
ReceiptRows == [status : StepStatus, result : Results \cup {"none"}]

LoopPlaces == {"away", "prepare", "ask", "save", "act", "tools", "execute", "store"}
Loops == [at : LoopPlaces, step : Nat \ {0}, set : Sets, history : Histories, plan : Plans,
          done : Seq(Results), result : Results \cup {"none"}]

AgentTyped ==
  /\ plans \in [StepIds -> PlanRows]
  /\ receipts \in [CallIds -> ReceiptRows]
  /\ loop \in Loops
  /\ settings \in Settings
  /\ effects \in [CallIds -> Nat]
  /\ \A c \in CallIds : receipts[c].status = "succeeded" => receipts[c].result \in Results

Saved(s) == plans[s].status = "succeeded"

\* A history tells the saved plans of the first n steps.
Tells(history, n) ==
  /\ Len(history) = n
  /\ \A r \in 1..n : r \in StepIds /\ Saved(r) /\ history[r].plan = plans[r].plan

\* The request in flight has its row, which a cancellation may have ended.
AsksForItsRow ==
  loop.at \in {"ask", "save"} =>
    /\ Step \in StepIds /\ plans[Step].history = loop.history
    /\ \/ plans[Step].status = "running"
       \/ plans[Step].status = "cancelled" /\ ~ Current

\* What is done follows from a saved plan.
ActsOnSavedPlan ==
  loop.at \in {"act", "tools", "execute", "store"} =>
    Step \in StepIds /\ Saved(Step) /\ plans[Step].plan = loop.plan

\* A tool at work is one of the plan, and has no result on disk.
ToolIsOpen ==
  loop.at \in {"execute", "store"} =>
    /\ Len(loop.done) < Len(loop.plan)
    /\ Call \in CallIds => receipts[Call].status # "succeeded"
    /\ loop.at = "store" => loop.result \in Results

\* A worker is at work on a run that is running or was cancelled behind its back.
WorksOnItsRun == loop.at # "away" => task.state \in {"running", "cancelled"}

KnowsItsHistory == loop.at # "away" => Tells(loop.history, Step - 1)

SavedInOrder == \A s \in StepIds : Saved(s) => Tells(plans[s].history, s - 1)

EffectsPlanned ==
  \A c \in CallIds : effects[c] > 0 => Saved(c[1]) /\ c[2] <= Len(plans[c[1]].plan)

PromisedOnPlan == promised => 1 \in StepIds /\ Saved(1)

AgentIInv ==
  /\ AgentTyped
  /\ AsksForItsRow /\ ActsOnSavedPlan /\ ToolIsOpen /\ KnowsItsHistory /\ WorksOnItsRun
  /\ SavedInOrder /\ EffectsPlanned /\ PromisedOnPlan

-----------------------------------------------------------------------------
LEMMA StepIdsAre == 1 \in StepIds /\ StepIds = {s \in Nat \ {0} : s <= MaxSteps} /\ MaxSteps \in Nat
  BY AgentAssumption DEF StepIds

LEMMA PlanFacts == /\ \A plan \in Plans : plan \in Seq(Tools) /\ Len(plan) \in 0..MaxCalls
                   /\ <<>> \in Plans
  <1>1. \A plan \in Plans : plan \in Seq(Tools) /\ Len(plan) \in 0..MaxCalls
    BY AgentAssumption DEF Plans, BoundedSeq, SeqOf
  <1>2. <<>> \in [1..0 -> Tools] /\ 0 \in 0..MaxCalls
    BY AgentAssumption
  <1> QED BY <1>1, <1>2 DEF Plans, BoundedSeq, SeqOf

LEMMA AgentStart == AgentInit => AgentIInv
  <1> SUFFICES ASSUME AgentInit PROVE AgentIInv
    OBVIOUS
  <1>1. NoPlan \in PlanRows /\ NoReceipt \in ReceiptRows /\ NoLoop \in Loops
    BY PlanFacts DEF NoPlan, PlanRows, NoReceipt, ReceiptRows, NoLoop, Loops, LoopPlaces,
       StepStatus, Sets, Histories
  <1>2. AgentTyped
    <2>1. NoReceipt.status # "succeeded"
      BY DEF NoReceipt
    <2> QED BY <1>1, <2>1 DEF AgentInit, AgentTyped
  <1>3. \A s \in StepIds : ~ Saved(s)
    BY DEF AgentInit, Saved, NoPlan
  <1>4. loop.at = "away" /\ ~ promised /\ \A c \in CallIds : effects[c] = 0
    BY DEF AgentInit, NoLoop
  <1> QED BY <1>2, <1>3, <1>4 DEF AgentIInv, AsksForItsRow, ActsOnSavedPlan, ToolIsOpen,
             KnowsItsHistory, WorksOnItsRun, SavedInOrder, EffectsPlanned, PromisedOnPlan

\* Steps that write no plan that was saved, and promise nothing new, keep what
\* follows from saved plans.
PlansStay == \A s \in StepIds : Saved(s) => plans'[s] = plans[s]
NothingSaved == \A s \in StepIds : Saved(s)' => Saved(s)

LEMMA TellsStays ==
  ASSUME PlansStay, NEW history, NEW n, Tells(history, n)
  PROVE  Tells(history, n)'
  BY DEF PlansStay, Tells, Saved

LEMMA RestStays ==
  ASSUME AgentIInv, PlansStay, NothingSaved, effects' = effects, promised' = promised
  PROVE  SavedInOrder' /\ EffectsPlanned' /\ PromisedOnPlan'
  <1>1. SavedInOrder'
    <2> SUFFICES ASSUME NEW s \in StepIds, Saved(s)' PROVE Tells(plans[s].history, s - 1)'
      BY DEF SavedInOrder
    <2>1. Saved(s) /\ plans'[s] = plans[s]
      BY DEF PlansStay, NothingSaved
    <2>2. Tells(plans[s].history, s - 1)
      BY <2>1 DEF AgentIInv, SavedInOrder
    <2> QED BY <2>1, <2>2 DEF PlansStay, Tells, Saved
  <1>2. EffectsPlanned'
    BY DEF AgentIInv, EffectsPlanned, PlansStay, Saved, CallIds
  <1>3. PromisedOnPlan'
    BY DEF AgentIInv, PromisedOnPlan, PlansStay, Saved
  <1> QED BY <1>1, <1>2, <1>3

\* A worker that goes away leaves nothing half done in its hands.
LEMMA AwayIsFine ==
  ASSUME loop' = NoLoop
  PROVE  /\ AsksForItsRow' /\ ActsOnSavedPlan' /\ ToolIsOpen' /\ KnowsItsHistory'
         /\ WorksOnItsRun' /\ loop' \in Loops
  BY PlanFacts DEF NoLoop, AsksForItsRow, ActsOnSavedPlan, ToolIsOpen, KnowsItsHistory,
     WorksOnItsRun, Loops, LoopPlaces, Sets, Histories

\* A step that writes no row and promises nothing: what is left to show is
\* about the worker.
RowsStay == UNCHANGED <<plans, receipts, effects, promised>>

LEMMA QuietStep ==
  ASSUME AgentIInv, RowsStay, settings' \in Settings, loop' \in Loops,
         AsksForItsRow', ActsOnSavedPlan', ToolIsOpen', KnowsItsHistory', WorksOnItsRun'
  PROVE  AgentIInv'
  <1>1. PlansStay /\ NothingSaved
    BY DEF RowsStay, PlansStay, NothingSaved, Saved
  <1>2. AgentTyped'
    BY DEF AgentIInv, AgentTyped, RowsStay
  <1> QED BY <1>1, <1>2, RestStays DEF RowsStay, AgentIInv

LEMMA GoesAwayQuietly ==
  ASSUME AgentIInv, RowsStay, settings' \in Settings, loop' = NoLoop
  PROVE  AgentIInv'
  BY QuietStep, AwayIsFine

LEMMA SettingsStay == AgentIInv => settings \in Settings
  BY DEF AgentIInv, AgentTyped

LEMMA BeginLoopKeeps == ASSUME AgentIInv, BeginLoop PROVE AgentIInv'
  <1>1. RowsStay /\ settings' \in Settings /\ settings \in Settings
    BY SettingsStay DEF BeginLoop, RowsStay
  <1>2. loop' = [NoLoop EXCEPT !.at = "prepare", !.set = settings]
    BY DEF BeginLoop
  <1>3. /\ NoLoop \in Loops /\ NoLoop.step = 1 /\ NoLoop.history = <<>>
        /\ settings \in Sets
    BY <1>1, PlanFacts DEF NoLoop, Loops, LoopPlaces, Sets, Histories
  <1>4. /\ loop' \in Loops /\ loop'.at = "prepare" /\ loop'.step = 1 /\ loop'.history = <<>>
    BY <1>2, <1>3 DEF Loops, LoopPlaces
  <1>5. KnowsItsHistory'
    BY <1>4 DEF KnowsItsHistory, Step, Tells
  <1>6. WorksOnItsRun'
    BY DEF BeginLoop, WorksOnItsRun
  <1> QED BY <1>1, <1>4, <1>5, <1>6, QuietStep DEF AsksForItsRow, ActsOnSavedPlan, ToolIsOpen

LEMMA RestoreKeeps == ASSUME AgentIInv, Restore PROVE AgentIInv'
  <1>1. /\ RowsStay /\ settings' \in Settings /\ Step \in StepIds /\ Saved(Step)
        /\ loop.at = "prepare" /\ loop \in Loops /\ plans[Step] \in PlanRows
        /\ loop' = [loop EXCEPT !.at = "act", !.plan = plans[Step].plan]
    BY SettingsStay, StepIdsAre DEF Restore, Step, RowsStay, Saved, AgentIInv, AgentTyped, Loops
  <1>2. /\ loop' \in Loops /\ loop'.at = "act" /\ loop'.step = loop.step
        /\ loop'.history = loop.history /\ loop'.plan = plans[Step].plan
    BY <1>1 DEF Loops, LoopPlaces, PlanRows
  <1>3. KnowsItsHistory'
    BY <1>1, <1>2 DEF AgentIInv, KnowsItsHistory, Step, Tells, RowsStay, Saved
  <1>4. ActsOnSavedPlan' /\ WorksOnItsRun'
    BY <1>1, <1>2 DEF ActsOnSavedPlan, WorksOnItsRun, Current, Restore, Step, RowsStay, Saved
  <1> QED BY <1>1, <1>2, <1>3, <1>4, QuietStep DEF AsksForItsRow, ToolIsOpen

LEMMA PlanArrivesKeeps ==
  ASSUME AgentIInv, NEW plan \in Plans, PlanArrives(plan) PROVE AgentIInv'
  <1>1. /\ RowsStay /\ settings' \in Settings /\ loop.at = "ask" /\ loop \in Loops
        /\ loop' = [loop EXCEPT !.at = "save", !.plan = plan] /\ task' = task
    BY SettingsStay DEF PlanArrives, RowsStay, AgentIInv, AgentTyped
  <1>2. /\ loop' \in Loops /\ loop'.at = "save" /\ loop'.step = loop.step
        /\ loop'.history = loop.history
    BY <1>1, PlanFacts DEF Loops, LoopPlaces
  <1>3. KnowsItsHistory' /\ AsksForItsRow' /\ WorksOnItsRun'
    BY <1>1, <1>2 DEF AgentIInv, KnowsItsHistory, WorksOnItsRun, AsksForItsRow, Step, Tells,
                      RowsStay, Saved, Current
  <1> QED BY <1>1, <1>2, <1>3, QuietStep DEF ActsOnSavedPlan, ToolIsOpen

\* The reply ends the loop, or a result goes to those of the plan.
LEMMA TakeResultKeeps ==
  ASSUME AgentIInv, NEW result \in Results, loop.at \in {"tools", "store"}, TakeResult(result),
         PlansStay
  PROVE  /\ AsksForItsRow' /\ ActsOnSavedPlan' /\ ToolIsOpen' /\ KnowsItsHistory'
         /\ WorksOnItsRun' /\ loop' \in Loops
  <1>1. CASE result \in Final
    BY <1>1, AwayIsFine DEF TakeResult, Ends
  <1>2. CASE result \notin Final
    <2>1. /\ loop' = [loop EXCEPT !.at = "tools", !.result = "none", !.done = Append(@, result)]
          /\ loop \in Loops
      BY <1>2 DEF TakeResult, AgentIInv, AgentTyped
    <2> DEFINE done == Append(loop.done, result)
    <2>a. done \in Seq(Results)
      BY <2>1 DEF Loops
    <2>b. loop' = [loop EXCEPT !.at = "tools", !.result = "none", !.done = done]
      BY <2>1
    <2> HIDE DEF done
    <2>2. /\ loop' \in Loops /\ loop'.at = "tools" /\ loop'.step = loop.step
          /\ loop'.history = loop.history /\ loop'.plan = loop.plan
      BY <2>1, <2>a, <2>b DEF Loops, LoopPlaces
    <2>3. Tells(loop.history, Step - 1)
      BY DEF AgentIInv, KnowsItsHistory
    <2>4. KnowsItsHistory'
      BY <2>2, <2>3 DEF KnowsItsHistory, Step, Tells, PlansStay, Saved
    <2>5. ActsOnSavedPlan'
      BY <2>2 DEF AgentIInv, ActsOnSavedPlan, Step, PlansStay, Saved
    <2>6. WorksOnItsRun'
      BY <1>2 DEF AgentIInv, WorksOnItsRun, TakeResult
    <2> QED BY <2>2, <2>4, <2>5, <2>6 DEF AsksForItsRow, ToolIsOpen
  <1> QED BY <1>1, <1>2

\* The tool that is called next has its row.
LEMMA CallIsOne ==
  ASSUME AgentIInv, loop.at = "tools", Len(loop.done) < Len(loop.plan)
  PROVE  Call \in CallIds
  <1>1. Step \in StepIds /\ loop \in Loops
    BY DEF AgentIInv, AgentTyped, ActsOnSavedPlan
  <1>2. Len(loop.plan) \in 0..MaxCalls /\ Len(loop.done) \in Nat
    BY <1>1, PlanFacts DEF Loops
  <1>3. Len(loop.done) + 1 \in 1..MaxCalls
    BY <1>2, AgentAssumption
  <1> QED BY <1>1, <1>3 DEF Call, CallIds

LEMMA ReuseKeeps == ASSUME AgentIInv, Reuse PROVE AgentIInv'
  <1>1. /\ RowsStay /\ settings' \in Settings /\ loop.at = "tools" /\ loop \in Loops
        /\ TakeResult(receipts[Call].result)
    BY SettingsStay DEF Reuse, CallsTool, RowsStay, AgentIInv, AgentTyped
  <1>2. Call \in CallIds
    BY <1>1, CallIsOne DEF Reuse, CallsTool
  <1>3. receipts[Call].result \in Results
    BY <1>2 DEF Reuse, Kept, AgentIInv, AgentTyped
  <1> QED BY <1>1, <1>3, TakeResultKeeps, QuietStep DEF RowsStay, PlansStay

LEMMA NextStepKeeps == ASSUME AgentIInv, NextStep PROVE AgentIInv'
  <1> DEFINE entry == [plan |-> loop.plan, results |-> loop.done]
             history == Append(loop.history, entry)
  <1>1. /\ RowsStay /\ settings' \in Settings /\ loop.at = "tools" /\ loop \in Loops
        /\ loop' = [loop EXCEPT !.at = "prepare", !.step = @ + 1, !.plan = <<>>, !.done = <<>>,
                                !.history = history]
    BY SettingsStay DEF NextStep, RowsStay, AgentIInv, AgentTyped
  <1>2. /\ Step \in StepIds /\ Saved(Step) /\ plans[Step].plan = loop.plan
        /\ Tells(loop.history, Step - 1) /\ loop.history \in Histories
    BY <1>1 DEF AgentIInv, ActsOnSavedPlan, KnowsItsHistory, Loops
  <1>3. entry \in [plan : Plans, results : Seq(Results)] /\ entry.plan = loop.plan
    BY <1>1 DEF Loops
  <1>4. /\ history \in Histories /\ Len(history) = Len(loop.history) + 1
        /\ \A r \in 1..Len(loop.history) : history[r] = loop.history[r]
        /\ history[Len(loop.history) + 1] = entry
    BY <1>2, <1>3 DEF Histories
  <1> HIDE DEF entry, history
  <1>5. Tells(history, Step)
    <2>1. Step \in Nat \ {0} /\ Len(loop.history) = Step - 1
      BY <1>2, StepIdsAre DEF Tells
    <2>2. Len(history) = Step
      BY <1>4, <2>1
    <2>3. ASSUME NEW r \in 1..Step
          PROVE  r \in StepIds /\ Saved(r) /\ history[r].plan = plans[r].plan
      <3>1. CASE r = Step
        BY <1>2, <1>3, <1>4, <2>1, <3>1
      <3>2. CASE r # Step
        <4>1. r \in 1..(Step - 1)
          BY <2>1, <3>2
        <4> QED BY <1>2, <1>4, <2>1, <4>1 DEF Tells
      <3> QED BY <3>1, <3>2
    <2> QED BY <2>2, <2>3 DEF Tells
  <1>6. /\ loop' \in Loops /\ loop'.at = "prepare" /\ loop'.step = loop.step + 1
        /\ loop'.history = history
    <2>1. <<>> \in Seq(Results) /\ <<>> \in Plans /\ loop.step + 1 \in Nat \ {0}
      BY <1>1, PlanFacts DEF Loops
    <2>2. loop' = [loop EXCEPT !.at = "prepare", !.step = loop.step + 1, !.plan = <<>>,
                               !.done = <<>>, !.history = history]
      BY <1>1 DEF Loops
    <2> QED BY <1>1, <1>4, <2>1, <2>2 DEF Loops, LoopPlaces
  <1>7. KnowsItsHistory'
    <2>1. loop'.step - 1 = Step
      BY <1>1, <1>6 DEF Step, Loops
    <2> QED BY <1>1, <1>5, <1>6, <2>1 DEF KnowsItsHistory, Step, Tells, RowsStay, Saved
  <1>8. WorksOnItsRun'
    BY DEF NextStep, WorksOnItsRun, Current
  <1> QED BY <1>1, <1>6, <1>7, <1>8, QuietStep DEF AsksForItsRow, ActsOnSavedPlan, ToolIsOpen

LEMMA EndingKeeps ==
  ASSUME AgentIInv, Incompatible \/ TooManySteps \/ Reply \/ StepWriteFails
  PROVE  AgentIInv' /\ RowsStay
  <1>1. RowsStay /\ settings' = settings /\ loop' = NoLoop
    BY DEF Incompatible, TooManySteps, Reply, StepWriteFails, Ends, RowsStay
  <1> QED BY <1>1, SettingsStay, GoesAwayQuietly

LEMMA ChangeSettingsKeeps == ASSUME AgentIInv, ChangeSettings PROVE AgentIInv' /\ RowsStay
  <1>1. RowsStay /\ loop' = loop /\ task' = task /\ settings' \in Settings
    BY DEF ChangeSettings, RowsStay
  <1>2. AsksForItsRow' /\ ActsOnSavedPlan' /\ ToolIsOpen' /\ KnowsItsHistory' /\ WorksOnItsRun'
    BY <1>1 DEF RowsStay, AgentIInv, AsksForItsRow, ActsOnSavedPlan, ToolIsOpen,
       KnowsItsHistory, WorksOnItsRun, Step, Call, Current, Saved, Tells
  <1>3. loop' \in Loops
    BY <1>1 DEF AgentIInv, AgentTyped
  <1> QED BY <1>1, <1>2, <1>3, QuietStep

\* A promise follows from the plan at hand, and so from the first one.
LEMMA FirstIsSaved ==
  ASSUME AgentIInv, loop.at = "act"
  PROVE  Saved(1)
  <1>1. Step \in StepIds /\ Saved(Step) /\ Tells(loop.history, Step - 1)
    BY DEF AgentIInv, ActsOnSavedPlan, KnowsItsHistory
  <1>2. Step = 1 \/ 1 \in 1..(Step - 1)
    BY <1>1, StepIdsAre
  <1> QED BY <1>1, <1>2 DEF Tells

LEMMA AnnounceKeeps ==
  ASSUME AgentIInv, NEW says \in BOOLEAN, Announce(says)
  PROVE  AgentIInv' /\ UNCHANGED <<plans, receipts, effects>>
  <1>1. /\ UNCHANGED <<plans, receipts, effects, settings, task>> /\ loop.at = "act"
        /\ loop \in Loops /\ loop' = [loop EXCEPT !.at = "tools"]
    BY DEF Announce, LoopGoes, AgentIInv, AgentTyped
  <1>2. /\ loop' \in Loops /\ loop'.at = "tools" /\ loop'.step = loop.step
        /\ loop'.history = loop.history /\ loop'.plan = loop.plan
    BY <1>1 DEF Loops, LoopPlaces
  <1>3. AgentTyped'
    BY <1>1, <1>2 DEF AgentIInv, AgentTyped
  <1>4. KnowsItsHistory' /\ ActsOnSavedPlan' /\ WorksOnItsRun'
    BY <1>1, <1>2 DEF AgentIInv, KnowsItsHistory, ActsOnSavedPlan, WorksOnItsRun, Step, Tells, Saved
  <1>5. AsksForItsRow' /\ ToolIsOpen'
    BY <1>2 DEF AsksForItsRow, ToolIsOpen
  <1>6. SavedInOrder' /\ EffectsPlanned'
    BY <1>1 DEF AgentIInv, SavedInOrder, EffectsPlanned, Tells, Saved
  <1>7. PromisedOnPlan'
    BY <1>1, FirstIsSaved, StepIdsAre DEF PromisedOnPlan, Saved
  <1> QED BY <1>1, <1>3, <1>4, <1>5, <1>6, <1>7 DEF AgentIInv

-----------------------------------------------------------------------------
\* What was saved stays as it is.
SavedStay ==
  /\ PlansStay
  /\ \A c \in CallIds : receipts[c].status = "succeeded" =>
       receipts'[c] = receipts[c] /\ effects'[c] = effects[c]

LEMMA QuietKeepsSaved == ASSUME UNCHANGED <<plans, receipts, effects>> PROVE SavedStay
  BY DEF SavedStay, PlansStay

\* The rows change, the effects do not, and no plan is saved.
LEMMA RowsMove ==
  ASSUME AgentIInv, SavedStay, NothingSaved, UNCHANGED <<effects, promised>>,
         settings' \in Settings,
         plans' \in [StepIds -> PlanRows], receipts' \in [CallIds -> ReceiptRows],
         \A c \in CallIds : receipts'[c].status = "succeeded" => receipts'[c].result \in Results,
         loop' \in Loops,
         AsksForItsRow', ActsOnSavedPlan', ToolIsOpen', KnowsItsHistory', WorksOnItsRun'
  PROVE  AgentIInv'
  <1>1. AgentTyped'
    BY DEF AgentIInv, AgentTyped
  <1> QED BY <1>1, RestStays DEF AgentIInv, SavedStay

\* The request in flight ends as failed, and the worker goes away.
LEMMA RequestFails ==
  ASSUME AgentIInv, loop.at = "ask", plans' = [plans EXCEPT ![Step].status = "failed"],
         UNCHANGED <<receipts, effects, promised, settings>>, loop' = NoLoop
  PROVE  AgentIInv' /\ SavedStay
  <1>1. Step \in StepIds /\ ~ Saved(Step) /\ plans \in [StepIds -> PlanRows]
    BY DEF AgentIInv, AsksForItsRow, AgentTyped, Saved
  <1>2. plans' \in [StepIds -> PlanRows]
    BY <1>1 DEF PlanRows, StepStatus
  <1>3. SavedStay /\ NothingSaved
    BY <1>1 DEF SavedStay, PlansStay, NothingSaved, Saved, PlanRows
  <1>4. /\ receipts' \in [CallIds -> ReceiptRows] /\ settings' \in Settings
        /\ \A c \in CallIds : receipts'[c].status = "succeeded" => receipts'[c].result \in Results
    BY DEF AgentIInv, AgentTyped
  <1> QED BY <1>2, <1>3, <1>4, AwayIsFine, RowsMove

LEMMA GiveUpKeeps == ASSUME AgentIInv, GiveUp PROVE AgentIInv' /\ SavedStay
  <1>1. UNCHANGED <<receipts, effects, promised, settings>> /\ loop' = NoLoop
    BY DEF GiveUp
  <1>2. CASE loop.at = "ask"
    BY <1>1, <1>2, RequestFails DEF GiveUp
  <1>3. CASE loop.at # "ask"
    <2>1. RowsStay
      BY <1>1, <1>3 DEF GiveUp, RowsStay
    <2> QED BY <1>1, <2>1, SettingsStay, GoesAwayQuietly, QuietKeepsSaved DEF RowsStay
  <1> QED BY <1>2, <1>3

LEMMA NotPlannedKeeps == ASSUME AgentIInv, NotPlanned PROVE AgentIInv' /\ SavedStay
  BY RequestFails DEF NotPlanned, Ends

LEMMA OpenRequestKeeps == ASSUME AgentIInv, OpenRequest PROVE AgentIInv' /\ SavedStay
  <1> DEFINE row == [NoPlan EXCEPT !.status = "running", !.set = loop.set, !.history = loop.history]
  <1>1. /\ loop \in Loops /\ Step \in StepIds /\ ~ Saved(Step) /\ plans \in [StepIds -> PlanRows]
        /\ plans' = [plans EXCEPT ![Step] = row] /\ loop' = [loop EXCEPT !.at = "ask"]
        /\ UNCHANGED <<task, receipts, effects, promised, settings>> /\ loop.at = "prepare"
    BY StepIdsAre DEF OpenRequest, LoopGoes, AgentIInv, AgentTyped, Loops, Saved, Step
  <1>2. row \in PlanRows /\ row.status = "running" /\ row.history = loop.history
    BY <1>1, PlanFacts DEF NoPlan, PlanRows, StepStatus, Loops
  <1> HIDE DEF row
  <1>3. plans' \in [StepIds -> PlanRows] /\ SavedStay /\ NothingSaved
    BY <1>1, <1>2 DEF SavedStay, PlansStay, NothingSaved, Saved
  <1>4. /\ loop' \in Loops /\ loop'.at = "ask" /\ loop'.step = loop.step
        /\ loop'.history = loop.history
    BY <1>1 DEF Loops, LoopPlaces
  <1>5. Tells(loop.history, Step - 1)
    BY <1>1 DEF AgentIInv, KnowsItsHistory
  <1>6. KnowsItsHistory'
    BY <1>3, <1>4, <1>5 DEF KnowsItsHistory, Step, Tells, SavedStay, PlansStay, Saved
  <1>7. AsksForItsRow' /\ WorksOnItsRun'
    BY <1>1, <1>2, <1>4 DEF AsksForItsRow, WorksOnItsRun, AgentIInv, Step
  <1>8. /\ receipts' \in [CallIds -> ReceiptRows] /\ settings' \in Settings
        /\ \A c \in CallIds : receipts'[c].status = "succeeded" => receipts'[c].result \in Results
    BY <1>1 DEF AgentIInv, AgentTyped
  <1> QED BY <1>1, <1>3, <1>4, <1>6, <1>7, <1>8, RowsMove DEF ActsOnSavedPlan, ToolIsOpen

\* The plan joins those that were saved before it.
LEMMA SavePlanKeeps == ASSUME AgentIInv, SavePlan PROVE AgentIInv' /\ SavedStay
  <1>1. /\ loop \in Loops /\ Step \in StepIds /\ ~ Saved(Step) /\ plans \in [StepIds -> PlanRows]
        /\ plans' = [plans EXCEPT ![Step].plan = loop.plan, ![Step].status = "succeeded"]
        /\ loop' = [loop EXCEPT !.at = "act"] /\ plans[Step].history = loop.history
        /\ UNCHANGED <<task, receipts, effects, promised, settings>> /\ loop.at = "save"
    BY DEF SavePlan, PlanKept, LoopGoes, AgentIInv, AgentTyped, AsksForItsRow, Saved
  <1>2. /\ plans' \in [StepIds -> PlanRows]
        /\ \A s \in StepIds : s # Step => plans'[s] = plans[s]
        /\ plans'[Step].status = "succeeded" /\ plans'[Step].plan = loop.plan
        /\ plans'[Step].history = loop.history
    BY <1>1 DEF PlanRows, StepStatus, Loops
  <1>3. SavedStay
    BY <1>1, <1>2 DEF SavedStay, PlansStay, Saved
  <1>4. /\ loop' \in Loops /\ loop'.at = "act" /\ loop'.step = loop.step
        /\ loop'.history = loop.history /\ loop'.plan = loop.plan
    BY <1>1 DEF Loops, LoopPlaces
  <1>5. AgentTyped'
    BY <1>1, <1>2, <1>4 DEF AgentIInv, AgentTyped
  <1>6. Tells(loop.history, Step - 1)
    BY <1>1 DEF AgentIInv, KnowsItsHistory
  <1>7. KnowsItsHistory' /\ ActsOnSavedPlan' /\ WorksOnItsRun'
    BY <1>1, <1>2, <1>3, <1>4, <1>6
       DEF KnowsItsHistory, ActsOnSavedPlan, WorksOnItsRun, AgentIInv, Step, Tells, SavedStay,
           PlansStay, Saved
  <1>8. SavedInOrder'
    <2> SUFFICES ASSUME NEW s \in StepIds, Saved(s)' PROVE Tells(plans[s].history, s - 1)'
      BY DEF SavedInOrder
    <2>1. Tells(plans'[s].history, s - 1)
      <3>1. CASE s = Step
        BY <1>2, <1>6, <3>1
      <3>2. CASE s # Step
        BY <1>2, <3>2 DEF AgentIInv, SavedInOrder, Saved
      <3> QED BY <3>1, <3>2
    <2> QED BY <1>3, <2>1 DEF Tells, SavedStay, PlansStay, Saved
  <1>9. EffectsPlanned' /\ PromisedOnPlan'
    BY <1>1, <1>3 DEF AgentIInv, EffectsPlanned, PromisedOnPlan, SavedStay, PlansStay, Saved, CallIds
  <1> QED BY <1>3, <1>4, <1>5, <1>7, <1>8, <1>9 DEF AgentIInv, AsksForItsRow, ToolIsOpen

-----------------------------------------------------------------------------
\* What plans alone decide stays when they do.
LEMMA PlansUntouched ==
  ASSUME AgentIInv, UNCHANGED plans
  PROVE  /\ PlansStay /\ NothingSaved /\ SavedInOrder'
         /\ effects' = effects => EffectsPlanned'
         /\ promised' = promised => PromisedOnPlan'
  BY DEF AgentIInv, PlansStay, NothingSaved, SavedInOrder, EffectsPlanned, PromisedOnPlan, Tells,
         Saved

LEMMA OpenToolKeeps == ASSUME AgentIInv, OpenTool PROVE AgentIInv' /\ SavedStay
  <1>1. /\ loop \in Loops /\ loop.at = "tools" /\ Len(loop.done) < Len(loop.plan)
        /\ receipts \in [CallIds -> ReceiptRows] /\ receipts[Call].status # "succeeded"
        /\ receipts' = [receipts EXCEPT ![Call].status = "running"]
        /\ loop' = [loop EXCEPT !.at = "execute"]
        /\ UNCHANGED <<task, plans, effects, promised, settings>>
    BY DEF OpenTool, CallsTool, Kept, LoopGoes, AgentIInv, AgentTyped
  <1>2. Call \in CallIds
    BY <1>1, CallIsOne
  <1>3. /\ receipts' \in [CallIds -> ReceiptRows] /\ receipts'[Call].status = "running"
        /\ \A c \in CallIds : c # Call => receipts'[c] = receipts[c]
    BY <1>1, <1>2 DEF ReceiptRows, StepStatus
  <1>4. /\ loop' \in Loops /\ loop'.at = "execute" /\ loop'.step = loop.step
        /\ loop'.history = loop.history /\ loop'.plan = loop.plan /\ loop'.done = loop.done
    BY <1>1 DEF Loops, LoopPlaces
  <1>5. SavedStay
    BY <1>1, <1>3, PlansUntouched DEF SavedStay
  <1>6. AgentTyped'
    BY <1>1, <1>3, <1>4 DEF AgentIInv, AgentTyped
  <1>7. ActsOnSavedPlan' /\ KnowsItsHistory' /\ WorksOnItsRun'
    BY <1>1, <1>4 DEF AgentIInv, ActsOnSavedPlan, KnowsItsHistory, WorksOnItsRun, Step, Tells, Saved
  <1>8. ToolIsOpen'
    BY <1>1, <1>3, <1>4 DEF ToolIsOpen, Call, Step
  <1> QED BY <1>1, <1>4, <1>5, <1>6, <1>7, <1>8, PlansUntouched DEF AgentIInv, AsksForItsRow

\* A tool has an effect only as a call of the saved plan.
LEMMA ExecuteKeeps ==
  ASSUME AgentIInv, NEW result \in Results, Execute(result) PROVE AgentIInv' /\ SavedStay
  <1>1. /\ loop \in Loops /\ loop.at = "execute" /\ Len(loop.done) < Len(loop.plan)
        /\ Call \in CallIds => receipts[Call].status # "succeeded"
        /\ Step \in StepIds /\ Saved(Step) /\ plans[Step].plan = loop.plan
        /\ effects \in [CallIds -> Nat]
        /\ effects' = [effects EXCEPT ![Call] = @ + 1]
        /\ loop' = [loop EXCEPT !.at = "store", !.result = result]
        /\ UNCHANGED <<task, plans, receipts, promised, settings>>
    BY DEF Execute, AgentIInv, AgentTyped, ToolIsOpen, ActsOnSavedPlan
  <1>2. /\ loop' \in Loops /\ loop'.at = "store" /\ loop'.step = loop.step
        /\ loop'.history = loop.history /\ loop'.plan = loop.plan /\ loop'.done = loop.done
    BY <1>1 DEF Loops, LoopPlaces
  <1>3. effects' \in [CallIds -> Nat] /\ \A c \in CallIds : c # Call => effects'[c] = effects[c]
    <2>1. effects' = [c \in CallIds |-> IF c = Call THEN effects[c] + 1 ELSE effects[c]]
      BY <1>1
    <2>2. \A c \in CallIds : effects[c] \in Nat /\ effects[c] + 1 \in Nat
      BY <1>1
    <2> QED BY <2>1, <2>2
  <1>4. SavedStay
    BY <1>1, <1>3, PlansUntouched DEF SavedStay
  <1>5. AgentTyped'
    BY <1>1, <1>2, <1>3 DEF AgentIInv, AgentTyped
  <1>6. ActsOnSavedPlan' /\ KnowsItsHistory' /\ WorksOnItsRun' /\ ToolIsOpen'
    BY <1>1, <1>2 DEF AgentIInv, ActsOnSavedPlan, KnowsItsHistory, WorksOnItsRun, ToolIsOpen,
       Step, Call, Tells, Saved
  <1>7. EffectsPlanned'
    <2> SUFFICES ASSUME NEW c \in CallIds, effects'[c] > 0
                 PROVE  Saved(c[1]) /\ c[2] <= Len(plans[c[1]].plan)
      BY <1>1 DEF EffectsPlanned, Saved
    <2>1. CASE c = Call
      <3>1. c[1] = Step /\ c[2] = Len(loop.done) + 1
        BY <2>1 DEF Call
      <3>2. Len(loop.done) + 1 <= Len(loop.plan)
        BY <1>1, PlanFacts DEF Loops
      <3> QED BY <1>1, <3>1, <3>2
    <2>2. CASE c # Call
      BY <1>3, <2>2 DEF AgentIInv, EffectsPlanned
    <2> QED BY <2>1, <2>2
  <1> QED BY <1>1, <1>2, <1>4, <1>5, <1>6, <1>7, PlansUntouched DEF AgentIInv, AsksForItsRow

LEMMA StoreResultKeeps == ASSUME AgentIInv, StoreResult PROVE AgentIInv' /\ SavedStay
  <1> DEFINE row == [status |-> IF loop.result \in Failing THEN "failed" ELSE "succeeded",
                     result |-> loop.result]
  <1>1. /\ loop \in Loops /\ loop.at = "store" /\ loop.result \in Results
        /\ Call \in CallIds => receipts[Call].status # "succeeded"
        /\ receipts \in [CallIds -> ReceiptRows] /\ receipts' = [receipts EXCEPT ![Call] = row]
        /\ UNCHANGED <<plans, effects, promised, settings>>
    BY DEF StoreResult, AgentIInv, AgentTyped, ToolIsOpen
  <1>2. row \in ReceiptRows /\ row.result \in Results
    BY <1>1 DEF ReceiptRows, StepStatus
  <1> HIDE DEF row
  <1>3. /\ receipts' \in [CallIds -> ReceiptRows]
        /\ \A c \in CallIds : c # Call => receipts'[c] = receipts[c]
        /\ \A c \in CallIds : receipts'[c].status = "succeeded" => receipts'[c].result \in Results
    BY <1>1, <1>2 DEF AgentIInv, AgentTyped
  <1>4. SavedStay /\ NothingSaved
    BY <1>1, <1>3, PlansUntouched DEF SavedStay
  <1>5. /\ AsksForItsRow' /\ ActsOnSavedPlan' /\ ToolIsOpen' /\ KnowsItsHistory'
        /\ WorksOnItsRun' /\ loop' \in Loops
    <2>1. CASE Current
      BY <1>1, <1>4, <2>1, TakeResultKeeps DEF StoreResult, SavedStay
    <2>2. CASE ~ Current
      BY <2>2, AwayIsFine DEF StoreResult
    <2> QED BY <2>1, <2>2
  <1>6. plans' \in [StepIds -> PlanRows] /\ settings' \in Settings
    BY <1>1 DEF AgentIInv, AgentTyped
  <1> QED BY <1>1, <1>3, <1>4, <1>5, <1>6, RowsMove

-----------------------------------------------------------------------------
(* Interruptions.                                                          *)

\* Rows that did not succeed are put back, or ended; the others stay.
Rewritten ==
  /\ plans' \in [StepIds -> PlanRows] /\ receipts' \in [CallIds -> ReceiptRows]
  /\ \A s \in StepIds : IF Saved(s) THEN plans'[s] = plans[s] ELSE plans'[s].status # "succeeded"
  /\ \A c \in CallIds : IF receipts[c].status = "succeeded" THEN receipts'[c] = receipts[c]
                        ELSE receipts'[c].status # "succeeded"
  /\ UNCHANGED <<effects, promised, settings>>

LEMMA RewrittenKeeps ==
  ASSUME AgentIInv, Rewritten, loop' \in Loops,
         AsksForItsRow', ActsOnSavedPlan', ToolIsOpen', KnowsItsHistory', WorksOnItsRun'
  PROVE  AgentIInv' /\ SavedStay
  <1>1. SavedStay /\ NothingSaved
    BY DEF Rewritten, SavedStay, PlansStay, NothingSaved, Saved
  <1>2. \A c \in CallIds : receipts'[c].status = "succeeded" => receipts'[c].result \in Results
    BY DEF Rewritten, AgentIInv, AgentTyped
  <1>3. settings' \in Settings
    BY DEF Rewritten, AgentIInv, AgentTyped
  <1> QED BY <1>1, <1>2, <1>3, RowsMove DEF Rewritten

LEMMA RestartLoopKeeps == ASSUME AgentIInv, RestartLoop PROVE AgentIInv' /\ SavedStay
  <1>1. plans \in [StepIds -> PlanRows] /\ receipts \in [CallIds -> ReceiptRows]
    BY DEF AgentIInv, AgentTyped
  <1>2. Rewritten /\ loop' = NoLoop
    BY <1>1 DEF RestartLoop, Rewritten, PlanRows, ReceiptRows, StepStatus, Saved
  <1> QED BY <1>2, AwayIsFine, RewrittenKeeps

LEMMA CancelTaskKeeps == ASSUME AgentIInv, CancelTask PROVE AgentIInv' /\ SavedStay
  <1>1. /\ plans \in [StepIds -> PlanRows] /\ receipts \in [CallIds -> ReceiptRows]
        /\ loop \in Loops /\ loop' = loop /\ task'.state = "cancelled"
    BY DEF CancelTask, AgentIInv, AgentTyped
  <1>2. Rewritten
    BY <1>1 DEF CancelTask, Rewritten, PlanRows, ReceiptRows, StepStatus, Saved
  <1>3. \A s \in StepIds : /\ plans'[s].history = plans[s].history /\ plans'[s].plan = plans[s].plan
                           /\ plans[s].status \in {"running", "cancelled"} =>
                                plans'[s].status = "cancelled"
    BY <1>1 DEF CancelTask, PlanRows
  <1>4. AsksForItsRow'
    BY <1>1, <1>3 DEF AgentIInv, AsksForItsRow, Current, Step
  <1>5. ActsOnSavedPlan' /\ KnowsItsHistory' /\ WorksOnItsRun'
    BY <1>1, <1>2 DEF AgentIInv, ActsOnSavedPlan, KnowsItsHistory, WorksOnItsRun, Step, Tells,
       Saved, Rewritten
  <1>6. ToolIsOpen'
    BY <1>1, <1>2 DEF AgentIInv, ToolIsOpen, Call, Step, Rewritten
  <1> QED BY <1>1, <1>2, <1>4, <1>5, <1>6, RewrittenKeeps

LEMMA RetryLoopKeeps == ASSUME AgentIInv, RetryLoop PROVE AgentIInv' /\ SavedStay
  <1>1. /\ plans \in [StepIds -> PlanRows] /\ receipts \in [CallIds -> ReceiptRows]
        /\ loop \in Loops /\ loop' = loop /\ loop.at = "away"
    BY DEF RetryLoop, AgentIInv, AgentTyped, WorksOnItsRun
  <1>2. Rewritten
    BY <1>1, PlanFacts DEF RetryLoop, Reset, NoReceipt, Rewritten, PlanRows, ReceiptRows,
       StepStatus, Saved
  <1>3. AsksForItsRow' /\ ActsOnSavedPlan' /\ ToolIsOpen' /\ KnowsItsHistory' /\ WorksOnItsRun'
    BY <1>1 DEF AsksForItsRow, ActsOnSavedPlan, ToolIsOpen, KnowsItsHistory, WorksOnItsRun
  <1> QED BY <1>1, <1>2, <1>3, RewrittenKeeps

-----------------------------------------------------------------------------
LEMMA AgentStep ==
  ASSUME AgentIInv, [AgentNext]_agentVars
  PROVE  AgentIInv' /\ SavedStay
  <1>1. CASE UNCHANGED agentVars
    <2>1. RowsStay /\ loop' = loop /\ task' = task /\ settings' = settings
      BY <1>1 DEF agentVars, RowsStay
    <2>2. /\ AsksForItsRow' /\ ActsOnSavedPlan' /\ ToolIsOpen' /\ KnowsItsHistory'
          /\ WorksOnItsRun' /\ loop' \in Loops
      BY <2>1 DEF RowsStay, AgentIInv, AgentTyped, AsksForItsRow, ActsOnSavedPlan, ToolIsOpen,
         KnowsItsHistory, WorksOnItsRun, Step, Call, Current, Saved, Tells
    <2> QED BY <2>1, <2>2, SettingsStay, QuietStep, QuietKeepsSaved DEF RowsStay
  <1>2. CASE BeginLoop
    BY <1>2, BeginLoopKeeps, QuietKeepsSaved DEF BeginLoop
  <1>3. CASE Restore
    BY <1>3, RestoreKeeps, QuietKeepsSaved DEF Restore
  <1>4. CASE Reuse
    BY <1>4, ReuseKeeps, QuietKeepsSaved DEF Reuse
  <1>5. CASE NextStep
    BY <1>5, NextStepKeeps, QuietKeepsSaved DEF NextStep
  <1>6. CASE Incompatible \/ TooManySteps \/ Reply \/ StepWriteFails
    BY <1>6, EndingKeeps, QuietKeepsSaved DEF RowsStay
  <1>7. ASSUME NEW plan \in Plans, PlanArrives(plan) PROVE AgentIInv' /\ SavedStay
    BY <1>7, PlanArrivesKeeps, QuietKeepsSaved DEF PlanArrives
  <1>8. ASSUME NEW says \in BOOLEAN, Announce(says) PROVE AgentIInv' /\ SavedStay
    BY <1>8, AnnounceKeeps, QuietKeepsSaved
  <1>9. CASE ChangeSettings
    BY <1>9, ChangeSettingsKeeps, QuietKeepsSaved DEF RowsStay
  <1>10. ASSUME NEW result \in Results, Execute(result) PROVE AgentIInv' /\ SavedStay
    BY <1>10, ExecuteKeeps
  <1> QED BY <1>1, <1>2, <1>3, <1>4, <1>5, <1>6, <1>7, <1>8, <1>9, <1>10, OpenRequestKeeps,
             NotPlannedKeeps, SavePlanKeeps, OpenToolKeeps, StoreResultKeeps, GiveUpKeeps,
             RestartLoopKeeps, CancelTaskKeeps, RetryLoopKeeps DEF AgentNext, LoopStep

\* The worker in the middle of a step has an unsaved row of its own, and its
\* history is that of the saved plans.
THEOREM AgentInvariance == AgentSpec => []AgentIInv
  <1>1. AgentIInv /\ [AgentNext]_agentVars => AgentIInv'
    BY AgentStep
  <1> QED BY <1>1, AgentStart, PTL DEF AgentSpec

\* No tool of runAgentLoopWithTargets is executed, and no member promised
\* anything, but by a plan that is on disk and was made from those before it;
\* for any number of steps, tools and interruptions.
THEOREM EffectsFollowPlans == AgentSpec => []PlanBeforeEffects
  <1>1. AgentIInv => PlanBeforeEffects
    BY DEF AgentIInv, PlanBeforeEffects, EffectsPlanned, SavedInOrder, PromisedOnPlan, Tells, Saved
  <1> QED BY <1>1, AgentInvariance, PTL

\* What agent_task_steps says succeeded is neither asked for, nor executed, nor
\* written again, whatever interrupts the run.
THEOREM SavedStepsKept == AgentSpec => SavedStepsStay
  <1>1. AgentIInv /\ [AgentNext]_agentVars =>
          [/\ \A s \in StepIds : plans[s].status = "succeeded" => plans'[s] = plans[s]
           /\ \A c \in CallIds : receipts[c].status = "succeeded" =>
                receipts'[c] = receipts[c] /\ effects'[c] = effects[c]]_agentVars
    BY AgentStep DEF SavedStay, PlansStay, Saved
  <1> QED BY <1>1, AgentInvariance, PTL DEF AgentSpec, SavedStepsStay
-----------------------------------------------------------------------------
(***************************************************************************)
(* A run is taken up again: nothing but a changed setting or a tool that   *)
(* failed makes a saved plan unusable.  While neither happened, every      *)
(* result of every history is the one on its receipt, so that the history  *)
(* rebuilt from the plans and receipts is the one a plan was made from.    *)
(***************************************************************************)

Stored(c, result) == c \in CallIds /\ receipts[c].status = "succeeded" /\ receipts[c].result = result

\* A history has, for each call of its plans, the result on the receipt.
Recorded(history) ==
  \A r \in 1..Len(history) :
    /\ Len(history[r].results) = Len(history[r].plan)
    /\ \A k \in 1..Len(history[r].plan) : Stored(<<r, k>>, history[r].results[k])

PlansOfNow ==
  \A s \in StepIds :
    /\ plans[s].status # "absent" => plans[s].set = settings
    /\ Saved(s) => Recorded(plans[s].history)
    /\ plans[s].status = "cancelled" => task.state = "cancelled"

LoopOfNow ==
  loop.at # "away" =>
    /\ loop.set = settings
    /\ Recorded(loop.history)
    /\ \A k \in 1..Len(loop.done) : Stored(<<Step, k>>, loop.done[k])
    /\ loop.at = "store" => loop.result \notin Failing

Undisturbed ==
  causes = {} => PlansOfNow /\ LoopOfNow /\ task.code # "plan_unavailable"

LEMMA UndisturbedStart == AgentInit => Undisturbed
  <1> SUFFICES ASSUME AgentInit PROVE PlansOfNow /\ LoopOfNow /\ task.code # "plan_unavailable"
    BY DEF Undisturbed
  <1>1. \A s \in StepIds : plans[s].status = "absent"
    BY DEF AgentInit, NoPlan
  <1>2. loop.at = "away" /\ task.code = ""
    BY DEF AgentInit, NoLoop
  <1> QED BY <1>1, <1>2 DEF PlansOfNow, LoopOfNow, Saved

\* Receipts that succeeded stay, and with them what a history records.
LEMMA StoredStays ==
  ASSUME SavedStay, NEW c, NEW result, Stored(c, result)
  PROVE  Stored(c, result)'
  BY DEF SavedStay, Stored

LEMMA RecordedStays ==
  ASSUME SavedStay, NEW history, Recorded(history)
  PROVE  Recorded(history)'
  BY StoredStays DEF Recorded

\* Two histories of the same saved plans and receipts are the same.
LEMMA SameHistory ==
  ASSUME NEW n \in Nat, NEW g \in Histories, NEW h \in Histories,
         Tells(g, n), Tells(h, n), Recorded(g), Recorded(h)
  PROVE  g = h
  <1>1. Len(g) = n /\ Len(h) = n
    BY DEF Tells
  <1>2. ASSUME NEW r \in 1..n PROVE g[r] = h[r]
    <2>a. r \in 1..Len(g) /\ r \in 1..Len(h)
      BY <1>1
    <2> DEFINE Entries == [plan : Plans, results : Seq(Results)]
    <2>b. g \in Seq(Entries) /\ h \in Seq(Entries)
      BY DEF Histories
    <2>1. g[r] \in Entries /\ h[r] \in Entries
      <3> HIDE DEF Entries
      <3> QED BY <2>a, <2>b
    <2>2. g[r].plan = h[r].plan
      BY DEF Tells
    <2>3. Len(g[r].results) = Len(g[r].plan) /\ Len(h[r].results) = Len(h[r].plan)
      BY <2>a DEF Recorded
    <2>4. ASSUME NEW k \in 1..Len(g[r].results) PROVE g[r].results[k] = h[r].results[k]
      <3>1. k \in 1..Len(g[r].plan) /\ k \in 1..Len(h[r].plan)
        BY <2>2, <2>3
      <3>2. Stored(<<r, k>>, g[r].results[k]) /\ Stored(<<r, k>>, h[r].results[k])
        BY <2>a, <3>1 DEF Recorded
      <3> QED BY <3>2 DEF Stored
    <2>5. g[r].results = h[r].results
      BY <2>1, <2>2, <2>3, <2>4
    <2> QED BY <2>1, <2>2, <2>5
  <1> QED BY <1>1, <1>2 DEF Histories

\* A plan that is there can be used by the loop that comes to it.
LEMMA PlanIsUsable ==
  ASSUME AgentIInv, Undisturbed, causes = {}, loop.at = "prepare", Current, Step <= MaxSteps,
         plans[Step].status # "absent"
  PROVE  Usable(plans[Step])
  <1>1. loop \in Loops /\ Step \in StepIds /\ Step - 1 \in Nat
    BY StepIdsAre DEF AgentIInv, AgentTyped, Loops, Step
  <1>2. plans[Step].status # "cancelled" /\ plans[Step].set = loop.set
    BY <1>1 DEF Undisturbed, PlansOfNow, LoopOfNow, Current
  <1>3. ASSUME Saved(Step) PROVE plans[Step].history = loop.history
    <2>1. Tells(plans[Step].history, Step - 1) /\ Tells(loop.history, Step - 1)
      BY <1>1, <1>3 DEF AgentIInv, SavedInOrder, KnowsItsHistory
    <2>2. Recorded(plans[Step].history) /\ Recorded(loop.history)
      BY <1>1, <1>3 DEF Undisturbed, PlansOfNow, LoopOfNow
    <2>3. plans[Step].history \in Histories /\ loop.history \in Histories
      BY <1>1 DEF AgentIInv, AgentTyped, PlanRows, Loops
    <2> QED BY <1>1, <2>1, <2>2, <2>3, SameHistory
  <1> QED BY <1>2, <1>3 DEF Usable, Saved

\* Rows that keep what they were asked with, and end with the run at most.
RowsKept ==
  /\ UNCHANGED settings
  /\ task.state = "cancelled" => task'.state = "cancelled"
  /\ \A s \in StepIds :
       /\ plans'[s].set = plans[s].set /\ plans'[s].history = plans[s].history
       /\ plans'[s].status # "absent" => plans[s].status # "absent"
       /\ Saved(s)' => Saved(s)
       /\ plans'[s].status = "cancelled" => plans[s].status = "cancelled" \/ task'.state = "cancelled"

LEMMA PlansOfNowStay ==
  ASSUME SavedStay, PlansOfNow, RowsKept
  PROVE  PlansOfNow'
  <1> SUFFICES ASSUME NEW s \in StepIds
               PROVE  /\ plans'[s].status # "absent" => plans'[s].set = settings'
                      /\ Saved(s)' => Recorded(plans[s].history)'
                      /\ plans'[s].status = "cancelled" => task'.state = "cancelled"
    BY DEF PlansOfNow
  <1>1. Saved(s)' => Recorded(plans[s].history)'
    <2> SUFFICES ASSUME Saved(s)' PROVE Recorded(plans[s].history)'
      OBVIOUS
    <2>1. Recorded(plans[s].history) /\ plans'[s].history = plans[s].history
      BY DEF RowsKept, PlansOfNow
    <2> QED BY <2>1, StoredStays DEF Recorded
  <1> QED BY <1>1 DEF RowsKept, PlansOfNow

\* A loop that goes on with its settings, history and results.
LoopKept ==
  /\ UNCHANGED settings
  /\ loop'.at # "away" => /\ loop.at # "away" /\ loop'.set = loop.set /\ loop'.step = loop.step
                          /\ loop'.history = loop.history /\ loop'.done = loop.done
                          /\ loop'.at = "store" => loop'.result \notin Failing

LEMMA LoopOfNowStays ==
  ASSUME SavedStay, LoopOfNow, LoopKept
  PROVE  LoopOfNow'
  <1> SUFFICES ASSUME loop'.at # "away"
               PROVE  /\ loop'.set = settings'
                      /\ Recorded(loop.history)'
                      /\ \A k \in 1..Len(loop'.done) : Stored(<<Step, k>>, loop.done[k])'
                      /\ loop'.at = "store" => loop'.result \notin Failing
    BY DEF LoopOfNow
  <1>1. /\ Recorded(loop.history) /\ loop'.history = loop.history
        /\ \A k \in 1..Len(loop.done) : Stored(<<Step, k>>, loop.done[k])
        /\ loop'.done = loop.done /\ loop'.step = loop.step
    BY DEF LoopOfNow, LoopKept
  <1>2. Recorded(loop.history)'
    BY <1>1, StoredStays DEF Recorded
  <1>3. \A k \in 1..Len(loop'.done) : Stored(<<Step, k>>, loop.done[k])'
    BY <1>1, StoredStays DEF Step
  <1> QED BY <1>2, <1>3 DEF LoopOfNow, LoopKept

\* A worker that goes away, or one whose loop goes on, with the rows kept.
LEMMA KeptStep ==
  ASSUME AgentIInv, Undisturbed, SavedStay, RowsKept, LoopKept \/ loop'.at = "away",
         causes' = {} => causes = {}, task'.code = "plan_unavailable" => task' = task
  PROVE  Undisturbed'
  <1> SUFFICES ASSUME causes' = {}
               PROVE  PlansOfNow' /\ LoopOfNow' /\ task'.code # "plan_unavailable"
    BY DEF Undisturbed
  <1>1. PlansOfNow /\ LoopOfNow /\ task.code # "plan_unavailable"
    BY DEF Undisturbed
  <1>2. LoopOfNow'
    BY <1>1, LoopOfNowStays DEF LoopOfNow
  <1> QED BY <1>1, <1>2, PlansOfNowStay

LEMMA SameRowsKept ==
  ASSUME UNCHANGED <<plans, settings>>, task.state = "cancelled" => task'.state = "cancelled"
  PROVE  RowsKept
  BY DEF RowsKept, Saved

LEMMA AwayIsAway == NoLoop.at = "away"
  BY DEF NoLoop

LEMMA RequestEndsUndisturbed ==
  ASSUME AgentIInv, Undisturbed, SavedStay, GiveUp \/ NotPlanned
  PROVE  Undisturbed'
  <1>1. /\ plans \in [StepIds -> PlanRows] /\ loop.at = "ask" => Step \in StepIds
        /\ loop' = NoLoop /\ UNCHANGED <<settings, causes>>
    BY DEF GiveUp, NotPlanned, Ends, AgentIInv, AgentTyped, AsksForItsRow
  <1>2. plans' = plans \/ (loop.at = "ask" /\ plans' = [plans EXCEPT ![Step].status = "failed"])
    BY DEF GiveUp, NotPlanned
  <1>3. /\ task.state = "cancelled" => task'.state = "cancelled"
        /\ task'.code = "plan_unavailable" => task' = task
    BY DEF GiveUp, NotPlanned, Current, Ends
  <1>4. RowsKept
    <2>1. CASE plans' = plans
      BY <1>1, <1>3, <2>1, SameRowsKept
    <2>2. CASE loop.at = "ask" /\ plans' = [plans EXCEPT ![Step].status = "failed"]
      <3>1. plans[Step].status # "absent"
        BY <2>2 DEF AgentIInv, AsksForItsRow
      <3> QED BY <1>1, <1>3, <2>2, <3>1 DEF RowsKept, PlanRows, Saved
    <2> QED BY <1>2, <2>1, <2>2
  <1> QED BY <1>1, <1>3, <1>4, KeptStep, AwayIsAway

LEMMA EndingUndisturbed ==
  ASSUME AgentIInv, Undisturbed, SavedStay, TooManySteps \/ Reply \/ StepWriteFails
  PROVE  Undisturbed'
  <1>1. UNCHANGED <<plans, settings, causes>> /\ loop' = NoLoop
    BY DEF TooManySteps, Reply, StepWriteFails, Ends
  <1>2. /\ task.state = "cancelled" => task'.state = "cancelled"
        /\ task'.code = "plan_unavailable" => task' = task
    <2>1. CASE TooManySteps
      BY <2>1 DEF TooManySteps, Ends, Current
    <2>2. CASE Reply
      <3>1. Current /\ task' = [state |-> "answered", code |-> ""]
        BY <2>2 DEF Reply, Ends
      <3> QED BY <3>1 DEF Current
    <2>3. CASE StepWriteFails
      <3>1. CASE ~ Current
        BY <2>3, <3>1 DEF StepWriteFails
      <3>2. CASE Current
        <4>1. PICK code \in {"failed", "persistence_failed"} : Ends("failed", code)
          BY <2>3, <3>2 DEF StepWriteFails
        <4> QED BY <3>2, <4>1 DEF Ends, Current
      <3> QED BY <3>1, <3>2
    <2> QED BY <2>1, <2>2, <2>3
  <1> QED BY <1>1, <1>2, SameRowsKept, KeptStep, AwayIsAway

\* The contract has not changed and the plan can be used: nothing is refused.
LEMMA IncompatibleUndisturbed ==
  ASSUME AgentIInv, Undisturbed, Incompatible
  PROVE  causes # {}
  <1> SUFFICES ASSUME causes = {} PROVE FALSE
    OBVIOUS
  <1>1. loop.at # "away" => SameContract
    BY DEF Undisturbed, LoopOfNow, SameContract
  <1> QED BY <1>1, PlanIsUsable DEF Incompatible

LEMMA RestartUndisturbed ==
  ASSUME AgentIInv, Undisturbed, SavedStay, RestartLoop
  PROVE  Undisturbed'
  <1>1. plans \in [StepIds -> PlanRows] /\ loop' = NoLoop /\ UNCHANGED <<settings, causes>>
    BY DEF RestartLoop, AgentIInv, AgentTyped
  <1>2. /\ task.state = "cancelled" => task'.state = "cancelled"
        /\ task'.code = task.code
    BY DEF RestartLoop, Current
  <1>3. RowsKept
    BY <1>1, <1>2 DEF RestartLoop, RowsKept, PlanRows, Saved
  <1>4. causes' = {} => task'.code # "plan_unavailable"
    BY <1>1, <1>2 DEF Undisturbed
  <1>5. causes' = {} => PlansOfNow' /\ LoopOfNow'
    BY <1>1, <1>3, PlansOfNowStay, AwayIsAway DEF Undisturbed, LoopOfNow
  <1> QED BY <1>4, <1>5 DEF Undisturbed


LEMMA CancelUndisturbed ==
  ASSUME AgentIInv, Undisturbed, SavedStay, CancelTask
  PROVE  Undisturbed'
  <1>1. /\ plans \in [StepIds -> PlanRows] /\ UNCHANGED <<loop, settings, causes>>
        /\ task'.state = "cancelled" /\ task'.code = task.code
    BY DEF CancelTask, AgentIInv, AgentTyped
  <1>2. RowsKept
    BY <1>1 DEF CancelTask, RowsKept, PlanRows, Saved
  <1>3. causes' = {} => PlansOfNow' /\ LoopOfNow'
    <2> SUFFICES ASSUME causes' = {} PROVE PlansOfNow' /\ LoopOfNow'
      OBVIOUS
    <2>1. PlansOfNow /\ LoopOfNow
      BY <1>1 DEF Undisturbed
    <2>2. LoopKept
      BY <1>1, <2>1 DEF LoopKept, LoopOfNow
    <2> QED BY <1>2, <2>1, <2>2, PlansOfNowStay, LoopOfNowStays
  <1> QED BY <1>1, <1>3 DEF Undisturbed

\* A run that failed was not cancelled, and none of its rows is.
LEMMA RetryUndisturbed ==
  ASSUME AgentIInv, Undisturbed, SavedStay, RetryLoop
  PROVE  Undisturbed'
  <1>1. /\ plans \in [StepIds -> PlanRows] /\ UNCHANGED <<loop, settings, causes>>
        /\ task.state = "failed" /\ task'.code = "" /\ loop.at = "away"
    BY DEF RetryLoop, AgentIInv, AgentTyped, WorksOnItsRun
  <1>2. RowsKept
    BY <1>1 DEF RetryLoop, RowsKept, PlanRows, Saved, Reset
  <1> QED BY <1>1, <1>2, KeptStep

\* The worker takes the run with the settings there are, or goes on with a row.
LEMMA BeginUndisturbed ==
  ASSUME AgentIInv, Undisturbed, SavedStay, BeginLoop
  PROVE  Undisturbed'
  <1>1. /\ UNCHANGED <<plans, settings, causes>> /\ task'.code = ""
        /\ loop'.set = settings /\ loop'.history = <<>> /\ loop'.done = <<>>
        /\ loop'.at = "prepare" /\ task.state = "queued"
    BY DEF BeginLoop, NoLoop
  <1>2. RowsKept
    BY <1>1, SameRowsKept
  <1>3. LoopOfNow'
    <2>1. Len(<<>>) = 0 /\ 1..0 = {}
      OBVIOUS
    <2>2. Len(loop'.history) = 0 /\ Len(loop'.done) = 0
      BY <1>1, <2>1
    <2>3. Recorded(loop.history)'
      BY <2>1, <2>2 DEF Recorded
    <2> QED BY <1>1, <2>1, <2>2, <2>3 DEF LoopOfNow
  <1> QED BY <1>1, <1>2, <1>3, PlansOfNowStay DEF Undisturbed

LEMMA QuietUndisturbed ==
  ASSUME AgentIInv, Undisturbed, SavedStay, UNCHANGED <<task, plans, settings>>,
         \/ Restore \/ OpenTool \/ \E plan \in Plans : PlanArrives(plan)
         \/ \E says \in BOOLEAN : Announce(says)
  PROVE  Undisturbed'
  <1>1. loop \in Loops /\ UNCHANGED causes
    BY DEF Restore, PlanArrives, Announce, OpenTool, AgentIInv, AgentTyped
  <1>2. /\ loop.at # "away" /\ loop'.set = loop.set /\ loop'.step = loop.step
        /\ loop'.history = loop.history /\ loop'.done = loop.done /\ loop'.at # "store"
    BY <1>1 DEF Restore, PlanArrives, Announce, OpenTool, CallsTool, LoopGoes, Loops
  <1> QED BY <1>1, <1>2, SameRowsKept, KeptStep DEF LoopKept

LEMMA ExecuteUndisturbed ==
  ASSUME AgentIInv, Undisturbed, SavedStay, NEW result \in Results, Execute(result)
  PROVE  Undisturbed'
  <1> SUFFICES ASSUME causes' = {}
               PROVE  PlansOfNow' /\ LoopOfNow' /\ task'.code # "plan_unavailable"
    BY DEF Undisturbed
  <1>1. causes = {} /\ result \notin Failing
    BY DEF Execute
  <1>2. /\ loop \in Loops /\ UNCHANGED <<task, plans, settings>>
        /\ loop.at = "execute" /\ loop' = [loop EXCEPT !.at = "store", !.result = result]
    BY DEF Execute, AgentIInv, AgentTyped
  <1>3. LoopKept
    BY <1>1, <1>2 DEF LoopKept, Loops
  <1>4. RowsKept
    BY <1>2, SameRowsKept
  <1>5. PlansOfNow /\ LoopOfNow /\ task.code # "plan_unavailable"
    BY <1>1 DEF Undisturbed
  <1> QED BY <1>2, <1>3, <1>4, <1>5, PlansOfNowStay, LoopOfNowStays


LEMMA OpenRequestUndisturbed ==
  ASSUME AgentIInv, Undisturbed, SavedStay, OpenRequest
  PROVE  Undisturbed'
  <1> SUFFICES ASSUME causes' = {}
               PROVE  PlansOfNow' /\ LoopOfNow' /\ task'.code # "plan_unavailable"
    BY DEF Undisturbed
  <1> DEFINE row == [NoPlan EXCEPT !.status = "running", !.set = loop.set, !.history = loop.history]
  <1>1. /\ loop \in Loops /\ Step \in StepIds /\ plans \in [StepIds -> PlanRows]
        /\ plans' = [plans EXCEPT ![Step] = row] /\ loop' = [loop EXCEPT !.at = "ask"]
        /\ UNCHANGED <<task, settings, causes>> /\ loop.at = "prepare"
    BY StepIdsAre DEF OpenRequest, LoopGoes, AgentIInv, AgentTyped, Loops, Step
  <1>2. row.status = "running" /\ row.set = loop.set
    BY DEF NoPlan
  <1> HIDE DEF row
  <1>3. PlansOfNow /\ LoopOfNow /\ task.code # "plan_unavailable"
    BY <1>1 DEF Undisturbed
  <1>4. LoopKept
    BY <1>1 DEF LoopKept, Loops
  <1>5. PlansOfNow'
    <2> SUFFICES ASSUME NEW s \in StepIds
                 PROVE  /\ plans'[s].status # "absent" => plans'[s].set = settings'
                        /\ Saved(s)' => Recorded(plans[s].history)'
                        /\ plans'[s].status = "cancelled" => task'.state = "cancelled"
      BY DEF PlansOfNow
    <2>1. CASE s = Step
      BY <1>1, <1>2, <1>3, <2>1 DEF LoopOfNow, Saved
    <2>2. CASE s # Step
      <3>1. plans'[s] = plans[s]
        BY <1>1, <2>2
      <3>2. Saved(s)' => Recorded(plans[s].history)'
        <4> SUFFICES ASSUME Saved(s)' PROVE Recorded(plans[s].history)'
          OBVIOUS
        <4>1. Recorded(plans[s].history)
          BY <1>3, <3>1 DEF PlansOfNow, Saved
        <4> QED BY <3>1, <4>1, StoredStays DEF Recorded
      <3> QED BY <1>1, <1>3, <3>1, <3>2 DEF PlansOfNow
    <2> QED BY <2>1, <2>2
  <1> QED BY <1>1, <1>3, <1>4, <1>5, LoopOfNowStays

\* The plan was made from the history in the hands of the loop.
LEMMA SavePlanUndisturbed ==
  ASSUME AgentIInv, Undisturbed, SavedStay, SavePlan
  PROVE  Undisturbed'
  <1> SUFFICES ASSUME causes' = {}
               PROVE  PlansOfNow' /\ LoopOfNow' /\ task'.code # "plan_unavailable"
    BY DEF Undisturbed
  <1>1. /\ loop \in Loops /\ Step \in StepIds /\ plans \in [StepIds -> PlanRows]
        /\ plans' = [plans EXCEPT ![Step].plan = loop.plan, ![Step].status = "succeeded"]
        /\ loop' = [loop EXCEPT !.at = "act"] /\ plans[Step].history = loop.history
        /\ UNCHANGED <<task, settings, causes>> /\ loop.at = "save"
        /\ plans[Step].status # "absent"
    BY DEF SavePlan, PlanKept, LoopGoes, AgentIInv, AgentTyped, AsksForItsRow
  <1>2. /\ plans'[Step].status = "succeeded" /\ plans'[Step].set = plans[Step].set
        /\ plans'[Step].history = loop.history
    BY <1>1 DEF PlanRows
  <1>3. PlansOfNow /\ LoopOfNow /\ task.code # "plan_unavailable"
    BY <1>1 DEF Undisturbed
  <1>4. LoopKept
    BY <1>1 DEF LoopKept, Loops
  <1>5. LoopOfNow'
    BY <1>3, <1>4, LoopOfNowStays
  <1>6. PlansOfNow'
    <2> SUFFICES ASSUME NEW s \in StepIds
                 PROVE  /\ plans'[s].status # "absent" => plans'[s].set = settings'
                        /\ Saved(s)' => Recorded(plans[s].history)'
                        /\ plans'[s].status = "cancelled" => task'.state = "cancelled"
      BY DEF PlansOfNow
    <2>1. CASE s = Step
      <3>1. Recorded(loop.history)'
        BY <1>1, <1>5 DEF LoopOfNow, Loops
      <3>2. loop'.history = plans'[s].history
        BY <1>1, <1>2, <2>1 DEF Loops
      <3>3. Recorded(plans[s].history)'
        BY <3>1, <3>2 DEF Recorded
      <3> QED BY <1>1, <1>2, <1>3, <2>1, <3>3 DEF PlansOfNow
    <2>2. CASE s # Step
      <3>1. plans'[s] = plans[s]
        BY <1>1, <2>2
      <3>2. Saved(s)' => Recorded(plans[s].history)'
        <4> SUFFICES ASSUME Saved(s)' PROVE Recorded(plans[s].history)'
          OBVIOUS
        <4>1. Recorded(plans[s].history)
          BY <1>3, <3>1 DEF PlansOfNow, Saved
        <4> QED BY <3>1, <4>1, StoredStays DEF Recorded
      <3> QED BY <1>1, <1>3, <3>1, <3>2 DEF PlansOfNow
    <2> QED BY <2>1, <2>2
  <1> QED BY <1>1, <1>3, <1>5, <1>6

\* A result that is on its receipt goes to those of the plan.
LEMMA TakesStoredResult ==
  ASSUME AgentIInv, Undisturbed, SavedStay, NEW result \in Results, TakeResult(result),
         loop.at # "away", Call \in CallIds, receipts'[Call].status = "succeeded",
         receipts'[Call].result = result, UNCHANGED <<plans, settings, causes>>, Current
  PROVE  Undisturbed'
  <1>1. CASE result \in Final
    <2>1. loop' = NoLoop /\ task' = [state |-> "answered", code |-> ""] /\ task.state = "running"
      BY <1>1 DEF TakeResult, Ends, Current
    <2>2. task'.code = "" /\ task.state # "cancelled"
      BY <2>1
    <2> QED BY <2>1, <2>2, SameRowsKept, KeptStep, AwayIsAway
  <1>2. CASE result \notin Final
    <2> SUFFICES ASSUME causes' = {}
                 PROVE  PlansOfNow' /\ LoopOfNow' /\ task'.code # "plan_unavailable"
      BY DEF Undisturbed
    <2>1. /\ loop' = [loop EXCEPT !.at = "tools", !.result = "none", !.done = Append(@, result)]
          /\ loop \in Loops /\ task' = task
      BY <1>2 DEF TakeResult, AgentIInv, AgentTyped
    <2>2. PICK done :
            /\ done = Append(loop.done, result) /\ Len(done) = Len(loop.done) + 1
            /\ Len(loop.done) \in Nat
            /\ \A k \in 1..Len(loop.done) : done[k] = loop.done[k]
            /\ done[Len(loop.done) + 1] = result
      <3>1. loop.done \in Seq(Results)
        BY <2>1 DEF Loops
      <3>2. /\ Len(Append(loop.done, result)) = Len(loop.done) + 1 /\ Len(loop.done) \in Nat
            /\ \A k \in 1..Len(loop.done) : Append(loop.done, result)[k] = loop.done[k]
            /\ Append(loop.done, result)[Len(loop.done) + 1] = result
        BY <3>1
      <3> QED BY <3>2
    <2>4. /\ loop'.at = "tools" /\ loop'.set = loop.set /\ loop'.step = loop.step
          /\ loop'.history = loop.history /\ loop'.done = done
      BY <2>1, <2>2 DEF Loops
    <2>5. PlansOfNow /\ LoopOfNow /\ task.code # "plan_unavailable"
      BY DEF Undisturbed
    <2>6. \A k \in 1..Len(loop'.done) : Stored(<<Step, k>>, loop.done[k])'
      <3> SUFFICES ASSUME NEW k \in 1..Len(done) PROVE Stored(<<loop.step, k>>, done[k])'
        BY <2>4 DEF Step, Stored
      <3>1. CASE k \in 1..Len(loop.done)
        <4>1. Stored(<<loop.step, k>>, done[k])
          BY <2>2, <2>5, <3>1 DEF LoopOfNow, Step
        <4>2. Stored(<<loop.step, k>>, done[k])'
          BY <2>4, <4>1 DEF SavedStay, Stored
        <4> QED BY <4>2
      <3>2. CASE k = Len(loop.done) + 1
        <4>1. Call = <<loop.step, k>> /\ done[k] = result
          BY <2>2, <3>2 DEF Call, Step
        <4>2. Stored(<<loop.step, k>>, result)'
          BY <2>4, <4>1 DEF Stored, Call, Step
        <4> QED BY <4>1, <4>2
      <3> QED BY <2>2, <3>1, <3>2
    <2>7. Recorded(loop.history)'
      BY <2>4, <2>5, StoredStays DEF LoopOfNow, Recorded
    <2>8. LoopOfNow'
      BY <2>4, <2>5, <2>6, <2>7 DEF LoopOfNow
    <2> QED BY <2>1, <2>5, <2>8, SameRowsKept, PlansOfNowStay
  <1> QED BY <1>1, <1>2

LEMMA ReuseUndisturbed ==
  ASSUME AgentIInv, Undisturbed, SavedStay, Reuse
  PROVE  Undisturbed'
  <1>1. /\ loop.at = "tools" /\ TakeResult(receipts[Call].result) /\ Current
        /\ UNCHANGED <<plans, receipts, settings, causes>>
        /\ receipts[Call].status = "succeeded"
    BY DEF Reuse, CallsTool, Kept
  <1>2. Call \in CallIds
    BY <1>1, CallIsOne DEF Reuse, CallsTool
  <1>3. receipts[Call].result \in Results
    BY <1>1, <1>2 DEF AgentIInv, AgentTyped
  <1> QED BY <1>1, <1>2, <1>3, TakesStoredResult

LEMMA StoreResultUndisturbed ==
  ASSUME AgentIInv, Undisturbed, SavedStay, StoreResult
  PROVE  Undisturbed'
  <1>1. /\ loop \in Loops /\ loop.at = "store" /\ loop.result \in Results
        /\ Step \in StepIds /\ Len(loop.done) < Len(loop.plan)
        /\ receipts \in [CallIds -> ReceiptRows]
        /\ receipts' = [receipts EXCEPT ![Call] =
             [status |-> IF loop.result \in Failing THEN "failed" ELSE "succeeded",
              result |-> loop.result]]
        /\ UNCHANGED <<plans, settings, causes>>
    BY DEF StoreResult, AgentIInv, AgentTyped, ToolIsOpen, ActsOnSavedPlan
  <1>2. Call \in CallIds
    <2>1. Len(loop.plan) \in 0..MaxCalls /\ Len(loop.done) \in Nat
      BY <1>1, PlanFacts DEF Loops
    <2>2. Len(loop.done) + 1 \in 1..MaxCalls
      BY <1>1, <2>1, AgentAssumption
    <2> QED BY <1>1, <2>2 DEF Call, CallIds
  <1>3. CASE causes = {} /\ Current
    <2>1. loop.result \notin Failing
      BY <1>1, <1>3 DEF Undisturbed, LoopOfNow
    <2>2. receipts'[Call].status = "succeeded" /\ receipts'[Call].result = loop.result
      BY <1>1, <1>2, <2>1
    <2>3. TakeResult(loop.result)
      BY <1>3 DEF StoreResult
    <2> QED BY <1>1, <1>2, <1>3, <2>2, <2>3, TakesStoredResult
  <1>4. CASE causes # {}
    BY <1>1, <1>4 DEF Undisturbed
  <1>5. CASE ~ Current
    <2>1. loop' = NoLoop /\ task' = task
      BY <1>5 DEF StoreResult
    <2> QED BY <1>1, <2>1, SameRowsKept, KeptStep, AwayIsAway
  <1> QED BY <1>3, <1>4, <1>5

\* The plan and its results join the history.
LEMMA NextStepUndisturbed ==
  ASSUME AgentIInv, Undisturbed, SavedStay, NextStep
  PROVE  Undisturbed'
  <1> SUFFICES ASSUME causes' = {}
               PROVE  PlansOfNow' /\ LoopOfNow' /\ task'.code # "plan_unavailable"
    BY DEF Undisturbed
  <1> DEFINE Entries == [plan : Plans, results : Seq(Results)]
  <1>1. /\ UNCHANGED <<task, plans, receipts, settings, causes>> /\ loop.at = "tools"
        /\ loop \in Loops /\ Len(loop.done) = Len(loop.plan)
        /\ Tells(loop.history, Step - 1)
    BY DEF NextStep, AgentIInv, AgentTyped, KnowsItsHistory
  <1>2. PlansOfNow /\ LoopOfNow /\ task.code # "plan_unavailable"
    BY <1>1 DEF Undisturbed
  <1>3. PICK entry \in Entries : entry.plan = loop.plan /\ entry.results = loop.done
                                 /\ entry = [plan |-> loop.plan, results |-> loop.done]
    <2>1. [plan |-> loop.plan, results |-> loop.done] \in Entries
      BY <1>1 DEF Loops
    <2> QED BY <2>1
  <1>4. PICK history :
          /\ history = Append(loop.history, entry) /\ Len(history) = Step /\ Step \in Nat \ {0}
          /\ \A r \in 1..(Step - 1) : history[r] = loop.history[r]
          /\ history[Step] = entry
    <2>1. loop.history \in Seq(Entries) /\ Step \in Nat \ {0} /\ Len(loop.history) = Step - 1
      BY <1>1 DEF Loops, Histories, Step, Tells
    <2> HIDE DEF Entries
    <2>2. /\ Len(Append(loop.history, entry)) = Step
          /\ \A r \in 1..(Step - 1) : Append(loop.history, entry)[r] = loop.history[r]
          /\ Append(loop.history, entry)[Step] = entry
      BY <2>1
    <2> QED BY <2>1, <2>2
  <1>5. /\ loop'.at = "prepare" /\ loop'.set = loop.set /\ loop'.done = <<>>
        /\ loop'.history = history
    BY <1>1, <1>3, <1>4 DEF NextStep, Loops
  <1>6. ASSUME NEW r \in 1..Step
        PROVE  /\ Len(history[r].results) = Len(history[r].plan)
               /\ \A k \in 1..Len(history[r].plan) : Stored(<<r, k>>, history[r].results[k])
    <2>1. CASE r = Step
      BY <1>1, <1>2, <1>3, <1>4, <2>1 DEF LoopOfNow
    <2>2. CASE r # Step
      <3>1. r \in 1..Len(loop.history) /\ history[r] = loop.history[r]
        BY <1>1, <1>4, <2>2 DEF Tells
      <3> QED BY <1>1, <1>2, <3>1 DEF LoopOfNow, Recorded
    <2> QED BY <2>1, <2>2
  <1>7. Recorded(loop.history)'
    <2>1. Recorded(history)
      BY <1>4, <1>6 DEF Recorded
    <2>2. Recorded(history)'
      BY <1>1, <2>1 DEF Recorded, Stored
    <2> QED BY <1>5, <2>2 DEF Recorded
  <1>8. LoopOfNow'
    <2>1. Len(<<>>) = 0 /\ 1..0 = {}
      OBVIOUS
    <2> QED BY <1>1, <1>2, <1>5, <1>7, <2>1 DEF LoopOfNow
  <1> QED BY <1>1, <1>2, <1>8, SameRowsKept, PlansOfNowStay

LEMMA ResumeStep ==
  ASSUME AgentIInv, Undisturbed, [AgentNext]_agentVars
  PROVE  Undisturbed'
  <1>1. SavedStay
    BY AgentStep
  <1>2. CASE UNCHANGED agentVars
    <2> SUFFICES ASSUME causes' = {}
                 PROVE  PlansOfNow' /\ LoopOfNow' /\ task'.code # "plan_unavailable"
      BY DEF Undisturbed
    <2>1. PlansOfNow /\ LoopOfNow /\ task.code # "plan_unavailable"
      BY <1>2 DEF agentVars, Undisturbed
    <2>2. LoopKept /\ UNCHANGED <<task, plans, settings>>
      BY <1>2, <2>1 DEF agentVars, LoopKept, LoopOfNow
    <2> QED BY <1>1, <2>1, <2>2, SameRowsKept, PlansOfNowStay, LoopOfNowStays
  <1>3. CASE Incompatible
    BY <1>3, IncompatibleUndisturbed DEF Incompatible, Undisturbed
  <1>4. CASE ChangeSettings
    BY <1>4 DEF ChangeSettings, Undisturbed
  <1>5. CASE Restore \/ OpenTool \/ (\E plan \in Plans : PlanArrives(plan))
             \/ \E says \in BOOLEAN : Announce(says)
    <2>1. UNCHANGED <<task, plans, settings>>
      BY <1>5 DEF Restore, OpenTool, PlanArrives, Announce
    <2> QED BY <1>1, <1>5, <2>1, QuietUndisturbed
  <1>6. ASSUME NEW result \in Results, Execute(result) PROVE Undisturbed'
    BY <1>1, <1>6, ExecuteUndisturbed
  <1> QED BY <1>1, <1>2, <1>3, <1>4, <1>5, <1>6, BeginUndisturbed, OpenRequestUndisturbed,
             EndingUndisturbed, RequestEndsUndisturbed, SavePlanUndisturbed, ReuseUndisturbed,
             StoreResultUndisturbed, NextStepUndisturbed, RestartUndisturbed, CancelUndisturbed,
             RetryUndisturbed DEF AgentNext, LoopStep

\* However often a run is interrupted, cancelled or retried, and wherever: as
\* long as its tools answer ok and the settings stay, errTaskModelCheckpoint
\* does not end it.
THEOREM InterruptedRunsResume == AgentSpec => []PlansResume
  <1>1. Undisturbed => PlansResume
    BY DEF Undisturbed, PlansResume
  <1>2. AgentIInv /\ Undisturbed /\ [AgentNext]_agentVars => Undisturbed'
    BY ResumeStep
  <1> QED BY <1>1, <1>2, UndisturbedStart, AgentInvariance, PTL DEF AgentSpec

-----------------------------------------------------------------------------
(* The types.                                                              *)

TaskStates == {"queued", "running", "answered", "failed", "cancelled"}
TaskCodes == {"", "failed", "plan_unavailable", "persistence_failed"}
TaskTyped == task \in [state : TaskStates, code : TaskCodes]
OkIsKept ==
  \A c \in CallIds : receipts[c].status = "succeeded" => receipts[c].result \in Results \ Failing
TroublesBounded == troubles \in 0..MaxTroubles
StepsBounded == loop.step <= MaxSteps + 1

AgentShape == TaskTyped /\ OkIsKept /\ StepsBounded /\ promised \in BOOLEAN /\ TroublesBounded

TaskMoves ==
  \/ task' = task
  \/ \E state \in TaskStates, code \in TaskCodes : task' = [state |-> state, code |-> code]
TroubleOrNone == troubles' = troubles \/ Trouble

LEMMA ShapeMoves ==
  ASSUME AgentShape, TaskMoves, TroubleOrNone,
         \A c \in CallIds : receipts'[c].status = "succeeded" =>
                              receipts'[c] = receipts[c] \/ receipts'[c].result \in Results \ Failing,
         StepsBounded', promised' \in BOOLEAN
  PROVE  AgentShape'
  <1>1. TroublesBounded /\ TroubleOrNone => TroublesBounded'
    BY AgentAssumption DEF TroublesBounded, TroubleOrNone, Trouble
  <1>2. TaskTyped /\ TaskMoves => TaskTyped'
    BY DEF TaskTyped, TaskMoves
  <1>3. OkIsKept'
    BY DEF AgentShape, OkIsKept
  <1> QED BY <1>1, <1>2, <1>3 DEF AgentShape

LEMMA TaskIs ==
  ASSUME TaskTyped
  PROVE  /\ task = [state |-> task.state, code |-> task.code]
         /\ task.state \in TaskStates /\ task.code \in TaskCodes
         /\ \A s : [task EXCEPT !.state = s] = [state |-> s, code |-> task.code]
  BY DEF TaskTyped

LEMMA TaskMoving ==
  /\ \A state \in TaskStates, code \in TaskCodes :
       task' = [state |-> state, code |-> code] => TaskMoves
  /\ task' = task => TaskMoves
  /\ \A state \in TaskStates : TaskTyped /\ task' = [task EXCEPT !.state = state] => TaskMoves
  BY TaskIs DEF TaskMoves

LEMMA AgentShapeStep == ASSUME AgentIInv, AgentShape, [AgentNext]_agentVars PROVE AgentShape'
  <1>0. /\ loop \in Loops /\ receipts \in [CallIds -> ReceiptRows] /\ TaskTyped
        /\ StepsBounded /\ promised \in BOOLEAN
        /\ \A at : [loop EXCEPT !.at = at].step = loop.step
    BY DEF AgentIInv, AgentTyped, AgentShape, Loops
  <1>10. loop' = NoLoop => StepsBounded'
    BY AgentAssumption DEF NoLoop, StepsBounded
  <1>11. loop'.step = loop.step => StepsBounded'
    BY <1>0 DEF StepsBounded
  <1>12. \A state, code : Ends(state, code) => task' = [state |-> state, code |-> code] /\ StepsBounded'
    BY <1>10 DEF Ends
  <1>13. \A result : TakeResult(result) => TaskMoves /\ StepsBounded'
    <2> SUFFICES ASSUME NEW result, TakeResult(result) PROVE TaskMoves /\ StepsBounded'
      OBVIOUS
    <2>1. CASE result \in Final
      BY <1>12, <2>1, TaskMoving DEF TakeResult, TaskStates, TaskCodes
    <2>2. CASE result \notin Final
      BY <1>0, <1>11, <2>2, TaskMoving DEF TakeResult, Loops
    <2> QED BY <2>1, <2>2
  <1>1. CASE Restore \/ OpenRequest \/ GiveUp \/ SavePlan \/ UNCHANGED agentVars
               \/ (\E plan \in Plans : PlanArrives(plan)) \/ (\E says \in BOOLEAN : Announce(says))
    <2>1. receipts' = receipts /\ promised' \in BOOLEAN /\ task' = task /\ TroubleOrNone
      BY <1>0, <1>1 DEF Restore, OpenRequest, GiveUp, SavePlan, PlanArrives, Announce,
                  agentVars, TroubleOrNone
    <2>2. loop'.step = loop.step \/ loop' = NoLoop
      BY <1>0, <1>1 DEF Restore, OpenRequest, GiveUp, SavePlan, PlanArrives, Announce,
                  agentVars, LoopGoes, Loops
    <2> QED BY <1>10, <1>11, <2>1, <2>2, ShapeMoves, TaskMoving
  <1>2. CASE BeginLoop
    <2>1. receipts' = receipts /\ promised' \in BOOLEAN /\ TroubleOrNone
          /\ loop'.step = 1 /\ task' = [state |-> "running", code |-> ""]
      BY <1>0, <1>2 DEF BeginLoop, NoLoop, TroubleOrNone
    <2>2. StepsBounded'
      <3>1. 1 <= MaxSteps + 1
        BY StepIdsAre
      <3> QED BY <2>1, <3>1 DEF StepsBounded
    <2>3. TaskMoves
      BY <2>1, TaskMoving DEF TaskStates, TaskCodes
    <2> QED BY <2>1, <2>2, <2>3, ShapeMoves
  <1>3. CASE Incompatible \/ TooManySteps \/ NotPlanned \/ Reply \/ StepWriteFails
    <2>1. receipts' = receipts /\ promised' \in BOOLEAN /\ TroubleOrNone
      BY <1>0, <1>3 DEF Incompatible, TooManySteps, NotPlanned, Reply, StepWriteFails, TroubleOrNone
    <2>2. \/ \E state \in TaskStates, code \in TaskCodes : Ends(state, code)
          \/ loop' = NoLoop /\ task' = task
      BY <1>3 DEF Incompatible, TooManySteps, NotPlanned, Reply, StepWriteFails,
                  TaskStates, TaskCodes
    <2>3. TaskMoves /\ StepsBounded'
      BY <1>10, <1>12, <2>2, TaskMoving
    <2> QED BY <2>1, <2>3, ShapeMoves
  <1>4. CASE Reuse
    <2>1. receipts' = receipts /\ promised' \in BOOLEAN /\ TroubleOrNone
          /\ TakeResult(receipts[Call].result)
      BY <1>0, <1>4 DEF Reuse, TroubleOrNone
    <2> QED BY <1>13, <2>1, ShapeMoves
  <1>5. CASE OpenTool
    <2>1. \A c \in CallIds : receipts'[c].status = "succeeded" => receipts'[c] = receipts[c]
      BY <1>0, <1>5 DEF OpenTool, ReceiptRows
    <2>2. task' = task /\ promised' \in BOOLEAN /\ TroubleOrNone /\ loop'.step = loop.step
      BY <1>0, <1>5 DEF OpenTool, LoopGoes, TroubleOrNone
    <2> QED BY <1>11, <2>1, <2>2, ShapeMoves, TaskMoving
  <1>6. ASSUME NEW result \in Results, Execute(result) PROVE AgentShape'
    <2>1. receipts' = receipts /\ task' = task /\ promised' \in BOOLEAN /\ TroubleOrNone
          /\ loop'.step = loop.step
      BY <1>0, <1>6 DEF Execute, Loops, TroubleOrNone
    <2> QED BY <1>11, <2>1, ShapeMoves, TaskMoving
  <1>7. CASE StoreResult
    <2>1. loop.result \in Results
      BY <1>7 DEF StoreResult, AgentIInv, ToolIsOpen
    <2>2. \A c \in CallIds : receipts'[c].status = "succeeded" =>
             receipts'[c] = receipts[c] \/ receipts'[c].result \in Results \ Failing
      BY <1>0, <1>7, <2>1 DEF StoreResult
    <2>3. TaskMoves /\ StepsBounded'
      BY <1>10, <1>13, <1>7, TaskMoving DEF StoreResult
    <2>4. promised' \in BOOLEAN /\ TroubleOrNone
      BY <1>0, <1>7 DEF StoreResult, TroubleOrNone
    <2> QED BY <2>2, <2>3, <2>4, ShapeMoves
  <1>8. CASE NextStep
    <2>1. loop.step \in StepIds /\ loop'.step = loop.step + 1
      BY <1>0, <1>8 DEF NextStep, AgentIInv, ActsOnSavedPlan, Loops, Step
    <2>2. receipts' = receipts /\ task' = task /\ promised' \in BOOLEAN /\ TroubleOrNone
      BY <1>0, <1>8 DEF NextStep, TroubleOrNone
    <2>3. StepsBounded'
      BY <2>1, StepIdsAre DEF StepsBounded
    <2> QED BY <2>2, <2>3, ShapeMoves, TaskMoving
  <1>9. CASE RestartLoop \/ CancelTask \/ RetryLoop \/ ChangeSettings
    <2>1. promised' \in BOOLEAN /\ TroubleOrNone /\ (loop' = NoLoop \/ loop' = loop)
      BY <1>0, <1>9 DEF RestartLoop, CancelTask, RetryLoop, ChangeSettings, TroubleOrNone
    <2>2. \A c \in CallIds : receipts'[c].status = "succeeded" => receipts'[c] = receipts[c]
      <3>1. CASE RestartLoop
        BY <1>0, <3>1 DEF RestartLoop, ReceiptRows
      <3>2. CASE CancelTask
        BY <1>0, <3>2 DEF CancelTask, ReceiptRows
      <3>3. CASE RetryLoop
        BY <1>0, <3>3 DEF RetryLoop, Reset, NoReceipt, ReceiptRows
      <3>4. CASE ChangeSettings
        BY <3>4 DEF ChangeSettings
      <3> QED BY <1>9, <3>1, <3>2, <3>3, <3>4
    <2>3. \/ task' = task \/ (\E state \in TaskStates : task' = [task EXCEPT !.state = state])
          \/ task' = [state |-> "queued", code |-> ""]
      BY <1>9 DEF RestartLoop, CancelTask, RetryLoop, ChangeSettings, TaskStates
    <2>4. TaskMoves
      BY <1>0, <2>3, TaskMoving DEF TaskStates, TaskCodes
    <2> QED BY <1>10, <1>11, <2>1, <2>2, <2>4, ShapeMoves
  <1> QED BY <1>1, <1>2, <1>3, <1>4, <1>5, <1>6, <1>7, <1>8, <1>9 DEF AgentNext, LoopStep

\* The loop goes one step beyond the last at most, and what a tool answered ok
\* is all a succeeded receipt may hold.
THEOREM AgentTypes == AgentSpec => []AgentTypeOK
  <1>1. ASSUME AgentInit PROVE AgentShape
    <2>1. StepsBounded /\ TroublesBounded
      <3>1. 1 <= MaxSteps + 1 /\ 0 \in 0..MaxTroubles
        BY AgentAssumption
      <3>2. loop.step = 1 /\ troubles = 0
        BY <1>1 DEF AgentInit, NoLoop
      <3> QED BY <3>1, <3>2 DEF StepsBounded, TroublesBounded
    <2>2. TaskTyped /\ OkIsKept
      BY <1>1 DEF AgentInit, NoReceipt, TaskTyped, TaskStates, TaskCodes, OkIsKept
    <2> QED BY <1>1, <2>1, <2>2 DEF AgentInit, AgentShape
  <1>2. AgentIInv /\ AgentShape /\ [AgentNext]_agentVars => AgentShape'
    BY AgentShapeStep
  <1>3. ASSUME AgentIInv, AgentShape PROVE AgentTypeOK
    <2>1. loop.step \in 1..(MaxSteps + 1) /\ loop.done \in Seq(Results) /\ loop.at \in LoopPlaces
      BY <1>3, AgentAssumption DEF AgentIInv, AgentTyped, AgentShape, StepsBounded, Loops
    <2>2. AgentTyped /\ WorksOnItsRun
      BY <1>3 DEF AgentIInv
    <2> QED BY <1>3, <2>1, <2>2 DEF AgentTyped, AgentShape, AgentTypeOK, PlanRows, ReceiptRows,
          LoopPlaces, Sets, Histories, WorksOnItsRun, TaskTyped, TaskStates, TaskCodes, OkIsKept,
          TroublesBounded
  <1> QED BY <1>1, <1>2, <1>3, AgentInvariance, PTL DEF AgentSpec
=============================================================================
