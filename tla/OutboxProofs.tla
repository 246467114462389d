----------------------------- MODULE OutboxProofs -----------------------------
(***************************************************************************)
(* Proofs about Outbox, for every number of runs, rows, consumers and      *)
(* leases.  IInv is the inductive invariant: the invariants the runs check *)
(* and four facts they lean on.  The last part is the refinement: a step of *)
(* Outbox posts, drops or shows messages of the conversation feed, or      *)
(* leaves the feed as it is.                                               *)
(***************************************************************************)
EXTENDS Outbox, TLAPS

\* A settled row has no timer left to move.
SettledRowsQuiet ==
  \A d \in RowIds : outbox[d].status \in {"delivered", "failed", "cancelled", "deleted"} =>
    outbox[d].lease = 0 /\ outbox[d].wait = 0

\* A run that was not accepted belongs to no task and is the task of no run;
\* revisions count from one.
TasksOpened ==
  \A r \in Runs : /\ runs[r].state = "absent" => runs[r].task = NoTask
                  /\ runs[r].task # NoTask => /\ runs[runs[r].task].state # "absent"
                                              /\ runs[r].rev >= 1

\* No terminal row of a run that is responding was lost on the way.
RespondingRowsAlive ==
  \A r \in Runs : runs[r].state = "responding" =>
    \A d \in RowIds : outbox[d].run = r /\ outbox[d].phase = "terminal" =>
      outbox[d].status \in {"pending", "sending", "delivered", "deleted"}

IInv == /\ TypeOK
        /\ SettledRowsQuiet
        /\ TasksOpened
        /\ AnsweredOnce
        /\ OneWorkerPerRun
        /\ LiveRunsKeepInput
        /\ RetiredForGood
        /\ RespondingRowsAlive
        /\ RunOutcome
        /\ OneProgress
        /\ FifoPerConversation

\* The empty tables satisfy the inductive invariant.
THEOREM InitIInv == Init => IInv
  <1> SUFFICES ASSUME Init PROVE IInv
    OBVIOUS
  <1> USE OutboxAssumption DEF Init, NoRow, Runs, RowIds, NoRun, NoTask, NoOwner
  <1>1. TypeOK
    BY DEF TypeOK, RunRecord, RunStates, Delivery, Statuses
  <1>2. SettledRowsQuiet /\ TasksOpened
    BY DEF SettledRowsQuiet, TasksOpened
  <1>3. AnsweredOnce /\ OneWorkerPerRun /\ LiveRunsKeepInput /\ RetiredForGood
    BY DEF AnsweredOnce, OneWorkerPerRun, LiveRunsKeepInput, RetiredForGood, Outstanding
  <1>4. RespondingRowsAlive /\ RunOutcome
    BY DEF RespondingRowsAlive, RunOutcome, FullyShown
  <1>5. OneProgress /\ FifoPerConversation
    BY DEF OneProgress, FifoPerConversation
  <1> QED BY <1>1, <1>2, <1>3, <1>4, <1>5 DEF IInv

-----------------------------------------------------------------------------
(* What an update of one record does to its fields.                        *)

\* A change of state keeps the other columns of a run.
LEMMA RunMoved ==
  ASSUME NEW run \in RunRecord, NEW s \in RunStates
  PROVE  /\ To(run, s) \in RunRecord
         /\ To(run, s).state = s /\ To(run, s).input = run.input
         /\ To(run, s).task = run.task /\ To(run, s).rev = run.rev
         /\ To(run, s).retired = run.retired
  BY DEF RunRecord, To

\* Closing a run drops its input and keeps its revision and retirement.
LEMMA RunClosed ==
  ASSUME NEW run \in RunRecord, NEW s \in RunStates
  PROVE  /\ Closed(run, s) \in RunRecord
         /\ Closed(run, s).state = s /\ ~ Closed(run, s).input
         /\ Closed(run, s).task = run.task /\ Closed(run, s).rev = run.rev
         /\ Closed(run, s).retired = run.retired
  BY DEF RunRecord, Closed

\* What admission inserts is a run.
LEMMA AdmittedRecord ==
  ASSUME NEW t \in Runs \cup {NoTask}, NEW v \in 0..NumRuns
  PROVE  Admitted(t, v) \in RunRecord
  BY DEF Admitted, RunRecord, RunStates

\* A cancelled delivery has no lease and no wait, and keeps its run and phase.
LEMMA CancelledRow ==
  ASSUME NEW row \in Delivery
  PROVE  /\ Cancelled(row) \in Delivery
         /\ Cancelled(row).status = "cancelled"
         /\ Cancelled(row).run = row.run /\ Cancelled(row).phase = row.phase
         /\ Cancelled(row).attempts = row.attempts
         /\ Cancelled(row).lease = 0 /\ Cancelled(row).wait = 0
  BY DEF Delivery, Cancelled, Statuses

\* So has a delivery that was settled.
LEMMA SettledRow ==
  ASSUME NEW row \in Delivery, NEW status \in {"delivered", "failed", "pending"}
  PROVE  /\ Settled(row, status) \in Delivery
         /\ Settled(row, status).status = status
         /\ Settled(row, status).run = row.run /\ Settled(row, status).phase = row.phase
         /\ Settled(row, status).attempts = row.attempts
         /\ Settled(row, status).lease = 0 /\ Settled(row, status).wait = 0
  BY DEF Delivery, Settled, Statuses

-----------------------------------------------------------------------------
(* What a step that only drops open rows, or leaves the outbox alone, keeps. *)

RowsKeptOrDropped ==
  /\ nrows' = nrows
  /\ \A d \in RowIds :
       /\ outbox'[d].run = outbox[d].run /\ outbox'[d].phase = outbox[d].phase
       /\ \/ outbox'[d].status = outbox[d].status
          \/ Open(outbox[d]) /\ outbox'[d].status = "cancelled"
          \/ /\ outbox[d].phase = "terminal" /\ outbox[d].status \notin {"none", "delivered"}
             /\ outbox'[d].status = "deleted"

\* Rows that were dropped announce nothing, block nothing and await nothing.
LEMMA KeptRows ==
  ASSUME IInv, RowsKeptOrDropped
  PROVE  /\ OneProgress' /\ FifoPerConversation'
         /\ \A r : Outstanding(r)' => Outstanding(r)
  <1>1. OneProgress'
    BY DEF IInv, OneProgress, RowsKeptOrDropped, Open
  <1>2. FifoPerConversation'
    BY DEF IInv, FifoPerConversation, RowsKeptOrDropped, Open, SameConversation
  <1>3. \A r : Outstanding(r)' => Outstanding(r)
    BY DEF Outstanding, RowsKeptOrDropped, Open
  <1> QED BY <1>1, <1>2, <1>3

\* Revisions that do not move supersede what they superseded.
LEMMA SameSuperseded ==
  ASSUME \A r \in Runs : runs'[r].task = runs[r].task /\ runs'[r].rev = runs[r].rev
  PROVE  \A r \in Runs : Superseded(r)' <=> Superseded(r)
  BY DEF Superseded

\* Runs that are responding or delivered afterwards were so before, and lost
\* no terminal row.
LEMMA OutcomeKept ==
  ASSUME IInv, RowsKeptOrDropped,
         \A r \in Runs : runs'[r].state \in {"responding", "delivered"} =>
           /\ runs'[r].state = runs[r].state
           /\ runs'[r].state = "responding" => (Superseded(r)' => Superseded(r))
           /\ \A d \in RowIds : outbox[d].run = r /\ outbox[d].phase = "terminal" =>
                outbox'[d].status = outbox[d].status
  PROVE  RunOutcome' /\ RespondingRowsAlive'
  <1>1. RespondingRowsAlive'
    BY DEF IInv, RespondingRowsAlive, RowsKeptOrDropped
  <1>2. \A r : Outstanding(r)' => Outstanding(r)
    BY KeptRows
  <1>3. ASSUME NEW r \in Runs, runs'[r].state = "responding"
        PROVE  /\ ~ Superseded(r)'
               /\ \E d \in RowIds : /\ outbox'[d].run = r /\ outbox'[d].phase = "terminal"
                                    /\ Open(outbox'[d])
    BY <1>3 DEF IInv, RunOutcome, RowsKeptOrDropped, Open
  <1>4. ASSUME NEW r \in Runs, runs'[r].state = "delivered"
        PROVE  FullyShown(r)'
    BY <1>4 DEF IInv, RunOutcome, FullyShown, RowsKeptOrDropped
  <1>5. RunOutcome'
    BY <1>3, <1>4 DEF RunOutcome
  <1> QED BY <1>1, <1>5

\* A step that leaves the outbox alone keeps every row.
LEMMA UntouchedRows ==
  ASSUME IInv, UNCHANGED <<outbox, nrows>>
  PROVE  RowsKeptOrDropped /\ SettledRowsQuiet'
  BY DEF IInv, RowsKeptOrDropped, SettledRowsQuiet

-----------------------------------------------------------------------------
(* One lemma per action.                                                   *)

\* Admission that cancels nothing: the run opens a task, has none, or joins
\* the revision of another run.
LEMMA AdmitStep ==
  ASSUME IInv, NEW r \in Runs, NextRun(r),
         NEW t \in Runs \cup {NoTask}, NEW v \in 0..NumRuns,
         \/ t = NoTask
         \/ t = r /\ v = 1
         \/ \E p \in Runs : runs[p].task # NoTask /\ t = runs[p].task /\ v = runs[p].rev,
         runs' = [runs EXCEPT ![r] = Admitted(t, v)],
         UNCHANGED <<working, outbox, nrows>>
  PROVE  IInv'
  <1> USE DEF NoTask, NoRun
  <1>1. \A s \in Runs : s # r => runs'[s] = runs[s]
    BY DEF IInv, TypeOK
  <1>2. /\ runs'[r].state = "queued" /\ runs'[r].input
        /\ runs'[r].task = t /\ runs'[r].rev = v /\ ~ runs'[r].retired
    BY DEF IInv, TypeOK, Admitted
  <1>3. /\ runs[r].state = "absent" /\ runs[r].task = NoTask
        /\ r \notin working /\ ~ Outstanding(r)
    BY DEF IInv, NextRun, TasksOpened, OneWorkerPerRun, AnsweredOnce
  <1>4. TypeOK'
    BY AdmittedRecord DEF IInv, TypeOK
  <1>5. RowsKeptOrDropped /\ SettledRowsQuiet'
    BY UntouchedRows
  <1>6. TasksOpened'
    BY <1>1, <1>2, <1>3 DEF IInv, TasksOpened, TypeOK, RunRecord, Runs
  <1>7. \A s \in Runs : Superseded(s) => Superseded(s)'
    BY <1>1, <1>3 DEF Superseded
  <1>8. \A s \in Runs : s # r /\ Superseded(s)' => Superseded(s)
    <2> SUFFICES ASSUME NEW s \in Runs, s # r, NEW n \in Runs,
                        runs'[s].task # NoTask, runs'[n].task = runs'[s].task,
                        runs'[n].rev > runs'[s].rev
                 PROVE  Superseded(s)
      BY DEF Superseded
    <2>1. CASE n # r
      BY <2>1, <1>1 DEF Superseded
    <2>2. CASE n = r
      <3>1. t = runs[s].task /\ v > runs[s].rev /\ runs[s].task # NoTask
        BY <2>2, <1>1, <1>2
      <3>2. t # r
        BY <3>1, <1>3 DEF IInv, TasksOpened
      <3>3. PICK p \in Runs : t = runs[p].task /\ v = runs[p].rev
        BY <3>1, <3>2
      <3> QED BY <3>1, <3>3 DEF Superseded
    <2> QED BY <2>1, <2>2
  <1>9. AnsweredOnce'
    BY <1>1, <1>3, <1>5, KeptRows DEF IInv, AnsweredOnce
  <1>10. OneWorkerPerRun'
    BY <1>1, <1>3, <1>7 DEF IInv, OneWorkerPerRun, TypeOK
  <1>11. LiveRunsKeepInput' /\ RetiredForGood'
    BY <1>1, <1>2 DEF IInv, LiveRunsKeepInput, RetiredForGood
  <1>12. RunOutcome' /\ RespondingRowsAlive'
    <2>1. \A s \in Runs : runs'[s].state \in {"responding", "delivered"} =>
            s # r /\ runs'[s].state = runs[s].state
      BY <1>1, <1>2
    <2> QED BY <2>1, <1>5, <1>8, OutcomeKept
  <1>13. OneProgress' /\ FifoPerConversation'
    BY <1>5, KeptRows
  <1> QED BY <1>4, <1>5, <1>6, <1>9, <1>10, <1>11, <1>12, <1>13 DEF IInv

\* An admitted event that supersedes nothing.
LEMMA AcceptStep ==
  ASSUME IInv, NEW r \in Runs,
         AcceptChat(r) \/ AcceptNewTask(r) \/ \E p \in Runs : AcceptFollowUp(r, p)
  PROVE  IInv'
  <1>1. CASE AcceptChat(r)
    <2>1. NoTask \in Runs \cup {NoTask} /\ 0 \in 0..NumRuns
      BY OutboxAssumption
    <2> QED BY <1>1, <2>1, AdmitStep DEF AcceptChat
  <1>2. CASE AcceptNewTask(r)
    <2>1. 1 \in 0..NumRuns
      BY OutboxAssumption DEF Runs
    <2> QED BY <1>2, <2>1, AdmitStep DEF AcceptNewTask
  <1>3. ASSUME NEW p \in Runs, AcceptFollowUp(r, p)
        PROVE  IInv'
    <2>1. runs[p].task \in Runs \cup {NoTask} /\ runs[p].rev \in 0..NumRuns
      BY DEF IInv, TypeOK, RunRecord
    <2> QED BY <1>3, <2>1, AdmitStep DEF AcceptFollowUp, SameScope
  <1> QED BY <1>1, <1>2, <1>3

\* Steps that move the state of one run and leave the rest of the tables alone.
LEMMA StateStep ==
  ASSUME IInv, NEW r \in Runs, runs[r].state # "absent",
         NEW s \in {"queued", "running", "failed", "cancelled"},
         s \in {"queued", "running"} => runs[r].input,
         runs' = [runs EXCEPT ![r] = To(@, s)],
         working' \in SUBSET Runs, UNCHANGED <<outbox, nrows>>
  PROVE  /\ TypeOK' /\ SettledRowsQuiet' /\ TasksOpened' /\ LiveRunsKeepInput'
         /\ RetiredForGood' /\ RespondingRowsAlive' /\ RunOutcome' /\ OneProgress' /\ FifoPerConversation'
         /\ \A q \in Runs : /\ q # r => runs'[q] = runs[q]
                            /\ runs'[q].input = runs[q].input
                            /\ Outstanding(q)' => Outstanding(q)
                            /\ Superseded(q)' <=> Superseded(q)
         /\ runs'[r].state = s
  <1>1. \A q \in Runs : q # r => runs'[q] = runs[q]
    BY DEF IInv, TypeOK
  <1>2. runs'[r] = To(runs[r], s)
    BY DEF IInv, TypeOK
  <1>3. /\ runs'[r] \in RunRecord /\ runs'[r].state = s /\ runs'[r].input = runs[r].input
        /\ runs'[r].task = runs[r].task /\ runs'[r].rev = runs[r].rev
        /\ runs'[r].retired = runs[r].retired
    <2>1. runs[r] \in RunRecord /\ s \in RunStates
      BY DEF IInv, TypeOK, RunStates
    <2> QED BY <1>2, <2>1, RunMoved
  <1>4. TypeOK'
    BY <1>1, <1>3 DEF IInv, TypeOK
  <1>5. RowsKeptOrDropped /\ SettledRowsQuiet'
    BY UntouchedRows
  <1>6. TasksOpened'
    BY <1>1, <1>3, <1>4 DEF IInv, TasksOpened, TypeOK, RunRecord, NoTask
  <1>7. LiveRunsKeepInput' /\ RetiredForGood'
    BY <1>1, <1>3 DEF IInv, LiveRunsKeepInput, RetiredForGood
  <1>8. \A q \in Runs : Superseded(q)' <=> Superseded(q)
    BY <1>1, <1>3, SameSuperseded
  <1>9. RunOutcome' /\ RespondingRowsAlive'
    <2>1. \A q \in Runs : runs'[q].state \in {"responding", "delivered"} =>
            runs'[q].state = runs[q].state
      BY <1>1, <1>3
    <2> QED BY <2>1, <1>5, <1>8, OutcomeKept
  <1>10. \A q \in Runs : runs'[q].input = runs[q].input
    BY <1>1, <1>3
  <1>11. /\ OneProgress' /\ FifoPerConversation'
         /\ \A q \in Runs : Outstanding(q)' => Outstanding(q)
    BY <1>5, KeptRows
  <1> QED BY <1>1, <1>3, <1>4, <1>5, <1>6, <1>7, <1>8, <1>9, <1>10, <1>11

\* A queued run folded into a newer one had no terminal row and no worker.
LEMMA CoalesceRunStep == ASSUME IInv, NEW r \in Runs, CoalesceRun(r) PROVE IInv'
  <1> USE DEF CoalesceRun
  <1>1. r \notin working /\ ~ Outstanding(r) /\ working' \in SUBSET Runs
    BY DEF IInv, TypeOK, OneWorkerPerRun, AnsweredOnce
  <1>2. /\ TypeOK' /\ SettledRowsQuiet' /\ TasksOpened' /\ LiveRunsKeepInput'
         /\ RetiredForGood' /\ RespondingRowsAlive' /\ RunOutcome' /\ OneProgress'
         /\ FifoPerConversation'
         /\ \A q \in Runs : /\ q # r => runs'[q] = runs[q]
                            /\ runs'[q].input = runs[q].input
                            /\ Outstanding(q)' => Outstanding(q)
                            /\ Superseded(q)' <=> Superseded(q)
         /\ runs'[r].state = "cancelled"
    BY <1>1, StateStep
  <1>3. AnsweredOnce'
    BY <1>1, <1>2 DEF IInv, TypeOK, AnsweredOnce
  <1>4. OneWorkerPerRun'
    BY <1>1, <1>2 DEF IInv, TypeOK, OneWorkerPerRun
  <1> QED BY <1>2, <1>3, <1>4 DEF IInv

\* A claimed run has its input, and no terminal row of an earlier attempt.
LEMMA ClaimRunStep == ASSUME IInv, NEW r \in Runs, ClaimRun(r) PROVE IInv'
  <1> USE DEF ClaimRun
  <1>1. runs[r].input /\ ~ Outstanding(r) /\ working' \in SUBSET Runs
    BY DEF IInv, TypeOK, LiveRunsKeepInput, AnsweredOnce
  <1>2. /\ TypeOK' /\ SettledRowsQuiet' /\ TasksOpened' /\ LiveRunsKeepInput'
         /\ RetiredForGood' /\ RespondingRowsAlive' /\ RunOutcome' /\ OneProgress'
         /\ FifoPerConversation'
         /\ \A q \in Runs : /\ q # r => runs'[q] = runs[q]
                            /\ runs'[q].input = runs[q].input
                            /\ Outstanding(q)' => Outstanding(q)
                            /\ Superseded(q)' <=> Superseded(q)
         /\ runs'[r].state = "running"
    BY <1>1, StateStep
  <1>3. AnsweredOnce'
    BY <1>1, <1>2 DEF IInv, TypeOK, AnsweredOnce
  <1>4. OneWorkerPerRun'
    BY <1>1, <1>2 DEF IInv, TypeOK, OneWorkerPerRun
  <1> QED BY <1>2, <1>3, <1>4 DEF IInv

\* A run whose attachments are lost fails without a reply.
LEMMA RestoreFailsStep == ASSUME IInv, NEW r \in Runs, RestoreFails(r) PROVE IInv'
  <1> USE DEF RestoreFails
  <1>1. /\ runs[r].state # "absent" /\ ~ Outstanding(r)
        /\ working' \in SUBSET Runs
    BY DEF IInv, TypeOK, OneWorkerPerRun, AnsweredOnce
  <1>2. /\ TypeOK' /\ SettledRowsQuiet' /\ TasksOpened' /\ LiveRunsKeepInput'
         /\ RetiredForGood' /\ RespondingRowsAlive' /\ RunOutcome' /\ OneProgress'
         /\ FifoPerConversation'
         /\ \A q \in Runs : /\ q # r => runs'[q] = runs[q]
                            /\ runs'[q].input = runs[q].input
                            /\ Outstanding(q)' => Outstanding(q)
                            /\ Superseded(q)' <=> Superseded(q)
         /\ runs'[r].state = "failed"
    BY <1>1, StateStep
  <1>3. AnsweredOnce'
    BY <1>1, <1>2 DEF IInv, TypeOK, AnsweredOnce
  <1>4. OneWorkerPerRun'
    BY <1>1, <1>2 DEF IInv, TypeOK, OneWorkerPerRun
  <1> QED BY <1>2, <1>3, <1>4 DEF IInv

\* A worker that goes away leaves the tables alone.
LEMMA AbandonRunStep == ASSUME IInv, NEW r \in Runs, AbandonRun(r) PROVE IInv'
  <1> USE DEF AbandonRun
  <1>1. TypeOK' /\ TasksOpened' /\ LiveRunsKeepInput' /\ RetiredForGood'
    BY DEF IInv, TypeOK, TasksOpened, LiveRunsKeepInput, RetiredForGood
  <1>2. RowsKeptOrDropped /\ SettledRowsQuiet'
    BY UntouchedRows
  <1>3. \A q \in Runs : Superseded(q)' <=> Superseded(q)
    BY DEF Superseded
  <1>4. AnsweredOnce' /\ OneWorkerPerRun'
    BY <1>2, <1>3, KeptRows DEF IInv, TypeOK, AnsweredOnce, OneWorkerPerRun
  <1>5. RunOutcome' /\ RespondingRowsAlive'
    BY <1>2, <1>3, OutcomeKept
  <1> QED BY <1>1, <1>2, <1>4, <1>5, KeptRows DEF IInv

\* A restart requeues interrupted runs, none of which has a reply outstanding.
LEMMA RestartStep == ASSUME IInv, Restart PROVE IInv'
  <1> USE DEF Restart
  <1>1. \A r \in Runs :
          /\ runs'[r] \in RunRecord
          /\ runs'[r].input = runs[r].input
          /\ runs'[r].task = runs[r].task /\ runs'[r].rev = runs[r].rev
          /\ runs'[r].retired = runs[r].retired
          /\ \/ runs'[r].state = runs[r].state
             \/ runs[r].state = "running" /\ runs[r].input /\ runs'[r].state = "queued"
    <2> TAKE r \in Runs
    <2>1. runs[r] \in RunRecord
      BY DEF IInv, TypeOK
    <2> QED BY <2>1, RunMoved DEF RunStates
  <1>2. TypeOK'
    BY <1>1 DEF IInv, TypeOK
  <1>3. RowsKeptOrDropped /\ SettledRowsQuiet'
    BY UntouchedRows
  <1>4. TasksOpened' /\ LiveRunsKeepInput' /\ RetiredForGood'
    <2>1. /\ \A q \in Runs : runs'[q].state = "absent" <=> runs[q].state = "absent"
          /\ \A q \in Runs : runs[q].task \in Runs \cup {NoTask}
      BY <1>1 DEF IInv, TypeOK, RunRecord
    <2>2. TasksOpened'
      BY <1>1, <2>1 DEF IInv, TasksOpened
    <2>3. LiveRunsKeepInput'
      BY <1>1 DEF IInv, LiveRunsKeepInput
    <2>4. RetiredForGood'
      BY <1>1 DEF IInv, RetiredForGood
    <2> QED BY <2>2, <2>3, <2>4
  <1>5. \A q \in Runs : Superseded(q)' <=> Superseded(q)
    BY <1>1, SameSuperseded
  <1>6. AnsweredOnce' /\ OneWorkerPerRun'
    BY <1>1, <1>3, KeptRows DEF IInv, AnsweredOnce, OneWorkerPerRun
  <1>7. RunOutcome' /\ RespondingRowsAlive'
    <2>1. \A q \in Runs : runs'[q].state \in {"responding", "delivered"} =>
            runs'[q].state = runs[q].state
      BY <1>1
    <2> QED BY <2>1, <1>3, <1>5, OutcomeKept
  <1> QED BY <1>2, <1>3, <1>4, <1>6, <1>7, KeptRows DEF IInv

\* What cancelling a set of open rows does to the outbox.
LEMMA DroppedRows ==
  ASSUME IInv, NEW S \in SUBSET RowIds, \A d \in S : Open(outbox[d]),
         outbox' = CancelRows(S), nrows' = nrows
  PROVE  /\ RowsKeptOrDropped /\ SettledRowsQuiet'
         /\ outbox' \in [RowIds -> Delivery]
         /\ \A d \in RowIds : IF d <= nrows THEN outbox'[d].run \in Runs /\ outbox'[d].status # "none"
                              ELSE outbox'[d] = NoRow
         /\ \A d \in RowIds : d \notin S => outbox'[d] = outbox[d]
         /\ \A d \in S : outbox'[d].status = "cancelled"
  <1>1. \A d \in RowIds : outbox[d] \in Delivery
    BY DEF IInv, TypeOK
  <1>2. \A d \in S : /\ outbox'[d] \in Delivery /\ outbox'[d].status = "cancelled"
                     /\ outbox'[d].run = outbox[d].run /\ outbox'[d].phase = outbox[d].phase
                     /\ outbox'[d].lease = 0 /\ outbox'[d].wait = 0
    BY <1>1, CancelledRow DEF CancelRows
  <1>3. \A d \in RowIds : d \notin S => outbox'[d] = outbox[d]
    BY DEF CancelRows
  <1>4. RowsKeptOrDropped /\ SettledRowsQuiet'
    BY <1>2, <1>3 DEF IInv, RowsKeptOrDropped, SettledRowsQuiet
  <1>5. outbox' \in [RowIds -> Delivery]
    BY <1>1, <1>2, <1>3 DEF CancelRows
  <1>6. \A d \in S : d <= nrows
    BY DEF IInv, TypeOK, Open, NoRow
  <1>7. \A d \in RowIds : IF d <= nrows THEN outbox'[d].run \in Runs /\ outbox'[d].status # "none"
                          ELSE outbox'[d] = NoRow
    BY <1>2, <1>3, <1>6 DEF IInv, TypeOK
  <1> QED BY <1>2, <1>3, <1>4, <1>5, <1>7

\* An operator cancels a run: its open rows go with it.
LEMMA CancelRunStep == ASSUME IInv, NEW r \in Runs, CancelRun(r) PROVE IInv'
  <1> DEFINE S == {d \in RowIds : outbox[d].run = r /\ Open(outbox[d])}
  <1>1. /\ RowsKeptOrDropped /\ SettledRowsQuiet'
        /\ outbox' \in [RowIds -> Delivery]
        /\ \A d \in RowIds : IF d <= nrows THEN outbox'[d].run \in Runs /\ outbox'[d].status # "none"
                             ELSE outbox'[d] = NoRow
        /\ \A d \in RowIds : d \notin S => outbox'[d] = outbox[d]
    <2>1. /\ S \in SUBSET RowIds /\ \A d \in S : Open(outbox[d])
          /\ outbox' = CancelRows(S) /\ nrows' = nrows
      BY DEF CancelRun
    <2> HIDE DEF S
    <2> QED BY <2>1, DroppedRows
  <1>2. /\ \A q \in Runs : q # r => runs'[q] = runs[q]
        /\ runs[r].state \in {"delivered", "failed"} => runs'[r] = runs[r]
        /\ runs[r].state \notin {"delivered", "failed"} =>
             runs'[r] = Closed(runs[r], "cancelled")
    BY DEF IInv, TypeOK, CancelRun
  <1>3. /\ runs'[r] \in RunRecord
        /\ runs'[r].task = runs[r].task /\ runs'[r].rev = runs[r].rev
        /\ runs'[r].retired = runs[r].retired
        /\ \/ /\ runs[r].state \in {"delivered", "failed"}
              /\ runs'[r].state = runs[r].state /\ runs'[r].input = runs[r].input
           \/ runs'[r].state = "cancelled" /\ ~ runs'[r].input
    <2>1. runs[r] \in RunRecord /\ "cancelled" \in RunStates
      BY DEF IInv, TypeOK, RunStates
    <2> QED BY <1>2, <2>1, RunClosed
  <1>4. TypeOK'
    <2>1. runs' \in [Runs -> RunRecord]
      BY <1>2, <1>3 DEF IInv, TypeOK, CancelRun
    <2> QED BY <1>1, <2>1 DEF IInv, TypeOK, CancelRun
  <1>5. \A q \in Runs : Superseded(q)' <=> Superseded(q)
    BY <1>2, <1>3, SameSuperseded
  <1>6. TasksOpened' /\ LiveRunsKeepInput' /\ RetiredForGood'
    <2>1. TasksOpened'
      <3>1. \A q \in Runs : /\ runs'[q].task = runs[q].task /\ runs'[q].rev = runs[q].rev
                            /\ runs'[q].state = "absent" <=> runs[q].state = "absent"
        BY <1>2, <1>3 DEF CancelRun
      <3>2. \A q \in Runs : runs[q].task \in Runs \cup {NoTask}
        BY DEF IInv, TypeOK, RunRecord
      <3> QED BY <3>1, <3>2 DEF IInv, TasksOpened
    <2>2. LiveRunsKeepInput' /\ RetiredForGood'
      BY <1>2, <1>3 DEF IInv, LiveRunsKeepInput, RetiredForGood
    <2> QED BY <2>1, <2>2
  <1>7. AnsweredOnce' /\ OneWorkerPerRun'
    <2>1. AnsweredOnce'
      <3>1. \A q : Outstanding(q)' => Outstanding(q)
        BY <1>1, KeptRows
      <3>2. working' = working
        BY DEF CancelRun
      <3> QED BY <1>2, <1>3, <3>1, <3>2 DEF IInv, AnsweredOnce
    <2>2. OneWorkerPerRun'
      <3>1. working' = working
        BY DEF CancelRun
      <3> QED BY <1>2, <1>3, <1>5, <3>1 DEF IInv, OneWorkerPerRun, TypeOK
    <2> QED BY <2>1, <2>2
  <1>8. RunOutcome' /\ RespondingRowsAlive'
    <2>1. ASSUME NEW q \in Runs, runs'[q].state \in {"responding", "delivered"}
          PROVE  /\ runs'[q].state = runs[q].state
                 /\ \A d \in RowIds : outbox[d].run = q /\ outbox[d].phase = "terminal" =>
                      outbox'[d].status = outbox[d].status
      <3>1. CASE q # r
        BY <3>1, <1>1, <1>2
      <3>2. CASE q = r
        <4>1. runs[r].state = "delivered" /\ runs'[r].state = "delivered"
          BY <3>2, <2>1, <1>3
        <4>2. \A d \in RowIds : outbox[d].run = r /\ outbox[d].phase = "terminal" => d \notin S
          BY <4>1 DEF IInv, RunOutcome, FullyShown, Open
        <4> QED BY <3>2, <4>1, <4>2, <1>1
      <3> QED BY <3>1, <3>2
    <2> QED BY <2>1, <1>1, <1>5, OutcomeKept
  <1> QED BY <1>1, <1>4, <1>6, <1>7, <1>8, KeptRows DEF IInv

\* A reply that is dropped: the run closes and what it announced is cancelled.
LEMMA FinishStep ==
  ASSUME IInv, NEW r \in Runs, NEW state \in {"failed", "cancelled"},
         FinishWithoutDelivery(r, state)
  PROVE  IInv'
  <1> DEFINE S == {d \in RowIds : outbox[d].run = r /\ outbox[d].status = "pending"}
  <1>1. /\ RowsKeptOrDropped /\ SettledRowsQuiet'
        /\ outbox' \in [RowIds -> Delivery]
        /\ \A d \in RowIds : IF d <= nrows THEN outbox'[d].run \in Runs /\ outbox'[d].status # "none"
                             ELSE outbox'[d] = NoRow
        /\ \A d \in RowIds : d \notin S => outbox'[d] = outbox[d]
    <2>1. /\ S \in SUBSET RowIds /\ \A d \in S : Open(outbox[d])
          /\ outbox' = CancelRows(S) /\ nrows' = nrows
      BY DEF FinishWithoutDelivery, Open
    <2> HIDE DEF S
    <2> QED BY <2>1, DroppedRows
  <1>2. /\ \A q \in Runs : q # r => runs'[q] = runs[q]
        /\ runs'[r] = Closed(runs[r], state)
    BY DEF IInv, TypeOK, FinishWithoutDelivery
  <1>3. /\ runs'[r] \in RunRecord /\ runs'[r].state = state /\ ~ runs'[r].input
        /\ runs'[r].task = runs[r].task /\ runs'[r].rev = runs[r].rev
        /\ runs'[r].retired = runs[r].retired
    <2>1. runs[r] \in RunRecord /\ state \in RunStates
      BY DEF IInv, TypeOK, RunStates
    <2> QED BY <1>2, <2>1, RunClosed
  <1>4. r \in working /\ working' = working \ {r} /\ ~ Outstanding(r)
        /\ runs[r].state # "absent"
    BY DEF IInv, FinishWithoutDelivery, AnsweredOnce, OneWorkerPerRun
  <1>5. TypeOK'
    <2>1. runs' \in [Runs -> RunRecord]
      BY <1>2, <1>3 DEF IInv, TypeOK, FinishWithoutDelivery
    <2> QED BY <1>1, <1>4, <2>1 DEF IInv, TypeOK, FinishWithoutDelivery
  <1>6. \A q \in Runs : Superseded(q)' <=> Superseded(q)
    BY <1>2, <1>3, SameSuperseded
  <1>7. TasksOpened' /\ LiveRunsKeepInput' /\ RetiredForGood'
    <2>1. TasksOpened'
      BY <1>2, <1>3, <1>4, <1>5 DEF IInv, TypeOK, RunRecord, TasksOpened, NoTask
    <2>2. LiveRunsKeepInput' /\ RetiredForGood'
      BY <1>2, <1>3 DEF IInv, LiveRunsKeepInput, RetiredForGood
    <2> QED BY <2>1, <2>2
  <1>8. AnsweredOnce' /\ OneWorkerPerRun'
    BY <1>1, <1>2, <1>4, <1>6, KeptRows DEF IInv, TypeOK, AnsweredOnce, OneWorkerPerRun
  <1>9. RunOutcome' /\ RespondingRowsAlive'
    <2>1. \A q \in Runs : runs'[q].state \in {"responding", "delivered"} =>
            /\ runs'[q].state = runs[q].state
            /\ \A d \in RowIds : outbox[d].run = q /\ outbox[d].phase = "terminal" =>
                 outbox'[d].status = outbox[d].status
      BY <1>1, <1>2, <1>3
    <2> QED BY <2>1, <1>1, <1>6, OutcomeKept
  <1> QED BY <1>1, <1>5, <1>7, <1>8, <1>9, KeptRows DEF IInv

\* Moving a run to the state it is in changes nothing.
LEMMA RunStays ==
  ASSUME IInv, NEW r \in Runs
  PROVE  /\ runs = [runs EXCEPT ![r] = To(@, runs[r].state)]
         /\ runs[r].state \in RunStates
  <1>1. runs \in [Runs -> RunRecord]
    BY DEF IInv, TypeOK
  <1>2. To(runs[r], runs[r].state) = runs[r] /\ runs[r].state \in RunStates
    BY <1>1 DEF RunRecord, To
  <1>3. [runs EXCEPT ![r] = To(@, runs[r].state)] = [runs EXCEPT ![r] = @]
    BY <1>1, <1>2
  <1> QED BY <1>1, <1>2, <1>3

\* RunMoved, in the table.
LEMMA RunMovedIn ==
  ASSUME IInv, NEW r \in Runs, NEW s \in RunStates, runs' = [runs EXCEPT ![r] = To(@, s)]
  PROVE  /\ runs' \in [Runs -> RunRecord]
         /\ \A q \in Runs : q # r => runs'[q] = runs[q]
         /\ runs'[r].input = runs[r].input /\ runs'[r].state = s
         /\ runs'[r].task = runs[r].task /\ runs'[r].rev = runs[r].rev
         /\ runs'[r].retired = runs[r].retired
  <1>1. runs \in [Runs -> RunRecord] /\ runs' = [runs EXCEPT ![r] = To(runs[r], s)]
    BY DEF IInv, TypeOK
  <1> QED BY <1>1, RunMoved

\* A retry deletes the terminal rows no member has seen, and only those.
LEMMA DeletedRow ==
  ASSUME NEW row \in Delivery
  PROVE  /\ Deleted(row) \in Delivery
         /\ Deleted(row).status = "deleted"
         /\ Deleted(row).run = row.run /\ Deleted(row).phase = row.phase
         /\ Deleted(row).lease = 0 /\ Deleted(row).wait = 0
  BY DEF Delivery, Deleted, Statuses

\* What a retry does to the outbox: the rows of other runs, and those that were
\* delivered, stay as they are.
LEMMA RetriedRows ==
  ASSUME IInv, NEW r \in Runs, RetryTask(r)
  PROVE  /\ RowsKeptOrDropped /\ SettledRowsQuiet'
         /\ outbox' \in [RowIds -> Delivery]
         /\ \A d \in RowIds : IF d <= nrows THEN outbox'[d].run \in Runs /\ outbox'[d].status # "none"
                              ELSE outbox'[d] = NoRow
         /\ \A d \in RowIds : ~ Deletes(r, d) => outbox'[d] = outbox[d]
         /\ \A d \in RowIds : Deletes(r, d) => outbox'[d].status = "deleted"
  <1>1. \A d \in RowIds : outbox[d] \in Delivery
    BY DEF IInv, TypeOK
  <1>2. \A d \in RowIds :
          Deletes(r, d) => /\ outbox'[d] \in Delivery /\ outbox'[d].status = "deleted"
                           /\ outbox'[d].run = outbox[d].run /\ outbox'[d].phase = outbox[d].phase
                           /\ outbox'[d].lease = 0 /\ outbox'[d].wait = 0
    BY <1>1, DeletedRow DEF RetryTask
  <1>3. /\ \A d \in RowIds : ~ Deletes(r, d) => outbox'[d] = outbox[d]
        /\ outbox' = [d \in RowIds |-> outbox'[d]] /\ nrows' = nrows
    BY DEF RetryTask
  <1>4. \A d \in RowIds : Deletes(r, d) =>
          /\ d <= nrows /\ outbox[d].phase = "terminal"
          /\ outbox[d].status \notin {"none", "delivered"}
    BY DEF Deletes, IInv, TypeOK, NoRow, NoRun, Runs
  <1>5. RowsKeptOrDropped
    BY <1>2, <1>3, <1>4 DEF RowsKeptOrDropped
  <1>6. SettledRowsQuiet'
    BY <1>2, <1>3 DEF IInv, SettledRowsQuiet
  <1>7. outbox' \in [RowIds -> Delivery]
    BY <1>1, <1>2, <1>3
  <1>8. \A d \in RowIds : IF d <= nrows THEN outbox'[d].run \in Runs /\ outbox'[d].status # "none"
                          ELSE outbox'[d] = NoRow
    BY <1>2, <1>3, <1>4 DEF IInv, TypeOK
  <1> QED BY <1>2, <1>3, <1>5, <1>6, <1>7, <1>8

\* A retried run is in no worker's hands, and has no terminal row left that
\* could still be sent.
LEMMA RetryTaskStep == ASSUME IInv, NEW r \in Runs, RetryTask(r) PROVE IInv'
  <1>1. /\ runs' = [runs EXCEPT ![r] = To(@, "queued")] /\ working' = working /\ nrows' = nrows
        /\ runs[r].input /\ runs[r].state \in {"failed", "cancelled"}
        /\ ~ runs[r].retired /\ ~ Superseded(r)
    BY DEF RetryTask, Retryable
  <1>2. r \notin working
    BY <1>1 DEF IInv, OneWorkerPerRun
  <1>3. /\ runs' \in [Runs -> RunRecord]
        /\ \A q \in Runs : q # r => runs'[q] = runs[q]
        /\ runs'[r].input = runs[r].input /\ runs'[r].state = "queued"
        /\ runs'[r].task = runs[r].task /\ runs'[r].rev = runs[r].rev
        /\ runs'[r].retired = runs[r].retired
    BY <1>1, RunMovedIn DEF RunStates
  <1>4. TypeOK'
    BY <1>1, <1>3, RetriedRows DEF IInv, TypeOK
  <1>5. \A q \in Runs : Superseded(q)' <=> Superseded(q)
    BY <1>3, SameSuperseded
  <1>6. TasksOpened'
    BY <1>1, <1>3, <1>4 DEF IInv, TasksOpened, TypeOK, RunRecord, NoTask
  <1>7. LiveRunsKeepInput' /\ RetiredForGood'
    BY <1>1, <1>3 DEF IInv, LiveRunsKeepInput, RetiredForGood
  <1>8. ~ Outstanding(r)'
    BY RetriedRows DEF Outstanding, RowsKeptOrDropped, Deletes
  <1>9. AnsweredOnce'
    <2>1. \A q \in Runs : Outstanding(q)' => Outstanding(q) /\ q # r
      BY <1>8, RetriedRows, KeptRows
    <2> QED BY <2>1, <1>1, <1>3 DEF IInv, AnsweredOnce
  <1>10. OneWorkerPerRun'
    BY <1>1, <1>2, <1>3, <1>5 DEF IInv, OneWorkerPerRun, TypeOK
  <1>11. RunOutcome' /\ RespondingRowsAlive'
    <2>1. \A q \in Runs : runs'[q].state \in {"responding", "delivered"} =>
            q # r /\ runs'[q].state = runs[q].state
      BY <1>3
    <2>2. \A d \in RowIds : outbox[d].run # r => outbox'[d].status = outbox[d].status
      BY RetriedRows DEF Deletes
    <2> QED BY <2>1, <2>2, <1>5, RetriedRows, OutcomeKept
  <1> QED BY <1>4, <1>6, <1>7, <1>9, <1>10, <1>11, RetriedRows, KeptRows DEF IInv

\* Steps that change one run but neither its state nor its revision.
LEMMA DetailStep ==
  ASSUME IInv, NEW r \in Runs, runs' \in [Runs -> RunRecord],
         \A q \in Runs : q # r => runs'[q] = runs[q],
         /\ runs'[r].state = runs[r].state
         /\ runs'[r].task = runs[r].task /\ runs'[r].rev = runs[r].rev,
         runs'[r].input =>
           /\ runs[r].state = "failed" \/ runs[r].input
           /\ ~ runs'[r].retired,
         ~ runs'[r].input => runs[r].state \notin {"queued", "running"},
         runs'[r].retired => runs[r].state \in {"delivered", "failed", "cancelled"},
         UNCHANGED <<working, outbox, nrows>>
  PROVE  IInv'
  <1>1. RowsKeptOrDropped /\ SettledRowsQuiet'
    BY UntouchedRows
  <1>2. \A q \in Runs : Superseded(q)' <=> Superseded(q)
    BY SameSuperseded
  <1>3. TypeOK'
    BY DEF IInv, TypeOK
  <1>4. TasksOpened'
    BY <1>3 DEF IInv, TypeOK, RunRecord, TasksOpened, NoTask
  <1>5. AnsweredOnce'
    <2>1. \A q \in Runs : Outstanding(q)' => Outstanding(q)
      BY <1>1, KeptRows
    <2> QED BY <2>1 DEF IInv, AnsweredOnce
  <1>6. OneWorkerPerRun'
    BY <1>2 DEF IInv, OneWorkerPerRun, TypeOK
  <1>7. LiveRunsKeepInput' /\ RetiredForGood'
    BY DEF IInv, LiveRunsKeepInput, RetiredForGood
  <1>8. RunOutcome' /\ RespondingRowsAlive'
    <2>1. \A q \in Runs : runs'[q].state = runs[q].state
      OBVIOUS
    <2>2. \A d \in RowIds : outbox'[d].status = outbox[d].status
      OBVIOUS
    <2> QED BY <2>1, <2>2, <1>1, <1>2, OutcomeKept
  <1> QED BY <1>1, <1>3, <1>4, <1>5, <1>6, <1>7, <1>8, KeptRows DEF IInv

\* "continue" puts back the input of a failed run, which no worker holds.
LEMMA RestoreInputStep ==
  ASSUME IInv, NEW r \in Runs, NEW p \in Runs, RestoreInput(r, p) PROVE IInv'
  <1>1. /\ runs' = [runs EXCEPT ![p] = Restored(runs[p])]
        /\ runs[p] \in RunRecord /\ runs[p].state = "failed" /\ ~ runs[p].retired
        /\ UNCHANGED <<working, outbox, nrows>>
    BY DEF RestoreInput, IInv, TypeOK
  <1>2. /\ Restored(runs[p]) \in RunRecord /\ Restored(runs[p]).state = runs[p].state
        /\ Restored(runs[p]).task = runs[p].task /\ Restored(runs[p]).rev = runs[p].rev
        /\ Restored(runs[p]).retired = runs[p].retired /\ Restored(runs[p]).input
    BY <1>1 DEF RunRecord, Restored
  <1>3. /\ runs' \in [Runs -> RunRecord] /\ runs'[p] = Restored(runs[p])
        /\ \A q \in Runs : q # p => runs'[q] = runs[q]
    BY <1>1, <1>2 DEF IInv, TypeOK
  <1> QED BY <1>1, <1>2, <1>3, DetailStep

\* The intent of a settled run expires.
LEMMA RetireStep == ASSUME IInv, NEW r \in Runs, Retire(r) PROVE IInv'
  <1>1. /\ runs' = [runs EXCEPT ![r] = Retired(runs[r])]
        /\ runs[r] \in RunRecord /\ runs[r].state \in {"delivered", "failed", "cancelled"}
        /\ UNCHANGED <<working, outbox, nrows>>
    BY DEF Retire, IInv, TypeOK
  <1>2. /\ Retired(runs[r]) \in RunRecord /\ Retired(runs[r]).state = runs[r].state
        /\ Retired(runs[r]).task = runs[r].task /\ Retired(runs[r]).rev = runs[r].rev
        /\ Retired(runs[r]).retired /\ ~ Retired(runs[r]).input
    BY <1>1 DEF RunRecord, Retired
  <1>3. /\ runs' \in [Runs -> RunRecord] /\ runs'[r] = Retired(runs[r])
        /\ \A q \in Runs : q # r => runs'[q] = runs[q]
    BY <1>1, <1>2 DEF IInv, TypeOK
  <1> QED BY <1>1, <1>2, <1>3, DetailStep

\* A run that opens a task in mid-flight supersedes nobody.
LEMMA AdoptTaskStep == ASSUME IInv, NEW r \in Runs, AdoptTask(r) PROVE IInv'
  <1>1. /\ runs' = [runs EXCEPT ![r] = Opened(runs[r], r)]
        /\ runs[r] \in RunRecord /\ r \in working /\ runs[r].task = NoTask
        /\ runs[r].state # "absent" /\ 1 \in 0..NumRuns
        /\ UNCHANGED <<working, outbox, nrows>>
    <2>1. /\ runs' = [runs EXCEPT ![r] = Opened(@, r)] /\ r \in working
          /\ runs[r].task = NoTask /\ UNCHANGED <<working, outbox, nrows>>
      BY DEF AdoptTask
    <2>2. runs \in [Runs -> RunRecord]
      BY DEF IInv, TypeOK
    <2>3. runs[r].state # "absent"
      BY <2>1 DEF IInv, OneWorkerPerRun
    <2>4. 1 \in 0..NumRuns
      BY OutboxAssumption DEF Runs
    <2> QED BY <2>1, <2>2, <2>3, <2>4
  <1>2. /\ Opened(runs[r], r) \in RunRecord /\ Opened(runs[r], r).state = runs[r].state
        /\ Opened(runs[r], r).task = r /\ Opened(runs[r], r).rev = 1
        /\ Opened(runs[r], r).retired = runs[r].retired
        /\ Opened(runs[r], r).input = runs[r].input
    BY <1>1 DEF RunRecord, Opened
  <1>3. /\ runs' \in [Runs -> RunRecord]
        /\ \A q \in Runs : q # r => runs'[q] = runs[q]
        /\ runs'[r].state = runs[r].state /\ runs'[r].task = r /\ runs'[r].rev = 1
        /\ runs'[r].retired = runs[r].retired /\ runs'[r].input = runs[r].input
    BY <1>1, <1>2 DEF IInv, TypeOK
  <1>4. TypeOK'
    BY <1>1, <1>3 DEF IInv, TypeOK
  <1>5. RowsKeptOrDropped /\ SettledRowsQuiet'
    BY <1>1, UntouchedRows
  <1>6. TasksOpened'
    BY <1>1, <1>3 DEF IInv, TypeOK, RunRecord, TasksOpened, NoTask, Runs
  <1>7. \A q \in Runs : Superseded(q) => Superseded(q)'
    BY <1>1, <1>3 DEF Superseded
  <1>8. \A q \in Runs : q # r /\ Superseded(q)' => Superseded(q)
    <2> SUFFICES ASSUME NEW q \in Runs, q # r, NEW n \in Runs, runs'[q].task # NoTask,
                        runs'[n].task = runs'[q].task, runs'[n].rev > runs'[q].rev
                 PROVE  Superseded(q)
      BY DEF Superseded
    <2>1. runs[q].rev >= 1 /\ runs[q].rev \in Int
      BY <1>3 DEF IInv, TasksOpened, TypeOK, RunRecord
    <2>2. n # r
      BY <2>1, <1>3
    <2> QED BY <2>2, <1>3 DEF Superseded
  <1>9. AnsweredOnce' /\ OneWorkerPerRun'
    <2>1. \A q \in Runs : Outstanding(q)' => Outstanding(q)
      BY <1>5, KeptRows
    <2>2. \A q \in Runs : /\ runs'[q].state = runs[q].state
                           /\ runs'[q].input = runs[q].input
      BY <1>3
    <2> QED BY <2>1, <2>2, <1>1, <1>7 DEF IInv, AnsweredOnce, OneWorkerPerRun, TypeOK
  <1>10. LiveRunsKeepInput' /\ RetiredForGood'
    BY <1>3 DEF IInv, LiveRunsKeepInput, RetiredForGood
  <1>11. RunOutcome' /\ RespondingRowsAlive'
    <2>1. runs[r].state \in {"running", "cancelled"}
      BY <1>1 DEF IInv, OneWorkerPerRun
    <2>2. \A q \in Runs : runs'[q].state = runs[q].state
      BY <1>3
    <2>3. \A q \in Runs : runs'[q].state = "responding" => q # r
      BY <2>1, <2>2
    <2> QED BY <2>2, <2>3, <1>1, <1>5, <1>8, OutcomeKept
  <1> QED BY <1>4, <1>5, <1>6, <1>9, <1>10, <1>11, KeptRows DEF IInv

\* A new revision: older runs of the task are superseded before their rows
\* are cancelled, so that none of them is responding afterwards.
LEMMA AcceptRevisionStep ==
  ASSUME IInv, NEW r \in Runs, NEW p \in Runs, AcceptRevision(r, p) PROVE IInv'
  <1> DEFINE older == {n \in Runs : runs[n].task = runs[p].task}
             S == {d \in RowIds : outbox[d].run \in older /\ Open(outbox[d])}
  <1>1. /\ RowsKeptOrDropped /\ SettledRowsQuiet'
        /\ outbox' \in [RowIds -> Delivery]
        /\ \A d \in RowIds : IF d <= nrows THEN outbox'[d].run \in Runs /\ outbox'[d].status # "none"
                             ELSE outbox'[d] = NoRow
        /\ \A d \in RowIds : d \notin S => outbox'[d] = outbox[d]
    <2>1. /\ S \in SUBSET RowIds /\ \A d \in S : Open(outbox[d])
          /\ outbox' = CancelRows(S) /\ nrows' = nrows
      BY DEF AcceptRevision
    <2> HIDE DEF S
    <2> QED BY <2>1, DroppedRows
  <1>2. /\ runs[r].state = "absent" /\ runs[r].task = NoTask /\ r \notin working
        /\ ~ Outstanding(r) /\ runs[p].task \in Runs /\ working' = working
        /\ runs[p].task # NoTask
    BY DEF IInv, AcceptRevision, NextRun, SameScope, TasksOpened, OneWorkerPerRun,
           AnsweredOnce, TypeOK, RunRecord
  <1>3. PICK v \in 1..NumRuns :
          /\ \A n \in older : runs[n].rev < v
          /\ runs' = [n \in Runs |->
               IF n = r THEN Admitted(runs[p].task, v)
               ELSE IF n \in older /\ runs[n].state \in {"queued", "running", "responding"}
               THEN To(runs[n], "cancelled")
               ELSE runs[n]]
    BY DEF AcceptRevision
  <1> DEFINE hit(n) == n \in older /\ runs[n].state \in {"queued", "running", "responding"}
  <1>4. /\ runs'[r] \in RunRecord /\ runs'[r].state = "queued" /\ runs'[r].input
        /\ runs'[r].task = runs[p].task /\ runs'[r].rev = v /\ ~ runs'[r].retired
    <2>1. runs[p].task \in Runs \cup {NoTask} /\ v \in 0..NumRuns
      BY <1>2, OutboxAssumption
    <2>2. runs'[r] = Admitted(runs[p].task, v)
      BY <1>3
    <2> QED BY <2>1, <2>2, AdmittedRecord DEF Admitted
  <1>5. \A n \in Runs : n # r =>
          /\ runs'[n] \in RunRecord /\ runs'[n].input = runs[n].input
          /\ runs'[n].task = runs[n].task /\ runs'[n].rev = runs[n].rev
          /\ runs'[n].retired = runs[n].retired
          /\ runs'[n].state = IF hit(n) THEN "cancelled" ELSE runs[n].state
    <2> SUFFICES ASSUME NEW n \in Runs, n # r
                 PROVE  /\ runs'[n] \in RunRecord /\ runs'[n].input = runs[n].input
                        /\ runs'[n].task = runs[n].task /\ runs'[n].rev = runs[n].rev
                        /\ runs'[n].retired = runs[n].retired
                        /\ runs'[n].state = IF hit(n) THEN "cancelled" ELSE runs[n].state
      OBVIOUS
    <2>1. runs[n] \in RunRecord /\ "cancelled" \in RunStates
      BY DEF IInv, TypeOK, RunStates
    <2>2. CASE hit(n)
      <3>1. runs'[n] = To(runs[n], "cancelled")
        BY <1>3, <2>2
      <3> HIDE DEF hit
      <3> QED BY <2>1, <2>2, <3>1, RunMoved
    <2>3. CASE ~ hit(n)
      <3>1. runs'[n] = runs[n]
        BY <1>3, <2>3
      <3> HIDE DEF hit
      <3> QED BY <2>1, <2>3, <3>1
    <2> QED BY <2>2, <2>3
  <1>6. runs' \in [Runs -> RunRecord]
    BY <1>3, <1>4, <1>5
  <1>7. TypeOK'
    BY <1>1, <1>2, <1>6 DEF IInv, TypeOK, AcceptRevision
  <1>8. TasksOpened'
    <2>1. \A n \in Runs : runs[n].state # "absent" => runs'[n].state # "absent"
      BY <1>2, <1>5
    <2>2. \A n \in Runs : runs[n].task # NoTask => runs[n].task \in Runs
      BY DEF IInv, TypeOK, RunRecord
    <2>3. \A n \in Runs : runs'[n].state = "absent" => runs'[n].task = NoTask
      BY <1>4, <1>5 DEF IInv, TasksOpened
    <2>4. ASSUME NEW n \in Runs, runs'[n].task # NoTask
          PROVE  runs'[runs'[n].task].state # "absent" /\ runs'[n].rev >= 1
      <3>1. CASE n = r
        BY <3>1, <1>2, <1>4, <2>1 DEF IInv, TasksOpened
      <3>2. CASE n # r
        BY <3>2, <2>4, <1>5, <2>1, <2>2 DEF IInv, TasksOpened
      <3> QED BY <3>1, <3>2
    <2> QED BY <2>3, <2>4 DEF TasksOpened
  <1>9. \A n \in Runs : hit(n) => Superseded(n)'
    <2> SUFFICES ASSUME NEW n \in Runs, hit(n) PROVE Superseded(n)'
      OBVIOUS
    <2>1. n # r /\ runs[n].task = runs[p].task /\ runs[n].rev < v
      BY <1>2, <1>3
    <2>2. runs'[n].task = runs'[r].task /\ runs'[n].rev < runs'[r].rev /\ runs'[n].task # NoTask
      BY <2>1, <1>2, <1>4, <1>5
    <2>3. runs'[r].rev > runs'[n].rev
      BY <2>2, <1>6 DEF RunRecord
    <2> QED BY <2>2, <2>3 DEF Superseded
  <1>10. \A n \in Runs : Superseded(n) => Superseded(n)'
    BY <1>2, <1>5 DEF Superseded
  <1>11. \A n \in Runs : n \notin older /\ n # r /\ Superseded(n)' => Superseded(n)
    BY <1>2, <1>4, <1>5 DEF Superseded
  <1>12. \A q : Outstanding(q)' => Outstanding(q)
    BY <1>1, KeptRows
  <1>13. AnsweredOnce'
    <2>1. \A n \in Runs : n # r =>
            /\ runs'[n].input = runs[n].input
            /\ \/ runs'[n].state = runs[n].state
               \/ runs[n].state # "failed" /\ runs'[n].state = "cancelled"
      BY <1>5
    <2> QED BY <2>1, <1>2, <1>12 DEF IInv, AnsweredOnce
  <1>14. OneWorkerPerRun'
    <2>1. ASSUME NEW n \in Runs, n # r
          PROVE  /\ runs'[n].input = runs[n].input
                 /\ \/ runs'[n].state = runs[n].state
                    \/ runs'[n].state = "cancelled" /\ Superseded(n)'
      <3> HIDE DEF hit
      <3>1. CASE hit(n)
        BY <2>1, <3>1, <1>5, <1>9
      <3>2. CASE ~ hit(n)
        BY <2>1, <3>2, <1>5
      <3> QED BY <3>1, <3>2
    <2> QED BY <2>1, <1>2, <1>10 DEF IInv, OneWorkerPerRun, TypeOK
  <1>15. LiveRunsKeepInput' /\ RetiredForGood'
    BY <1>4, <1>5 DEF IInv, LiveRunsKeepInput, RetiredForGood
  <1>16. RunOutcome' /\ RespondingRowsAlive'
    <2>1. ASSUME NEW q \in Runs, runs'[q].state \in {"responding", "delivered"}
          PROVE  /\ runs'[q].state = runs[q].state
                 /\ runs'[q].state = "responding" => (Superseded(q)' => Superseded(q))
                 /\ \A d \in RowIds : outbox[d].run = q /\ outbox[d].phase = "terminal" =>
                      outbox'[d].status = outbox[d].status
      <3>1. q # r /\ runs'[q].state = runs[q].state
        BY <2>1, <1>4, <1>5
      <3>2. CASE runs[q].state = "responding"
        <4>1. q \notin older
          BY <3>1, <3>2, <1>5
        <4> QED BY <3>1, <4>1, <1>1, <1>11
      <3>3. CASE runs[q].state = "delivered"
        <4>1. \A d \in RowIds : outbox[d].run = q /\ outbox[d].phase = "terminal" => d \notin S
          BY <3>3 DEF IInv, RunOutcome, FullyShown, Open
        <4> QED BY <3>1, <3>3, <4>1, <1>1
      <3> QED BY <2>1, <3>1, <3>2, <3>3
    <2> QED BY <2>1, <1>1, OutcomeKept
  <1> QED BY <1>1, <1>7, <1>8, <1>13, <1>14, <1>15, <1>16, KeptRows DEF IInv

-----------------------------------------------------------------------------
(* Steps of rows: leases, acknowledgements, time.                          *)

\* Time moves the timers of a row only.
LEMMA AgedRow ==
  ASSUME NEW row \in Delivery
  PROVE  /\ Aged(row) \in Delivery
         /\ Aged(row).run = row.run /\ Aged(row).phase = row.phase
         /\ Aged(row).status = row.status
         /\ row.lease = 0 /\ row.wait = 0 => Aged(row) = row
  <1>1. row.lease \in Nat /\ row.wait \in Nat
    BY DEF Delivery
  <1>2. /\ Down(row.lease) \in Nat /\ Down(row.wait) \in Nat
        /\ row.lease = 0 => Down(row.lease) = row.lease
        /\ row.wait = 0 => Down(row.wait) = row.wait
    BY <1>1 DEF Down
  <1>3. /\ Aged(row) \in Delivery
        /\ Aged(row).run = row.run /\ Aged(row).phase = row.phase
        /\ Aged(row).status = row.status
    BY <1>2 DEF Delivery, Aged
  <1>4. ASSUME row.lease = 0, row.wait = 0 PROVE Aged(row) = row
    BY <1>2, <1>4 DEF Delivery, Aged
  <1> QED BY <1>3, <1>4

\* A delivery that is handed out stays the same row.
LEMMA SentRow ==
  ASSUME NEW row \in Delivery, NEW c \in Consumers, row.attempts < LeaseCap
  PROVE  /\ Sent(row, c) \in Delivery
         /\ Sent(row, c).run = row.run /\ Sent(row, c).phase = row.phase
         /\ Sent(row, c).status = "sending"
  <1>1. row.attempts + 1 \in 0..LeaseCap /\ LeaseTime \in Nat
    BY OutboxAssumption DEF Delivery
  <1> QED BY <1>1 DEF Delivery, Sent, Statuses

\* A delivery whose lease ran out is pending, with its attempts counted.
LEMMA ReclaimedRow ==
  ASSUME NEW row \in Delivery
  PROVE  /\ Reclaimed(row) \in Delivery
         /\ Reclaimed(row).run = row.run /\ Reclaimed(row).phase = row.phase
         /\ Reclaimed(row).status = "pending"
         /\ Reclaimed(row).attempts = row.attempts
  BY DEF Delivery, Reclaimed, Statuses

\* Rows stay the rows of their runs.
SameRows ==
  /\ nrows' = nrows
  /\ outbox' \in [RowIds -> Delivery]
  /\ \A d \in RowIds :
       /\ outbox'[d].run = outbox[d].run /\ outbox'[d].phase = outbox[d].phase
       /\ d <= nrows => outbox'[d].status # "none"
       /\ d > nrows => outbox'[d] = outbox[d]
       /\ outbox[d].status \in {"delivered", "deleted"} => outbox'[d] = outbox[d]

\* A step of rows alone keeps what is said of runs.
LEMMA SameRowsKept ==
  ASSUME IInv, SameRows, runs' = runs, working' = working
  PROVE  /\ TypeOK' /\ TasksOpened' /\ AnsweredOnce' /\ OneWorkerPerRun'
         /\ LiveRunsKeepInput' /\ RetiredForGood'
         /\ \A r : Superseded(r)' <=> Superseded(r)
         /\ \A r : Outstanding(r)' => Outstanding(r)
  <1>1. TypeOK'
    BY OutboxAssumption DEF IInv, TypeOK, SameRows, RowIds
  <1>2. \A r : Superseded(r)' <=> Superseded(r)
    BY DEF Superseded
  <1>3. \A r : Outstanding(r)' => Outstanding(r)
    BY DEF Outstanding, SameRows
  <1>4. TasksOpened' /\ LiveRunsKeepInput' /\ RetiredForGood'
    BY DEF IInv, TasksOpened, LiveRunsKeepInput, RetiredForGood
  <1>5. AnsweredOnce' /\ OneWorkerPerRun'
    BY <1>2, <1>3 DEF IInv, AnsweredOnce, OneWorkerPerRun
  <1> QED BY <1>1, <1>2, <1>3, <1>4, <1>5

\* Time settles nothing.
LEMMA TickStep == ASSUME IInv, Tick PROVE IInv'
  <1> USE DEF Tick
  <1>1. \A d \in RowIds :
          /\ outbox[d] \in Delivery
          /\ outbox'[d] \in Delivery
          /\ outbox'[d].run = outbox[d].run /\ outbox'[d].phase = outbox[d].phase
          /\ outbox'[d].status = outbox[d].status
          /\ outbox[d].lease = 0 /\ outbox[d].wait = 0 => outbox'[d] = outbox[d]
    BY AgedRow DEF IInv, TypeOK
  <1>2. SameRows
    <2>1. \A d \in RowIds : d > nrows => outbox[d].lease = 0 /\ outbox[d].wait = 0
      BY DEF IInv, TypeOK, NoRow, RowIds
    <2> QED BY <1>1, <2>1 DEF IInv, TypeOK, SameRows, SettledRowsQuiet
  <1>3. RowsKeptOrDropped
    BY <1>1 DEF RowsKeptOrDropped
  <1>4. SettledRowsQuiet'
    BY <1>1 DEF IInv, SettledRowsQuiet
  <1>5. RunOutcome' /\ RespondingRowsAlive'
    BY <1>1, <1>2, <1>3, SameRowsKept, OutcomeKept
  <1> QED BY <1>2, <1>3, <1>4, <1>5, SameRowsKept, KeptRows DEF IInv

\* A lease hands out the first pending row of a conversation nobody is
\* sending to; the sweep before it never cancels the row of a responding run.
LEMMA LeaseStep ==
  ASSUME IInv, NEW c \in Consumers, NEW n \in 1..MaxBatch, Lease(c, n)
  PROVE  IInv'
  <1> DEFINE t == Swept
             ready == {d \in RowIds : Ready(t, d)}
             taken == {d \in ready : Cardinality({e \in ready : e < d}) < n}
  <1>1. /\ \A d \in taken : d \in RowIds /\ Ready(t, d) /\ t[d].attempts < LeaseCap
        /\ \A d \in RowIds : outbox'[d] = IF d \in taken THEN Sent(t[d], c) ELSE t[d]
        /\ outbox' = [d \in RowIds |-> outbox'[d]]
        /\ runs' = runs /\ working' = working /\ nrows' = nrows
    BY DEF Lease
  <1>2. \A d \in RowIds :
          /\ t[d] \in Delivery
          /\ t[d].run = outbox[d].run /\ t[d].phase = outbox[d].phase
          /\ \/ Doomed(d) /\ t[d] = Cancelled(outbox[d])
             \/ ~ Doomed(d) /\ Expired(d) /\ t[d] = Reclaimed(outbox[d])
             \/ ~ Doomed(d) /\ ~ Expired(d) /\ t[d] = outbox[d]
    <2> TAKE d \in RowIds
    <2>1. outbox[d] \in Delivery
      BY DEF IInv, TypeOK
    <2>2. t[d] = IF Doomed(d) THEN Cancelled(outbox[d])
                 ELSE IF Expired(d) THEN Reclaimed(outbox[d]) ELSE outbox[d]
      BY DEF Swept
    <2> HIDE DEF t
    <2> QED BY <2>1, <2>2, CancelledRow, ReclaimedRow
  <1>3. \A d \in RowIds :
          /\ outbox[d].status \in {"none", "delivered", "failed", "cancelled", "deleted"} =>
               t[d] = outbox[d]
          /\ \/ t[d].status = outbox[d].status /\ t[d] = outbox[d]
             \/ /\ Doomed(d) /\ Open(outbox[d])
                /\ t[d].status = "cancelled" /\ t[d].lease = 0 /\ t[d].wait = 0
             \/ ~ Doomed(d) /\ outbox[d].status = "sending" /\ t[d].status = "pending"
    <2> TAKE d \in RowIds
    <2>1. outbox[d] \in Delivery
      BY DEF IInv, TypeOK
    <2> HIDE DEF t
    <2> QED BY <2>1, <1>2, CancelledRow, ReclaimedRow DEF Doomed, Expired, Open
  <1> HIDE DEF t, taken
  <1>4. \A d \in taken : t[d].status = "pending" /\ \A e \in RowIds : ~ Blocks(t, e, d)
    BY <1>1 DEF Ready
  <1>5. \A d \in RowIds :
          \/ d \in taken /\ outbox'[d] \in Delivery /\ outbox'[d].run = outbox[d].run
             /\ outbox'[d].phase = outbox[d].phase /\ outbox'[d].status = "sending"
          \/ d \notin taken /\ outbox'[d] = t[d]
    BY <1>1, <1>2, SentRow
  <1>6. SameRows
    <2>1. outbox' \in [RowIds -> Delivery]
      BY <1>1, <1>2, <1>5
    <2>2. \A d \in RowIds : d > nrows => outbox[d].status = "none"
      BY DEF IInv, TypeOK, NoRow, RowIds
    <2>3. \A d \in RowIds : d > nrows => outbox'[d] = outbox[d]
      BY <2>2, <1>3, <1>4, <1>5
    <2>4. \A d \in RowIds : d <= nrows => outbox'[d].status # "none"
      BY <1>3, <1>5 DEF IInv, TypeOK
    <2>5. \A d \in RowIds : outbox[d].status \in {"delivered", "deleted"} =>
            outbox'[d] = outbox[d]
      BY <1>3, <1>4, <1>5
    <2> QED BY <1>1, <1>2, <1>5, <2>1, <2>3, <2>4, <2>5 DEF SameRows
  <1>7. SettledRowsQuiet'
    <2>1. ASSUME NEW d \in RowIds, outbox'[d].status \in {"delivered", "failed", "cancelled", "deleted"}
          PROVE  outbox'[d].lease = 0 /\ outbox'[d].wait = 0
      <3>1. outbox'[d] = t[d]
        BY <2>1, <1>5
      <3> QED BY <2>1, <3>1, <1>3 DEF IInv, SettledRowsQuiet
    <2> QED BY <2>1 DEF SettledRowsQuiet
  <1>8. OneProgress'
    <2>1. \A d \in RowIds : outbox'[d].status # "cancelled" => outbox[d].status # "cancelled"
      BY <1>3, <1>4, <1>5
    <2> QED BY <2>1, <1>6 DEF IInv, OneProgress, SameRows
  <1>9. FifoPerConversation'
    <2> SUFFICES ASSUME NEW d \in RowIds, NEW e \in RowIds, e < d, d <= nrows,
                        SameConversation(d, e),
                        outbox'[d].status \in {"sending", "delivered", "failed"}
                 PROVE  ~ Open(outbox'[e])
      BY <1>6 DEF FifoPerConversation, SameConversation, SameRows
    <2>1. CASE d \in taken
      <3>1. t[e].status \notin {"pending", "sending"}
        BY <2>1, <1>4 DEF Blocks, SameConversation, RowIds
      <3> QED BY <3>1, <1>4, <1>5 DEF Open
    <2>2. CASE d \notin taken
      <3>1. outbox[d].status \in {"sending", "delivered", "failed"}
        BY <2>2, <1>3, <1>5
      <3>2. ~ Open(outbox[e])
        BY <3>1 DEF IInv, FifoPerConversation
      <3>3. t[e] = outbox[e]
        BY <3>2, <1>3 DEF Open, IInv, TypeOK, Delivery, Statuses
      <3> QED BY <3>2, <3>3, <1>4, <1>5 DEF Open
    <2> QED BY <2>1, <2>2
  <1>10. RunOutcome' /\ RespondingRowsAlive'
    <2>1. ASSUME NEW r \in Runs, runs[r].state = "responding", NEW d \in RowIds,
                 outbox[d].run = r
          PROVE  ~ Doomed(d)
      BY <2>1 DEF IInv, RunOutcome, Doomed
    <2>2. \A r \in Runs, d \in RowIds :
            runs[r].state = "responding" /\ outbox[d].run = r =>
              /\ Open(outbox[d]) => Open(outbox'[d])
              /\ outbox[d].status \in {"delivered", "deleted"} =>
                   outbox'[d].status = outbox[d].status
      BY <2>1, <1>3, <1>4, <1>5 DEF Open
    <2>3. \A d \in RowIds : outbox[d].status \in {"delivered", "deleted"} =>
            outbox'[d].status = outbox[d].status
      BY <1>3, <1>4, <1>5
    <2>4. RespondingRowsAlive'
      BY <1>1, <1>6, <2>2 DEF IInv, RespondingRowsAlive, SameRows, Open
    <2>5. RunOutcome'
      <3>1. \A r \in Runs : runs[r].state = "responding" =>
              /\ ~ Superseded(r)'
              /\ \E d \in RowIds : /\ outbox'[d].run = r /\ outbox'[d].phase = "terminal"
                                   /\ Open(outbox'[d])
        BY <1>1, <1>6, <2>2, SameRowsKept DEF IInv, RunOutcome, SameRows
      <3>2. \A r \in Runs : runs[r].state = "delivered" =>
              FullyShown(r)'
        BY <1>1, <1>6, <2>3 DEF IInv, RunOutcome, FullyShown, SameRows
      <3> QED BY <3>1, <3>2, <1>1 DEF RunOutcome
    <2> QED BY <2>4, <2>5
  <1> QED BY <1>1, <1>6, <1>7, <1>8, <1>9, <1>10, SameRowsKept DEF IInv

\* A delivery that waits for another attempt.
LEMMA RequeuedRow ==
  ASSUME NEW row \in Delivery, row.attempts > 0
  PROVE  /\ Requeued(row) \in Delivery
         /\ Requeued(row).status = "pending"
         /\ Requeued(row).run = row.run /\ Requeued(row).phase = row.phase
  <1>1. Backoff[row.attempts] \in Nat
    BY OutboxAssumption DEF Delivery
  <1> DEFINE t == Settled(row, "pending")
  <1>2. t \in Delivery
    BY SettledRow
  <1>3. Requeued(row) = [t EXCEPT !.wait = Backoff[row.attempts]]
    BY DEF Requeued
  <1>4. t.status = "pending" /\ t.run = row.run /\ t.phase = row.phase
    BY SettledRow
  <1> HIDE DEF t
  <1> QED BY <1>1, <1>2, <1>3, <1>4 DEF Delivery

\* A row that is being settled was sent at least once.
LEMMA MatchedRow ==
  ASSUME IInv, NEW d \in RowIds, NEW receipt \in Receipts,
         outbox[d].status = "sending", LeaseMatches(outbox[d], receipt)
  PROVE  /\ outbox[d] \in Delivery /\ outbox[d].attempts > 0
         /\ d <= nrows /\ outbox[d].run \in Runs
         /\ outbox[d].phase = "terminal" =>
              /\ Outstanding(outbox[d].run) /\ outbox[d].run \notin working
              /\ runs[outbox[d].run].state # "delivered"
              /\ runs[outbox[d].run].state # "absent"
  <1>1. outbox[d] \in Delivery /\ d <= nrows /\ outbox[d].run \in Runs
    BY DEF IInv, TypeOK, NoRow
  <1>2. outbox[d].attempts > 0
    <2>1. CASE receipt = NoReceipt
      BY <2>1 DEF LeaseMatches
    <2>2. CASE receipt # NoReceipt
      <3>1. receipt \in [owner : Consumers, attempts : 1..LeaseCap]
        BY <2>2 DEF Receipts
      <3>2. receipt.attempts = outbox[d].attempts
        BY <2>2, <3>1 DEF LeaseMatches
      <3> QED BY <3>1, <3>2, OutboxAssumption
    <2> QED BY <2>1, <2>2
  <1>3. ASSUME outbox[d].phase = "terminal"
        PROVE  /\ Outstanding(outbox[d].run) /\ outbox[d].run \notin working
               /\ runs[outbox[d].run].state # "delivered"
               /\ runs[outbox[d].run].state # "absent"
    BY <1>1, <1>3 DEF IInv, Outstanding, AnsweredOnce, RunOutcome, FullyShown
  <1> QED BY <1>1, <1>2, <1>3

\* What Ack and Fail have in common: one sending row moves on, and the run of
\* a terminal row may be delivered or failed.
LEMMA SettleStep ==
  ASSUME IInv, NEW d \in RowIds, NEW receipt \in Receipts,
         outbox[d].status = "sending", LeaseMatches(outbox[d], receipt),
         outbox' \in [RowIds -> Delivery],
         \A e \in RowIds : e # d => outbox'[e] = outbox[e],
         outbox'[d].run = outbox[d].run, outbox'[d].phase = outbox[d].phase,
         \/ outbox'[d].status = "pending"
         \/ /\ outbox'[d].status \in {"delivered", "failed"}
            /\ outbox'[d].lease = 0 /\ outbox'[d].wait = 0,
         NEW r \in Runs, r = outbox[d].run,
         runs' \in [Runs -> RunRecord],
         \A q \in Runs : q # r => runs'[q] = runs[q],
         /\ runs'[r].input = runs[r].input /\ runs'[r].retired = runs[r].retired
         /\ runs'[r].task = runs[r].task /\ runs'[r].rev = runs[r].rev,
         \/ runs'[r].state = runs[r].state
         \/ outbox[d].phase = "terminal" /\ runs'[r].state \in {"delivered", "failed"},
         runs'[r].state = "delivered" => FullyShown(r)',
         runs'[r].state = "responding" =>
           outbox'[d].status # "failed" \/ outbox[d].phase = "progress",
         runs'[r].state = "responding" => \E e \in RowIds :
           outbox'[e].run = r /\ outbox'[e].phase = "terminal" /\ Open(outbox'[e]),
         UNCHANGED <<working, nrows>>
  PROVE  IInv'
  <1> DEFINE s == runs'[r].state
             row == outbox'[d]
  <1>1. /\ outbox[d] \in Delivery /\ d <= nrows
        /\ outbox[d].phase = "terminal" =>
             /\ Outstanding(r) /\ r \notin working
             /\ runs[r].state # "absent"
    BY MatchedRow
  <1>2. outbox'[d] = row /\ \A e \in RowIds : e # d => outbox'[e] = outbox[e]
    OBVIOUS
  <1>3. /\ runs'[r] \in RunRecord /\ runs'[r].state = s /\ runs'[r].input = runs[r].input
        /\ runs'[r].task = runs[r].task /\ runs'[r].rev = runs[r].rev
        /\ runs'[r].retired = runs[r].retired
        /\ \A q \in Runs : q # r => runs'[q] = runs[q]
    OBVIOUS
  <1>4. \A q : Outstanding(q)' => Outstanding(q)
    BY <1>2 DEF Outstanding
  <1>5. \A q \in Runs : Superseded(q)' <=> Superseded(q)
    BY <1>3, SameSuperseded
  <1>6. TypeOK'
    <2>1. runs' \in [Runs -> RunRecord]
      BY <1>3 DEF IInv, TypeOK
    <2>2. outbox' \in [RowIds -> Delivery]
      BY DEF IInv, TypeOK
    <2>3. \A e \in RowIds : IF e <= nrows THEN outbox'[e].run \in Runs /\ outbox'[e].status # "none"
                            ELSE outbox'[e] = NoRow
      BY <1>1, <1>2 DEF IInv, TypeOK
    <2> QED BY <2>1, <2>2, <2>3 DEF IInv, TypeOK
  <1>7. SettledRowsQuiet'
    BY <1>2 DEF IInv, SettledRowsQuiet
  <1>8. TasksOpened'
    <2>1. runs'[r].state = "absent" <=> runs[r].state = "absent"
      BY <1>1
    <2>2. \A q \in Runs : /\ runs[q].task \in Runs \cup {NoTask}
                          /\ runs'[q].task = runs[q].task /\ runs'[q].rev = runs[q].rev
                          /\ runs'[q].state = "absent" <=> runs[q].state = "absent"
      BY <1>3, <2>1 DEF IInv, TypeOK, RunRecord
    <2> QED BY <2>2 DEF IInv, TasksOpened
  <1>9. AnsweredOnce'
    <2>1. runs'[r].state = "delivered" => ~ Outstanding(r)'
      BY DEF FullyShown, Outstanding
    <2> QED BY <2>1, <1>1, <1>3, <1>4 DEF IInv, AnsweredOnce
  <1>10. OneWorkerPerRun'
    BY <1>1, <1>3, <1>5 DEF IInv, OneWorkerPerRun, TypeOK
  <1>11. LiveRunsKeepInput' /\ RetiredForGood'
    <2>1. ASSUME NEW q \in Runs
          PROVE  /\ runs'[q].input = runs[q].input /\ runs'[q].retired = runs[q].retired
                 /\ runs'[q].state = runs[q].state \/ runs'[q].state \in {"delivered", "failed"}
      BY <1>3
    <2>2. LiveRunsKeepInput'
      BY <2>1 DEF IInv, LiveRunsKeepInput
    <2>3. RetiredForGood'
      BY <2>1 DEF IInv, RetiredForGood
    <2> QED BY <2>2, <2>3
  <1>12. RespondingRowsAlive'
    <2>1. ASSUME NEW q \in Runs, runs'[q].state = "responding"
          PROVE  runs[q].state = "responding"
      BY <2>1, <1>3
    <2>2. ASSUME NEW q \in Runs, runs'[q].state = "responding",
                 NEW e \in RowIds, outbox'[e].run = q, outbox'[e].phase = "terminal"
          PROVE  outbox'[e].status \in {"pending", "sending", "delivered", "deleted"}
      <3>1. CASE e # d
        BY <3>1, <2>1, <2>2, <1>2 DEF IInv, RespondingRowsAlive
      <3>2. CASE e = d
        BY <3>2, <2>2, <1>2, <1>3
      <3> QED BY <3>1, <3>2
    <2> QED BY <2>2 DEF RespondingRowsAlive
  <1>13. RunOutcome'
    <2>1. ASSUME NEW q \in Runs, q # r
          PROVE  \A e \in RowIds : outbox'[e].run = q \/ outbox[e].run = q => outbox'[e] = outbox[e]
      BY <2>1, <1>2
    <2>2. ASSUME NEW q \in Runs, runs'[q].state = "responding"
          PROVE  /\ ~ Superseded(q)'
                 /\ \E e \in RowIds : /\ outbox'[e].run = q /\ outbox'[e].phase = "terminal"
                                      /\ Open(outbox'[e])
      <3>1. CASE q = r
        BY <3>1, <2>2, <1>3, <1>5 DEF IInv, RunOutcome
      <3>2. CASE q # r
        <4>0. runs[q].state = "responding"
          BY <3>2, <2>2, <1>3
        <4>1. /\ ~ Superseded(q)
              /\ \E e \in RowIds : /\ outbox[e].run = q /\ outbox[e].phase = "terminal"
                                   /\ Open(outbox[e])
          BY <4>0 DEF IInv, RunOutcome
        <4>2. ~ Superseded(q)'
          BY <4>1, <1>5
        <4> QED BY <3>2, <4>1, <4>2, <2>1
      <3> QED BY <3>1, <3>2
    <2>3. ASSUME NEW q \in Runs, runs'[q].state = "delivered"
          PROVE  FullyShown(q)'
      <3>1. CASE q = r
        BY <3>1, <2>3
      <3>2. CASE q # r
        <4>1. FullyShown(q)
          BY <3>2, <2>3, <1>3 DEF IInv, RunOutcome
        <4>2. \A e \in RowIds : outbox'[e].run = q \/ outbox[e].run = q => outbox'[e] = outbox[e]
          BY <3>2, <2>1
        <4> HIDE DEF s, row
        <4>3. \E e \in RowIds : /\ outbox'[e].run = q /\ outbox'[e].phase = "terminal"
                                /\ outbox'[e].status = "delivered"
          BY <4>1, <4>2 DEF FullyShown
        <4>4. \A e \in RowIds : outbox'[e].run = q /\ outbox'[e].phase = "terminal"
                                  => outbox'[e].status \in {"delivered", "deleted"}
          BY <4>1, <4>2 DEF FullyShown
        <4> QED BY <4>3, <4>4 DEF FullyShown
      <3> QED BY <3>1, <3>2
    <2> QED BY <2>2, <2>3 DEF RunOutcome
  <1>14. OneProgress'
    BY <1>2 DEF IInv, OneProgress
  <1>15. FifoPerConversation'
    BY <1>2 DEF IInv, FifoPerConversation, SameConversation, Open
  <1> QED BY <1>6, <1>7, <1>8, <1>9, <1>10, <1>11, <1>12, <1>13, <1>14, <1>15 DEF IInv

\* An acknowledgement completes the run when no other terminal row is left.
LEMMA AckStep ==
  ASSUME IInv, NEW d \in RowIds, NEW receipt \in Receipts, Ack(d, receipt)
  PROVE  IInv'
  <1>0. outbox[d].status = "sending" /\ LeaseMatches(outbox[d], receipt)
    BY DEF Ack
  <1>r. PICK r \in Runs : r = outbox[d].run
    BY <1>0, MatchedRow
  <1> DEFINE done == CompletesRun(d) /\ runs[r].state \notin {"failed", "cancelled"}
             s == IF done THEN "delivered" ELSE runs[r].state
             row == Settled(outbox[d], "delivered")
  <1>1. /\ outbox[d].status = "sending" /\ LeaseMatches(outbox[d], receipt)
        /\ outbox' = [outbox EXCEPT ![d] = row] /\ UNCHANGED <<working, nrows>>
        /\ runs' = IF done THEN [runs EXCEPT ![r] = To(@, "delivered")] ELSE runs
    BY <1>r DEF Ack
  <1>2. outbox[d] \in Delivery /\ r \in Runs /\ d <= nrows
    BY <1>1, MatchedRow
  <1>3. /\ row \in Delivery /\ row.status = "delivered" /\ row.lease = 0 /\ row.wait = 0
        /\ row.run = outbox[d].run /\ row.phase = outbox[d].phase
    BY <1>2, SettledRow
  <1> HIDE DEF row
  <1>4. runs' = [runs EXCEPT ![r] = To(@, s)] /\ s \in RunStates
    BY <1>1, <1>2, RunStays DEF RunStates
  <1>5. s = runs[r].state \/ (outbox[d].phase = "terminal" /\ s = "delivered")
    BY DEF CompletesRun
  <1>6. outbox'[d] = row /\ \A e \in RowIds : e # d => outbox'[e] = outbox[e]
    BY <1>1 DEF IInv, TypeOK
  <1>7. s = "delivered" => FullyShown(r)'
    <2> SUFFICES ASSUME s = "delivered" PROVE FullyShown(r)'
      OBVIOUS
    <2>1. CASE done
      <3>1. \A e \in RowIds : outbox'[e].run = r /\ outbox'[e].phase = "terminal" =>
              outbox'[e].status \in {"delivered", "deleted"}
        BY <2>1, <1>r, <1>3, <1>6 DEF CompletesRun
      <3>2. outbox'[d].run = r /\ outbox'[d].phase = "terminal" /\ outbox'[d].status = "delivered"
        BY <2>1, <1>r, <1>3, <1>6 DEF CompletesRun
      <3> QED BY <3>1, <3>2 DEF FullyShown
    <2>2. CASE ~ done
      <3>1. FullyShown(r)
        BY <2>2, <1>2 DEF IInv, RunOutcome
      <3>2. \A e \in RowIds : outbox'[e].run = r /\ outbox'[e].phase = "terminal" =>
              outbox'[e].status \in {"delivered", "deleted"}
        BY <3>1, <1>3, <1>6 DEF FullyShown
      <3>3. \E e \in RowIds : /\ outbox'[e].run = r /\ outbox'[e].phase = "terminal"
                              /\ outbox'[e].status = "delivered"
        BY <3>1, <1>1, <1>6 DEF FullyShown
      <3> QED BY <3>2, <3>3 DEF FullyShown
    <2> QED BY <2>1, <2>2
  <1>8. ASSUME s = "responding"
        PROVE  \E e \in RowIds :
                 outbox'[e].run = r /\ outbox'[e].phase = "terminal" /\ Open(outbox'[e])
    <2>1. ~ done /\ runs[r].state = "responding"
      BY <1>8
    <2>2. PICK e \in RowIds : outbox[e].run = r /\ outbox[e].phase = "terminal" /\ Open(outbox[e])
      BY <2>1, <1>2 DEF IInv, RunOutcome
    <2>3. CASE e # d
      BY <2>2, <2>3, <1>6
    <2>4. CASE e = d
      <3>1. PICK f \in RowIds : /\ f # d /\ outbox[f].phase = "terminal"
                                /\ outbox[f].run = r
                                /\ outbox[f].status \notin {"delivered", "deleted"}
        BY <2>1, <2>2, <2>4, <1>r DEF CompletesRun
      <3>2. Open(outbox[f])
        BY <2>1, <3>1, <1>2 DEF IInv, RespondingRowsAlive, Open
      <3> QED BY <3>1, <3>2, <1>6
    <2> QED BY <2>3, <2>4
  <1> HIDE DEF s, done
  <1>9. r = outbox[d].run
    BY <1>r
  <1>10. /\ runs' \in [Runs -> RunRecord]
         /\ \A q \in Runs : q # r => runs'[q] = runs[q]
         /\ runs'[r].input = runs[r].input /\ runs'[r].state = s
         /\ runs'[r].task = runs[r].task /\ runs'[r].rev = runs[r].rev
         /\ runs'[r].retired = runs[r].retired
    BY <1>2, <1>4, RunMovedIn
  <1>11. outbox' \in [RowIds -> Delivery]
    BY <1>1, <1>3 DEF IInv, TypeOK
  <1>12. /\ outbox'[d].run = outbox[d].run /\ outbox'[d].phase = outbox[d].phase
         /\ outbox'[d].status \in {"delivered", "failed"}
         /\ outbox'[d].lease = 0 /\ outbox'[d].wait = 0
         /\ outbox'[d].status # "failed"
    BY <1>3, <1>6
  <1>13. /\ runs'[r].state = "delivered" => FullyShown(r)'
         /\ runs'[r].state = "responding" => \E e \in RowIds :
              outbox'[e].run = r /\ outbox'[e].phase = "terminal" /\ Open(outbox'[e])
         /\ \/ runs'[r].state = runs[r].state
            \/ outbox[d].phase = "terminal" /\ runs'[r].state \in {"delivered", "failed"}
    BY <1>5, <1>7, <1>8, <1>10
  <1>14. UNCHANGED <<working, nrows>> /\ \A e \in RowIds : e # d => outbox'[e] = outbox[e]
    BY <1>1, <1>6
  <1>15. outbox[d].status = "sending" /\ LeaseMatches(outbox[d], receipt)
    BY <1>1
  <1> QED BY <1>2, <1>9, <1>10, <1>11, <1>12, <1>13, <1>14, <1>15, SettleStep

\* A final failure takes the run with it; a retryable one does not.
LEMMA FailStep ==
  ASSUME IInv, NEW d \in RowIds, NEW receipt \in Receipts, NEW retryable \in BOOLEAN,
         Fail(d, receipt, retryable)
  PROVE  IInv'
  <1>0. outbox[d].status = "sending" /\ LeaseMatches(outbox[d], receipt)
    BY DEF Fail
  <1>r. PICK r \in Runs : r = outbox[d].run
    BY <1>0, MatchedRow
  <1> DEFINE again == retryable /\ outbox[d].attempts < MaxAttempts
             lost == /\ ~ again /\ outbox[d].phase = "terminal"
                     /\ runs[r].state \notin {"delivered", "cancelled"}
             s == IF lost THEN "failed" ELSE runs[r].state
             row == IF again THEN Requeued(outbox[d]) ELSE Settled(outbox[d], "failed")
  <1>1. /\ outbox[d].status = "sending" /\ LeaseMatches(outbox[d], receipt)
        /\ UNCHANGED <<working, nrows>>
        /\ runs' = IF lost THEN [runs EXCEPT ![r] = To(@, "failed")] ELSE runs
    BY <1>r DEF Fail
  <1>2. outbox' = [outbox EXCEPT ![d] = row]
    BY DEF Fail
  <1>3. outbox[d] \in Delivery /\ outbox[d].attempts > 0 /\ r \in Runs /\ d <= nrows
        /\ (outbox[d].phase = "terminal" => runs[r].state # "delivered")
    BY <1>1, <1>r, MatchedRow
  <1>4. /\ row \in Delivery /\ row.run = outbox[d].run /\ row.phase = outbox[d].phase
        /\ again => row.status = "pending"
        /\ ~ again => row.status = "failed" /\ row.lease = 0 /\ row.wait = 0
    <2> HIDE DEF again
    <2>1. CASE again
      BY <2>1, <1>3, RequeuedRow
    <2>2. CASE ~ again
      BY <2>2, <1>3, SettledRow
    <2> QED BY <2>1, <2>2
  <1> HIDE DEF row, again
  <1>5. runs' = [runs EXCEPT ![r] = To(@, s)] /\ s \in RunStates
    BY <1>1, <1>3, RunStays DEF RunStates
  <1>6. s = runs[r].state \/ (outbox[d].phase = "terminal" /\ s = "failed")
    OBVIOUS
  <1>7. outbox'[d] = row /\ \A e \in RowIds : e # d => outbox'[e] = outbox[e]
    BY <1>2 DEF IInv, TypeOK
  <1>8. s = "delivered" => FullyShown(r)'
    <2> SUFFICES ASSUME s = "delivered" PROVE FullyShown(r)'
      OBVIOUS
    <2>1. runs[r].state = "delivered" /\ outbox[d].phase # "terminal"
      BY <1>3
    <2>2. FullyShown(r)
      BY <2>1, <1>3 DEF IInv, RunOutcome
    <2> QED BY <2>1, <2>2, <1>4, <1>7 DEF FullyShown
  <1>9. ASSUME s = "responding"
        PROVE  /\ row.status # "failed" \/ row.phase = "progress"
               /\ \E e \in RowIds :
                    outbox'[e].run = r /\ outbox'[e].phase = "terminal" /\ Open(outbox'[e])
    <2>1. runs[r].state = "responding" /\ ~ lost
      BY <1>9
    <2>2. again \/ outbox[d].phase = "progress"
      BY <2>1, <1>3 DEF Delivery
    <2>3. PICK e \in RowIds : outbox[e].run = r /\ outbox[e].phase = "terminal" /\ Open(outbox[e])
      BY <2>1, <1>3 DEF IInv, RunOutcome
    <2>4. outbox'[e].run = r /\ outbox'[e].phase = "terminal" /\ Open(outbox'[e])
      <3>1. CASE e # d
        BY <3>1, <2>3, <1>7
      <3>2. CASE e = d
        BY <3>2, <2>2, <2>3, <1>4, <1>7 DEF Open
      <3> QED BY <3>1, <3>2
    <2>5. row.status # "failed" \/ row.phase = "progress"
      BY <2>2, <1>4
    <2> QED BY <2>4, <2>5
  <1>10. r = outbox[d].run
    BY <1>r
  <1> HIDE DEF s, lost
  <1>11. /\ runs' \in [Runs -> RunRecord]
         /\ \A q \in Runs : q # r => runs'[q] = runs[q]
         /\ runs'[r].input = runs[r].input /\ runs'[r].state = s
         /\ runs'[r].task = runs[r].task /\ runs'[r].rev = runs[r].rev
         /\ runs'[r].retired = runs[r].retired
    BY <1>3, <1>5, RunMovedIn
  <1>12. outbox' \in [RowIds -> Delivery]
    BY <1>2, <1>4 DEF IInv, TypeOK
  <1>13. \/ outbox'[d].status = "pending"
         \/ /\ outbox'[d].status \in {"delivered", "failed"}
            /\ outbox'[d].lease = 0 /\ outbox'[d].wait = 0
    BY <1>4, <1>7
  <1>14. /\ outbox[d].status = "sending" /\ LeaseMatches(outbox[d], receipt)
         /\ UNCHANGED <<working, nrows>>
         /\ \A e \in RowIds : e # d => outbox'[e] = outbox[e]
         /\ outbox'[d].run = outbox[d].run /\ outbox'[d].phase = outbox[d].phase
    BY <1>1, <1>4, <1>7
  <1>15. \/ runs'[r].state = runs[r].state
         \/ outbox[d].phase = "terminal" /\ runs'[r].state \in {"delivered", "failed"}
    BY <1>6, <1>11
  <1>16. runs'[r].state = "delivered" => FullyShown(r)'
    BY <1>8, <1>11
  <1>17. runs'[r].state = "responding" =>
           /\ outbox'[d].status # "failed" \/ outbox[d].phase = "progress"
           /\ \E e \in RowIds :
                outbox'[e].run = r /\ outbox'[e].phase = "terminal" /\ Open(outbox'[e])
    BY <1>4, <1>7, <1>9, <1>11
  <1>18. r \in Runs /\ r = outbox[d].run
    BY <1>3, <1>10
  <1> QED BY <1>11, <1>12, <1>13, <1>14, <1>15, <1>16, <1>17, <1>18, SettleStep

-----------------------------------------------------------------------------
(* Steps that add rows.                                                    *)

\* A new delivery is pending.
LEMMA PostedRow ==
  ASSUME NEW r \in Runs, NEW phase \in {"progress", "terminal"}, NEW wait \in Nat
  PROVE  /\ Posted(r, phase, wait) \in Delivery
         /\ Posted(r, phase, wait).run = r /\ Posted(r, phase, wait).phase = phase
         /\ Posted(r, phase, wait).status = "pending"
  <1>1. NoRow \in Delivery
    BY OutboxAssumption DEF NoRow, Delivery, Statuses
  <1>2. r \in Runs \cup {NoRun}
    OBVIOUS
  <1> QED BY <1>1, <1>2 DEF Posted, Delivery, Statuses

\* Free rows belong to no run.
LEMMA FreeRows ==
  ASSUME IInv
  PROVE  /\ nrows \in Nat /\ nrows <= MaxRows
         /\ \A d \in RowIds : /\ d > nrows => outbox[d] = NoRow /\ outbox[d].run \notin Runs
                                              /\ outbox[d].status = "none"
                              /\ d <= nrows => outbox[d].run \in Runs
  <1>1. nrows \in Nat /\ nrows <= MaxRows
    BY OutboxAssumption DEF IInv, TypeOK
  <1>2. NoRun \notin Runs
    BY DEF NoRun, Runs
  <1> QED BY <1>1, <1>2, OutboxAssumption DEF IInv, TypeOK, NoRow, RowIds

\* A run that announced nothing announces progress.
LEMMA EnqueueProgressStep == ASSUME IInv, NEW r \in Runs, EnqueueProgress(r) PROVE IInv'
  <1> DEFINE k == nrows + 1
  <1>1. /\ r \in working /\ ~ Superseded(r) /\ ~ Announced(r) /\ nrows' = k
        /\ outbox' = [outbox EXCEPT ![k] = Posted(r, "progress", 0)]
        /\ runs' = runs /\ working' = working /\ nrows < MaxRows
    BY DEF EnqueueProgress
  <1>2. k \in RowIds /\ k \in Nat /\ k <= MaxRows
    BY <1>1, FreeRows, OutboxAssumption DEF RowIds
  <1>3. /\ outbox'[k] \in Delivery /\ outbox'[k].run = r
        /\ outbox'[k].phase = "progress" /\ outbox'[k].status = "pending"
        /\ \A d \in RowIds : d # k => outbox'[d] = outbox[d]
        /\ outbox[k].run \notin Runs
    BY <1>1, <1>2, PostedRow, FreeRows DEF IInv, TypeOK
  <1>4. TypeOK'
    <2>1. outbox' \in [RowIds -> Delivery]
      BY <1>1, <1>3 DEF IInv, TypeOK
    <2>2. \A d \in RowIds : IF d <= k THEN outbox'[d].run \in Runs /\ outbox'[d].status # "none"
                            ELSE outbox'[d] = NoRow
      <3> TAKE d \in RowIds
      <3>1. CASE d = k
        BY <3>1, <1>3
      <3>2. CASE d # k
        BY <3>2, <1>3, FreeRows DEF IInv, TypeOK, RowIds
      <3> QED BY <3>1, <3>2
    <2>3. k \in 0..MaxRows
      BY <1>2, OutboxAssumption
    <2> QED BY <2>1, <2>2, <2>3, <1>1 DEF IInv, TypeOK
  <1>5. SettledRowsQuiet'
    BY <1>3 DEF IInv, SettledRowsQuiet
  <1>6. \A q \in Runs : /\ Superseded(q)' <=> Superseded(q)
                        /\ Outstanding(q)' => Outstanding(q)
    <2>1. \A q \in Runs : Superseded(q)' <=> Superseded(q)
      BY <1>1 DEF Superseded
    <2>2. \A q \in Runs : Outstanding(q)' => Outstanding(q)
      BY <1>3 DEF Outstanding
    <2> QED BY <2>1, <2>2
  <1>7. /\ TasksOpened' /\ LiveRunsKeepInput' /\ RetiredForGood'
        /\ AnsweredOnce' /\ OneWorkerPerRun'
    BY <1>1, <1>6 DEF IInv, TypeOK, TasksOpened, LiveRunsKeepInput, RetiredForGood,
           AnsweredOnce, OneWorkerPerRun
  <1>8. RespondingRowsAlive' /\ RunOutcome'
    <2>1. \A q \in Runs, d \in RowIds :
            /\ outbox[d].run = q /\ outbox[d].phase = "terminal" => outbox'[d] = outbox[d]
            /\ outbox'[d].run = q /\ outbox'[d].phase = "terminal" => outbox'[d] = outbox[d]
      BY <1>3
    <2>2. RespondingRowsAlive'
      BY <2>1, <1>1 DEF IInv, RespondingRowsAlive
    <2>3. \A q \in Runs : runs[q].state = "responding" =>
            \E d \in RowIds : /\ outbox'[d].run = q /\ outbox'[d].phase = "terminal"
                              /\ Open(outbox'[d])
      BY <2>1 DEF IInv, RunOutcome
    <2>4. \A q \in Runs : runs[q].state = "delivered" => FullyShown(q)'
      BY <2>1 DEF IInv, RunOutcome, FullyShown
    <2>5. RunOutcome'
      BY <2>3, <2>4, <1>1, <1>6 DEF IInv, RunOutcome
    <2> QED BY <2>2, <2>5
  <1>9. OneProgress'
    <2>1. \A d \in RowIds : d # k /\ outbox'[d].run = r /\ outbox'[d].phase = "progress"
                              => outbox'[d].status = "cancelled"
      BY <1>1, <1>3 DEF Announced
    <2> QED BY <2>1, <1>3 DEF IInv, OneProgress
  <1>10. FifoPerConversation'
    <2> SUFFICES ASSUME NEW d \in RowIds, NEW e \in RowIds, e < d, d <= k,
                        SameConversation(d, e)',
                        outbox'[d].status \in {"sending", "delivered", "failed"}
                 PROVE  ~ Open(outbox'[e])
      BY <1>1 DEF FifoPerConversation
    <2>1. d # k /\ e # k /\ d <= nrows
      BY <1>2, <1>3, FreeRows DEF RowIds
    <2>2. outbox'[d] = outbox[d] /\ outbox'[e] = outbox[e] /\ SameConversation(d, e)
      BY <2>1, <1>3 DEF SameConversation
    <2> QED BY <2>1, <2>2 DEF IInv, FifoPerConversation
  <1> QED BY <1>4, <1>5, <1>7, <1>8, <1>9, <1>10 DEF IInv

\* A worker writes the terminal rows of the run it holds, and lets it go.
LEMMA EnqueueTerminalStep ==
  ASSUME IInv, NEW r \in Runs, NEW n \in 1..MaxSegments, NEW delay \in Delays,
         NEW failure \in BOOLEAN, EnqueueTerminal(r, n, delay, failure)
  PROVE  IInv'
  <1> DEFINE new == nrows + 1 .. nrows + n
             hushed(d) == /\ outbox[d].run = r /\ outbox[d].phase = "progress"
                          /\ outbox[d].status = "pending"
             s == IF failure THEN "failed" ELSE "responding"
  <1>1. /\ r \in working /\ ~ Superseded(r) /\ runs[r].state # "cancelled"
        /\ nrows + n <= MaxRows /\ nrows' = nrows + n
        /\ runs' = [runs EXCEPT ![r] = Answered(runs[r], failure)]
        /\ working' = working \ {r}
    BY DEF EnqueueTerminal, IInv, TypeOK
  <1>2. outbox' = [d \in RowIds |->
          IF d \in new THEN Posted(r, "terminal", delay + (d - nrows - 1))
          ELSE IF hushed(d) THEN Cancelled(outbox[d]) ELSE outbox[d]]
    BY DEF EnqueueTerminal
  <1>3. nrows \in Nat /\ n \in Nat /\ n > 0 /\ MaxRows \in Nat /\ delay \in Nat
    BY OutboxAssumption, FreeRows
  <1>4. ~ Outstanding(r) /\ runs[r].state = "running"
    BY <1>1 DEF IInv, AnsweredOnce, OneWorkerPerRun
  <1>5. ASSUME NEW d \in RowIds, d \in new
        PROVE  /\ outbox'[d] \in Delivery /\ outbox'[d].run = r
               /\ outbox'[d].phase = "terminal" /\ outbox'[d].status = "pending"
               /\ d > nrows /\ d <= nrows + n
    <2>1. delay + (d - nrows - 1) \in Nat /\ d > nrows /\ d <= nrows + n
      BY <1>3, <1>5 DEF RowIds
    <2>2. outbox'[d] = Posted(r, "terminal", delay + (d - nrows - 1))
      BY <1>2, <1>5
    <2> QED BY <2>1, <2>2, PostedRow
  <1>6. ASSUME NEW d \in RowIds, d \notin new
        PROVE  /\ outbox'[d] \in Delivery
               /\ outbox'[d].run = outbox[d].run /\ outbox'[d].phase = outbox[d].phase
               /\ \/ outbox'[d] = outbox[d]
                  \/ /\ hushed(d) /\ outbox'[d].status = "cancelled"
                     /\ outbox'[d].lease = 0 /\ outbox'[d].wait = 0
    <2>1. outbox[d] \in Delivery
      BY DEF IInv, TypeOK
    <2>2. outbox'[d] = IF hushed(d) THEN Cancelled(outbox[d]) ELSE outbox[d]
      BY <1>2, <1>6
    <2> HIDE DEF hushed
    <2> QED BY <2>1, <2>2, CancelledRow
  <1>7. \A d \in RowIds : d \in new => outbox[d].run \notin Runs
    BY <1>5, FreeRows
  <1>8. nrows + 1 \in RowIds /\ nrows + 1 \in new
    BY <1>1, <1>3 DEF RowIds
  <1>9. \A d \in RowIds : d \notin new => (d <= nrows \/ d > nrows + n)
    BY <1>3 DEF RowIds
  <1> HIDE DEF new
  <1>10. /\ runs'[r] \in RunRecord /\ runs'[r].state = s /\ ~ runs'[r].input
         /\ runs'[r].task = runs[r].task /\ runs'[r].rev = runs[r].rev
         /\ runs'[r].retired = runs[r].retired
         /\ \A q \in Runs : q # r => runs'[q] = runs[q]
    <2>1. runs[r] \in RunRecord /\ s \in RunStates
      BY DEF IInv, TypeOK, RunStates
    <2>2. runs'[r] = Closed(runs[r], s) /\ \A q \in Runs : q # r => runs'[q] = runs[q]
      BY <1>1 DEF IInv, TypeOK, Answered
    <2> HIDE DEF s
    <2> QED BY <2>1, <2>2, RunClosed
  <1>11. TypeOK'
    <2>1. runs' \in [Runs -> RunRecord]
      BY <1>1, <1>10 DEF IInv, TypeOK
    <2>2. outbox' \in [RowIds -> Delivery]
      BY <1>2, <1>5, <1>6
    <2>3. nrows' \in 0..MaxRows
      BY <1>1, <1>3
    <2>4. ASSUME NEW d \in RowIds
          PROVE  IF d <= nrows' THEN outbox'[d].run \in Runs /\ outbox'[d].status # "none"
                 ELSE outbox'[d] = NoRow
      <3>1. CASE d \in new
        BY <3>1, <1>1, <1>5
      <3>2. CASE d \notin new /\ d <= nrows
        <4>1. outbox[d].run \in Runs /\ outbox[d].status # "none"
          BY <3>2 DEF IInv, TypeOK
        <4>2. d <= nrows'
          BY <3>2, <1>1, <1>3 DEF RowIds
        <4> QED BY <3>2, <4>1, <4>2, <1>6
      <3>3. CASE d \notin new /\ d > nrows + n
        <4>1. d > nrows
          BY <3>3, <1>3 DEF RowIds
        <4>2. outbox[d] = NoRow /\ outbox[d].status = "none"
          BY <4>1, FreeRows
        <4>3. outbox'[d] = outbox[d]
          BY <3>3, <4>2, <1>6
        <4> QED BY <3>3, <4>2, <4>3, <1>1, <1>3 DEF RowIds
      <3> QED BY <3>1, <3>2, <3>3, <1>9
    <2> QED BY <2>1, <2>2, <2>3, <2>4, <1>1 DEF IInv, TypeOK
  <1>12. SettledRowsQuiet'
    <2>1. ASSUME NEW d \in RowIds, outbox'[d].status \in {"delivered", "failed", "cancelled", "deleted"}
          PROVE  outbox'[d].lease = 0 /\ outbox'[d].wait = 0
      <3>1. d \notin new
        BY <2>1, <1>5
      <3> QED BY <2>1, <3>1, <1>6 DEF IInv, SettledRowsQuiet
    <2> QED BY <2>1 DEF SettledRowsQuiet
  <1>13. \A q \in Runs : /\ Superseded(q)' <=> Superseded(q)
                         /\ q # r => (Outstanding(q)' => Outstanding(q))
    <2>1. \A q \in Runs : Superseded(q)' <=> Superseded(q)
      BY <1>10, SameSuperseded
    <2>2. \A q \in Runs : q # r => (Outstanding(q)' => Outstanding(q))
      BY <1>5, <1>6, <1>7 DEF Outstanding
    <2> QED BY <2>1, <2>2
  <1>14. TasksOpened' /\ LiveRunsKeepInput' /\ RetiredForGood'
    <2>1. TasksOpened'
      BY <1>4, <1>10, <1>11 DEF IInv, TypeOK, RunRecord, TasksOpened, NoTask
    <2>2. LiveRunsKeepInput' /\ RetiredForGood'
      BY <1>4, <1>10 DEF IInv, LiveRunsKeepInput, RetiredForGood
    <2> QED BY <2>1, <2>2
  <1>15. AnsweredOnce' /\ OneWorkerPerRun'
    <2>1. AnsweredOnce'
      BY <1>1, <1>10, <1>13 DEF IInv, AnsweredOnce
    <2>2. OneWorkerPerRun'
      BY <1>1, <1>10, <1>13 DEF IInv, OneWorkerPerRun, TypeOK
    <2> QED BY <2>1, <2>2
  <1>16. ASSUME NEW d \in RowIds, outbox'[d].phase = "terminal"
         PROVE  /\ \/ d \in new /\ outbox'[d].run = r
                   \/ d \notin new /\ outbox'[d] = outbox[d]
                /\ d \notin new /\ outbox'[d].run = r =>
                     outbox'[d].status \in {"delivered", "deleted"}
    <2>1. CASE d \in new
      BY <2>1, <1>5
    <2>2. CASE d \notin new
      <3>1. outbox'[d] = outbox[d]
        BY <2>2, <1>6, <1>16
      <3> QED BY <2>2, <3>1, <1>4, <1>16 DEF Outstanding
    <2> QED BY <2>1, <2>2
  <1>17. \A q \in Runs, d \in RowIds : q # r /\ outbox[d].run = q /\ outbox[d].phase = "terminal"
                                   => outbox'[d] = outbox[d]
    BY <1>6, <1>7
  <1>18. RespondingRowsAlive'
    <2>1. ASSUME NEW q \in Runs, runs'[q].state = "responding", NEW d \in RowIds,
                 outbox'[d].run = q, outbox'[d].phase = "terminal"
          PROVE  outbox'[d].status \in {"pending", "sending", "delivered", "deleted"}
      <3>1. CASE q = r
        BY <3>1, <2>1, <1>5, <1>16
      <3>2. CASE q # r
        BY <3>2, <2>1, <1>10, <1>16 DEF IInv, RespondingRowsAlive
      <3> QED BY <3>1, <3>2
    <2> QED BY <2>1 DEF RespondingRowsAlive
  <1>19. RunOutcome'
    <2>1. ASSUME NEW q \in Runs, runs'[q].state = "responding"
          PROVE  /\ ~ Superseded(q)'
                 /\ \E d \in RowIds : /\ outbox'[d].run = q /\ outbox'[d].phase = "terminal"
                                      /\ Open(outbox'[d])
      <3>1. CASE q = r
        BY <3>1, <1>1, <1>5, <1>8, <1>13 DEF Open
      <3>2. CASE q # r
        <4>1. runs[q].state = "responding"
          BY <3>2, <2>1, <1>10
        <4>2. PICK d \in RowIds : /\ outbox[d].run = q /\ outbox[d].phase = "terminal"
                                  /\ Open(outbox[d])
          BY <4>1 DEF IInv, RunOutcome
        <4> QED BY <3>2, <4>1, <4>2, <1>13, <1>17 DEF IInv, RunOutcome
      <3> QED BY <3>1, <3>2
    <2>2. ASSUME NEW q \in Runs, runs'[q].state = "delivered"
          PROVE  FullyShown(q)'
      <3>1. q # r /\ runs[q].state = "delivered"
        BY <2>2, <1>10
      <3> QED BY <3>1, <1>16, <1>17 DEF IInv, RunOutcome, FullyShown
    <2> QED BY <2>1, <2>2 DEF RunOutcome
  <1>20. OneProgress'
    <2>1. \A d \in RowIds : outbox'[d].phase = "progress" /\ outbox'[d].status # "cancelled" =>
            outbox'[d] = outbox[d]
      BY <1>5, <1>6
    <2> QED BY <2>1 DEF IInv, OneProgress
  <1>21. FifoPerConversation'
    <2> SUFFICES ASSUME NEW d \in RowIds, NEW e \in RowIds, e < d, d <= nrows',
                        SameConversation(d, e)',
                        outbox'[d].status \in {"sending", "delivered", "failed"}
                 PROVE  ~ Open(outbox'[e])
      BY DEF FifoPerConversation
    <2>1. d \notin new /\ d <= nrows
      <3>1. d \notin new
        BY <1>5
      <3>2. ~ (d > nrows + n)
        BY <1>1, <1>3 DEF RowIds
      <3> QED BY <3>1, <3>2, <1>9
    <2>2. e \notin new
      BY <2>1, <1>3, <1>5 DEF RowIds
    <2>3. SameConversation(d, e) /\ outbox'[d] = outbox[d]
      BY <2>1, <2>2, <1>6 DEF SameConversation
    <2>4. ~ Open(outbox[e])
      BY <2>1, <2>3 DEF IInv, FifoPerConversation
    <2> QED BY <2>2, <2>4, <1>6 DEF Open
  <1> QED BY <1>11, <1>12, <1>14, <1>15, <1>18, <1>19, <1>20, <1>21 DEF IInv

-----------------------------------------------------------------------------
(* The theorems.                                                           *)

\* Every step of the specification preserves the inductive invariant.
LEMMA NextIInv == IInv /\ [Next]_vars => IInv'
  <1> SUFFICES ASSUME IInv, [Next]_vars PROVE IInv'
    OBVIOUS
  <1>1. ASSUME NEW r \in Runs, RunStep(r) PROVE IInv'
    <2>1. CASE AcceptChat(r) \/ AcceptNewTask(r) \/ \E p \in Runs : AcceptFollowUp(r, p)
      BY <2>1, AcceptStep
    <2>2. ASSUME NEW p \in Runs, AcceptRevision(r, p) PROVE IInv'
      BY <2>2, AcceptRevisionStep
    <2>3. CASE CoalesceRun(r)
      BY <2>3, CoalesceRunStep
    <2>4. CASE ClaimRun(r)
      BY <2>4, ClaimRunStep
    <2>5. CASE EnqueueProgress(r)
      BY <2>5, EnqueueProgressStep
    <2>6. ASSUME NEW n \in 1..MaxSegments, NEW delay \in Delays, NEW failure \in BOOLEAN,
                 EnqueueTerminal(r, n, delay, failure)
          PROVE  IInv'
      BY <2>6, EnqueueTerminalStep
    <2>7. ASSUME NEW state \in {"failed", "cancelled"}, FinishWithoutDelivery(r, state)
          PROVE  IInv'
      BY <2>7, FinishStep
    <2>8. CASE RestoreFails(r)
      BY <2>8, RestoreFailsStep
    <2>9. CASE AbandonRun(r)
      BY <2>9, AbandonRunStep
    <2>10. CASE CancelRun(r)
      BY <2>10, CancelRunStep
    <2>11. CASE RetryTask(r)
      BY <2>11, RetryTaskStep
    <2>12. CASE AdoptTask(r)
      BY <2>12, AdoptTaskStep
    <2>13. ASSUME NEW p \in Runs, RestoreInput(r, p) PROVE IInv'
      BY <2>13, RestoreInputStep
    <2>14. CASE Retire(r)
      BY <2>14, RetireStep
    <2> QED BY <1>1, <2>1, <2>2, <2>3, <2>4, <2>5, <2>6, <2>7, <2>8, <2>9, <2>10, <2>11,
               <2>12, <2>13, <2>14
            DEF RunStep
  <1>2. ASSUME NEW d \in RowIds, RowStep(d) PROVE IInv'
    BY <1>2, AckStep, FailStep DEF RowStep
  <1>3. ASSUME NEW c \in Consumers, NEW n \in 1..MaxBatch, Lease(c, n) PROVE IInv'
    BY <1>3, LeaseStep
  <1>4. CASE Restart
    BY <1>4, RestartStep
  <1>5. CASE Tick
    BY <1>5, TickStep
  <1>6. CASE UNCHANGED vars
    BY <1>6 DEF IInv, vars, TypeOK, SettledRowsQuiet, TasksOpened, AnsweredOnce,
            OneWorkerPerRun, LiveRunsKeepInput, RetiredForGood, RespondingRowsAlive,
            RunOutcome, FullyShown, OneProgress, FifoPerConversation, Outstanding,
            Superseded, SameConversation
  <1> QED BY <1>1, <1>2, <1>3, <1>4, <1>5, <1>6 DEF Next

\* The inductive invariant holds in every state the runtime reaches.
THEOREM OutboxInvariant == Spec => []IInv
  <1> QED BY InitIInv, NextIInv, PTL DEF Spec

\* The tables keep their shape: rows fill the outbox from the bottom and each
\* belongs to a run.
THEOREM TypeCorrect == Spec => []TypeOK
  <1>1. IInv => TypeOK
    BY DEF IInv
  <1> QED BY <1>1, OutboxInvariant, PTL

\* Once a delivery was handed out for good, no earlier row of its conversation
\* can still be sent, whatever leases expire, fail or are cancelled.
THEOREM DeliveredInOrder == Spec => []FifoPerConversation
  <1>1. IInv => FifoPerConversation
    BY DEF IInv
  <1> QED BY <1>1, OutboxInvariant, PTL

\* While a terminal row of a run may still be sent, no worker generates the run
\* again: a retry takes those rows away first.
THEOREM AnsweredAtMostOnce == Spec => []AnsweredOnce
  <1>1. IInv => AnsweredOnce
    BY DEF IInv
  <1> QED BY <1>1, OutboxInvariant, PTL

\* Two workers never hold the same run.
THEOREM HeldByOneWorker == Spec => []OneWorkerPerRun
  <1>1. IInv => OneWorkerPerRun
    BY DEF IInv
  <1> QED BY <1>1, OutboxInvariant, PTL

\* The state of a run agrees with the rows of its reply.
THEOREM OutcomeOfRuns == Spec => []RunOutcome
  <1>1. IInv => RunOutcome
    BY DEF IInv
  <1> QED BY <1>1, OutboxInvariant, PTL

\* A run announces progress at most once.
THEOREM ProgressOnce == Spec => []OneProgress
  <1>1. IInv => OneProgress
    BY DEF IInv
  <1> QED BY <1>1, OutboxInvariant, PTL

\* A run whose intent has expired never runs again and keeps no text: no retry
\* and no "continue" races with the retirement.
THEOREM RetiredRunsStayOut == Spec => []RetiredForGood
  <1>1. IInv => RetiredForGood
    BY DEF IInv
  <1> QED BY <1>1, OutboxInvariant, PTL

\* Queued and running runs always have their input.
THEOREM LiveRunsResumable == Spec => []LiveRunsKeepInput
  <1>1. IInv => LiveRunsKeepInput
    BY DEF IInv
  <1> QED BY <1>1, OutboxInvariant, PTL

-----------------------------------------------------------------------------
(* What no step may do.                                                    *)

SettledStep ==
  \A d \in RowIds :
    outbox[d].status \in {"delivered", "failed", "cancelled", "deleted"} =>
      \/ outbox'[d] = outbox[d]
      \/ outbox[d].status \in {"failed", "cancelled"} /\ outbox'[d].status = "deleted"

SilentStep ==
  \A d \in RowIds :
    outbox'[d].status = "sending" /\ outbox'[d].attempts > outbox[d].attempts
      => runs[outbox[d].run].state # "cancelled" /\ ~ Superseded(outbox[d].run)

\* What happens to one row in a step other than a lease.
RowMoves(d) ==
  \/ outbox'[d] = outbox[d]
  \/ outbox[d].status \in {"none", "pending", "sending"} /\ outbox'[d].status # "sending"
  \/ /\ outbox[d].status \in {"none", "pending", "sending"}
     /\ outbox'[d].attempts = outbox[d].attempts
  \/ outbox[d].status \in {"failed", "cancelled"} /\ outbox'[d].status = "deleted"

\* Rows that are cancelled were open.
LEMMA CancelledMoves ==
  ASSUME IInv, NEW S \in SUBSET RowIds, \A d \in S : Open(outbox[d]), outbox' = CancelRows(S)
  PROVE  \A d \in RowIds : RowMoves(d)
  <1> TAKE d \in RowIds
  <1>1. outbox[d] \in Delivery /\ outbox'[d] = IF d \in S THEN Cancelled(outbox[d]) ELSE outbox[d]
    BY DEF IInv, TypeOK, CancelRows
  <1>2. CASE d \in S
    BY <1>1, <1>2, CancelledRow DEF RowMoves, Open
  <1>3. CASE d \notin S
    BY <1>1, <1>3 DEF RowMoves
  <1> QED BY <1>2, <1>3

\* No step but a lease sends a row, and none moves a settled one.
LEMMA MovesOfNext ==
  ASSUME IInv, [Next]_vars
  PROVE  \/ \A d \in RowIds : RowMoves(d)
         \/ \E c \in Consumers, n \in 1..MaxBatch : Lease(c, n)
  <1>1. ASSUME outbox' = outbox PROVE \A d \in RowIds : RowMoves(d)
    BY <1>1 DEF RowMoves
  <1>2. ASSUME NEW r \in Runs, RunStep(r) PROVE \A d \in RowIds : RowMoves(d)
    <2>1. CASE outbox' = outbox
      BY <2>1, <1>1
    <2>2. ASSUME NEW p \in Runs, AcceptRevision(r, p) PROVE \A d \in RowIds : RowMoves(d)
      <3> DEFINE S == {d \in RowIds : /\ outbox[d].run \in {n \in Runs : runs[n].task = runs[p].task}
                                      /\ Open(outbox[d])}
      <3>1. S \in SUBSET RowIds /\ (\A d \in S : Open(outbox[d])) /\ outbox' = CancelRows(S)
        BY <2>2 DEF AcceptRevision
      <3> HIDE DEF S
      <3> QED BY <3>1, CancelledMoves
    <2>3. CASE EnqueueProgress(r)
      <3>1. outbox' = [outbox EXCEPT ![nrows + 1] = Posted(r, "progress", 0)]
        BY <2>3 DEF EnqueueProgress
      <3> TAKE d \in RowIds
      <3>2. CASE d # nrows + 1
        BY <3>1, <3>2 DEF RowMoves, IInv, TypeOK
      <3>3. CASE d = nrows + 1
        <4>1. outbox[d].status = "none" /\ outbox'[d].status = "pending"
          BY <3>1, <3>3, FreeRows, PostedRow DEF IInv, TypeOK
        <4> QED BY <4>1 DEF RowMoves
      <3> QED BY <3>2, <3>3
    <2>4. ASSUME NEW n \in 1..MaxSegments, NEW delay \in Delays, NEW failure \in BOOLEAN,
                 EnqueueTerminal(r, n, delay, failure)
          PROVE  \A d \in RowIds : RowMoves(d)
      <3> TAKE d \in RowIds
      <3>1. outbox[d] \in Delivery
        BY DEF IInv, TypeOK
      <3>2. CASE d \in nrows + 1 .. nrows + n
        <4>1. delay + (d - nrows - 1) \in Nat /\ d > nrows
          BY <3>2, FreeRows, OutboxAssumption
        <4>2. outbox'[d] = Posted(r, "terminal", delay + (d - nrows - 1))
          BY <2>4, <3>2 DEF EnqueueTerminal
        <4>3. outbox'[d].status = "pending" /\ outbox[d].status = "none"
          BY <4>1, <4>2, PostedRow, FreeRows
        <4> QED BY <4>3 DEF RowMoves
      <3>3. CASE d \notin nrows + 1 .. nrows + n
        <4>1. outbox'[d] = IF /\ outbox[d].run = r /\ outbox[d].phase = "progress"
                              /\ outbox[d].status = "pending"
                           THEN Cancelled(outbox[d]) ELSE outbox[d]
          BY <2>4, <3>3 DEF EnqueueTerminal
        <4>2. Cancelled(outbox[d]).status = "cancelled"
          BY <3>1, CancelledRow
        <4> QED BY <4>1, <4>2 DEF RowMoves
      <3> QED BY <3>2, <3>3
    <2>5. ASSUME NEW state \in {"failed", "cancelled"}, FinishWithoutDelivery(r, state)
          PROVE  \A d \in RowIds : RowMoves(d)
      <3> DEFINE S == {d \in RowIds : outbox[d].run = r /\ outbox[d].status = "pending"}
      <3>1. S \in SUBSET RowIds /\ (\A d \in S : Open(outbox[d])) /\ outbox' = CancelRows(S)
        BY <2>5 DEF FinishWithoutDelivery, Open
      <3> HIDE DEF S
      <3> QED BY <3>1, CancelledMoves
    <2>6. CASE CancelRun(r)
      <3> DEFINE S == {d \in RowIds : outbox[d].run = r /\ Open(outbox[d])}
      <3>1. S \in SUBSET RowIds /\ (\A d \in S : Open(outbox[d])) /\ outbox' = CancelRows(S)
        BY <2>6 DEF CancelRun
      <3> HIDE DEF S
      <3> QED BY <3>1, CancelledMoves
    <2>7. CASE RetryTask(r)
      <3> TAKE d \in RowIds
      <3>1. outbox[d].status \in Statuses
        BY DEF IInv, TypeOK, Delivery
      <3>2. CASE Deletes(r, d)
        <4>1. outbox'[d].status = "deleted"
          BY <2>7, <3>2, RetriedRows
        <4> QED BY <3>1, <3>2, <4>1 DEF Deletes, RowMoves, Statuses
      <3>3. CASE ~ Deletes(r, d)
        BY <2>7, <3>3, RetriedRows DEF RowMoves
      <3> QED BY <3>2, <3>3
    <2> QED BY <1>2, <2>1, <2>2, <2>3, <2>4, <2>5, <2>6, <2>7
            DEF RunStep, AcceptChat, AcceptNewTask, AcceptFollowUp, CoalesceRun, ClaimRun,
                RestoreFails, AbandonRun, AdoptTask, RestoreInput, Retire
  <1>3. ASSUME NEW d \in RowIds, RowStep(d) PROVE \A e \in RowIds : RowMoves(e)
    <2>1. PICK row : outbox' = [outbox EXCEPT ![d] = row] /\ row.status # "sending"
                     /\ outbox[d].status = "sending"
      <3>1. PICK receipt \in Receipts :
              Ack(d, receipt) \/ \E retryable \in BOOLEAN : Fail(d, receipt, retryable)
        BY <1>3 DEF RowStep
      <3>2. CASE Ack(d, receipt)
        BY <3>2, MatchedRow, SettledRow DEF Ack
      <3>3. ASSUME NEW retryable \in BOOLEAN, Fail(d, receipt, retryable)
            PROVE  \E row : /\ outbox' = [outbox EXCEPT ![d] = row] /\ row.status # "sending"
                            /\ outbox[d].status = "sending"
        <4>1. outbox[d] \in Delivery /\ outbox[d].attempts > 0
          BY <3>3, MatchedRow DEF Fail
        <4>2. Requeued(outbox[d]).status # "sending" /\ Settled(outbox[d], "failed").status # "sending"
          BY <4>1, RequeuedRow, SettledRow
        <4> QED BY <3>3, <4>2 DEF Fail
      <3> QED BY <3>1, <3>2, <3>3
    <2>2. outbox'[d].status # "sending" /\ \A e \in RowIds : e # d => outbox'[e] = outbox[e]
      BY <2>1 DEF IInv, TypeOK
    <2> QED BY <2>1, <2>2 DEF RowMoves
  <1>4. CASE Tick
    <2>1. \A d \in RowIds : outbox[d] \in Delivery /\ outbox'[d] = Aged(outbox[d])
      BY <1>4 DEF Tick, IInv, TypeOK
    <2>2. \A d \in RowIds : /\ outbox'[d].attempts = outbox[d].attempts
                            /\ outbox[d].lease = 0 /\ outbox[d].wait = 0 => outbox'[d] = outbox[d]
      BY <2>1, AgedRow DEF Aged, Delivery
    <2> QED BY <2>1, <2>2 DEF RowMoves, IInv, SettledRowsQuiet, Delivery, Statuses
  <1>5. CASE Restart
    BY <1>5, <1>1 DEF Restart
  <1>6. CASE UNCHANGED vars
    BY <1>6, <1>1 DEF vars
  <1> QED BY <1>2, <1>3, <1>4, <1>5, <1>6 DEF Next

\* A lease keeps settled rows as they are, and sends no row of a dead run.
LEMMA LeaseMoves ==
  ASSUME IInv, NEW c \in Consumers, NEW n \in 1..MaxBatch, Lease(c, n)
  PROVE  SettledStep /\ SilentStep
  <1> DEFINE t == Swept
             ready == {d \in RowIds : Ready(t, d)}
             taken == {d \in ready : Cardinality({e \in ready : e < d}) < n}
  <1> SUFFICES ASSUME NEW d \in RowIds
               PROVE  /\ outbox[d].status \in {"delivered", "failed", "cancelled", "deleted"} =>
                           outbox'[d] = outbox[d]
                      /\ outbox'[d].status = "sending" /\ outbox'[d].attempts > outbox[d].attempts
                           => runs[outbox[d].run].state # "cancelled" /\ ~ Superseded(outbox[d].run)
    BY DEF SettledStep, SilentStep
  <1>1. outbox[d] \in Delivery
    BY DEF IInv, TypeOK
  <1>2. t[d] = IF Doomed(d) THEN Cancelled(outbox[d])
               ELSE IF Expired(d) THEN Reclaimed(outbox[d]) ELSE outbox[d]
    BY DEF Swept
  <1>3. outbox'[d] = IF d \in taken THEN Sent(t[d], c) ELSE t[d]
    BY DEF Lease
  <1>4. d \in taken => t[d].status = "pending"
    BY DEF Ready
  <1>5. d \notin taken => outbox'[d].attempts = outbox[d].attempts
    <2> HIDE DEF t, taken
    <2> QED BY <1>1, <1>2, <1>3, CancelledRow, ReclaimedRow
  <1> HIDE DEF t, taken
  <1>6. ASSUME outbox[d].status \in {"delivered", "failed", "cancelled", "deleted"}
        PROVE  outbox'[d] = outbox[d]
    <2>1. t[d] = outbox[d]
      BY <1>2, <1>6 DEF Doomed, Expired, Open
    <2> QED BY <2>1, <1>3, <1>4, <1>6
  <1>7. ASSUME outbox'[d].attempts > outbox[d].attempts
        PROVE  runs[outbox[d].run].state # "cancelled" /\ ~ Superseded(outbox[d].run)
    <2>1. d \in taken
      BY <1>1, <1>5, <1>7 DEF Delivery
    <2>2. ~ Doomed(d)
      BY <2>1, <1>1, <1>2, <1>4, CancelledRow
    <2>3. outbox[d].status \in {"pending", "sending"}
      BY <2>1, <2>2, <1>2, <1>4 DEF Expired
    <2> QED BY <2>2, <2>3 DEF Doomed, Open
  <1> QED BY <1>6, <1>7

\* A late acknowledgement, failure, cancel or lease of a stale consumer never
\* moves a row whose fate is settled.
THEOREM SettledRowsStay == Spec => SettledForever
  <1>1. ASSUME IInv, [Next]_vars PROVE SettledStep
    <2>1. CASE \A d \in RowIds : RowMoves(d)
      BY <2>1 DEF SettledStep, RowMoves
    <2> QED BY <1>1, <2>1, MovesOfNext, LeaseMoves
  <1>2. IInv /\ [Next]_vars => [SettledStep]_vars
    BY <1>1
  <1>3. Spec => [][SettledStep]_vars
    BY <1>2, OutboxInvariant, PTL DEF Spec
  <1> QED BY <1>3 DEF SettledStep, SettledForever

\* No consumer is handed a row of a cancelled or superseded run.
THEOREM DeadRunsSilent == Spec => DeadRunsStaySilent
  <1>1. ASSUME IInv, [Next]_vars PROVE SilentStep
    <2>1. CASE \A d \in RowIds : RowMoves(d)
      <3>1. ASSUME NEW d \in RowIds, outbox'[d].status = "sending"
            PROVE  ~ (outbox'[d].attempts > outbox[d].attempts)
        <4>1. outbox'[d].attempts = outbox[d].attempts /\ outbox[d].attempts \in Int
          BY <2>1, <3>1, <1>1 DEF RowMoves, IInv, TypeOK, Delivery
        <4> QED BY <4>1
      <3> QED BY <3>1 DEF SilentStep
    <2> QED BY <1>1, <2>1, MovesOfNext, LeaseMoves
  <1>2. IInv /\ [Next]_vars => [SilentStep]_vars
    BY <1>1
  <1>3. Spec => [][SilentStep]_vars
    BY <1>2, OutboxInvariant, PTL DEF Spec
  <1> QED BY <1>3 DEF SilentStep, DeadRunsStaySilent

-----------------------------------------------------------------------------
(* The conversation feed.                                                  *)

\* The fate of a row is its status, without leases.
LEMMA FateOfStatus ==
  ASSUME IInv, NEW d \in RowIds
  PROVE  /\ outbox[d].status = "none" => Fate(d) = "unposted"
         /\ Open(outbox[d]) => Fate(d) = "open"
         /\ outbox[d].status = "delivered" => Fate(d) = "shown"
         /\ outbox[d].status \in {"failed", "cancelled", "deleted"} => Fate(d) = "dropped"
         /\ outbox[d].status \in Statuses
  <1>1. outbox[d].status \in Statuses
    BY DEF IInv, TypeOK, Delivery
  <1>2. outbox[d].status = "none" => Fate(d) = "unposted"
    BY DEF Fate
  <1>3. Open(outbox[d]) => Fate(d) = "open"
    BY DEF Fate, Open
  <1>4. outbox[d].status = "delivered" => Fate(d) = "shown"
    BY DEF Fate
  <1>5. outbox[d].status \in {"failed", "cancelled", "deleted"} => Fate(d) = "dropped"
    BY DEF Fate
  <1> QED BY <1>1, <1>2, <1>3, <1>4, <1>5

\* Every row initially is a message that was not posted.
LEMMA FeedInit == Init => Feed!Init
  <1> SUFFICES ASSUME Init PROVE Feed!Init
    OBVIOUS
  <1>1. IInv
    BY InitIInv
  <1>2. nrows = 0 /\ \A d \in RowIds : outbox[d].status = "none" /\ ~ (d <= nrows)
    BY OutboxAssumption DEF Init, NoRow, RowIds
  <1>3. lanes = [d \in RowIds |-> NoOwner]
    BY <1>2 DEF lanes
  <1>4. fates = [d \in RowIds |-> "unposted"]
    BY <1>1, <1>2, FateOfStatus DEF fates
  <1> QED BY <1>2, <1>3, <1>4 DEF Feed!Init, Feed!Messages, RowIds

\* A step that posts nothing and only drops open rows.
LEMMA DropStep ==
  ASSUME IInv, IInv', nrows' = nrows,
         \A d \in RowIds :
           /\ outbox'[d].run = outbox[d].run
           /\ \/ outbox'[d].status = outbox[d].status
              \/ Open(outbox[d]) /\ Open(outbox'[d])
              \/ Open(outbox[d]) /\ outbox'[d].status \in {"failed", "cancelled", "deleted"}
              \/ outbox[d].status \in {"failed", "cancelled"} /\ outbox'[d].status = "deleted"
  PROVE  [Feed!Next]_(Feed!vars)
  <1> DEFINE gone == {d \in RowIds : fates[d] = "open" /\ fates'[d] = "dropped"}
  <1>1. lanes' = lanes
    BY DEF lanes
  <1>2. ASSUME NEW d \in RowIds
        PROVE  fates'[d] = fates[d] \/ (fates[d] = "open" /\ fates'[d] = "dropped")
    <2>1. /\ outbox[d].status \in Statuses
          /\ Fate(d) = IF outbox[d].status = "none" THEN "unposted"
                       ELSE IF Open(outbox[d]) THEN "open"
                       ELSE IF outbox[d].status = "delivered" THEN "shown" ELSE "dropped"
          /\ Fate(d)' = IF outbox'[d].status = "none" THEN "unposted"
                        ELSE IF Open(outbox'[d]) THEN "open"
                        ELSE IF outbox'[d].status = "delivered" THEN "shown" ELSE "dropped"
      <3>1. /\ outbox[d].status \in Statuses /\ outbox'[d].status \in Statuses
        BY DEF IInv, TypeOK, Delivery
      <3> QED BY <3>1 DEF Fate, Open, Statuses
    <2>2. fates[d] = Fate(d) /\ fates'[d] = Fate(d)'
      BY DEF fates
    <2> QED BY <2>1, <2>2 DEF Open
  <1>3. fates' = [d \in RowIds |-> fates'[d]]
    BY DEF fates
  <1>4. CASE gone = {}
    <2>1. \A d \in RowIds : fates'[d] = fates[d]
      BY <1>2, <1>4
    <2>2. fates' = fates
      <3>1. fates = [d \in RowIds |-> fates[d]]
        BY DEF fates
      <3> QED BY <2>1, <3>1, <1>3
    <2> QED BY <2>2, <1>1 DEF Feed!vars
  <1>5. CASE gone # {}
    <2>1. PICK d \in RowIds : fates[d] = "open"
      BY <1>5
    <2>2. outbox[d].run \in Runs
      BY <2>1 DEF fates, Fate, IInv, TypeOK, NoRow
    <2>3. fates' = [e \in RowIds |-> IF e \in gone THEN "dropped"
                                    ELSE IF e \in nrows + 1 .. nrows THEN "open"
                                    ELSE fates[e]]
      BY <1>2, <1>3, FreeRows
    <2>4. lanes' = [e \in RowIds |-> IF e \in nrows + 1 .. nrows THEN ConvOf[outbox[d].run]
                                    ELSE lanes[e]]
      BY <1>1, FreeRows DEF lanes
    <2>5. nrows \in nrows..MaxRows /\ gone \in SUBSET RowIds /\ \A e \in gone : fates[e] = "open"
      BY FreeRows, OutboxAssumption
    <2> HIDE DEF gone
    <2>6. Feed!PostAndDrop(nrows, gone)
      BY <2>2, <2>3, <2>4, <2>5 DEF Feed!PostAndDrop, Feed!Messages, RowIds
    <2> QED BY <2>5, <2>6 DEF Feed!Next, Feed!Messages, RowIds
  <1> QED BY <1>4, <1>5

\* A lease cancels rows, and moves the others between pending and sending.
LEMMA LeaseDrops ==
  ASSUME IInv, NEW c \in Consumers, NEW n \in 1..MaxBatch, Lease(c, n), NEW d \in RowIds
  PROVE  /\ outbox'[d].run = outbox[d].run
         /\ \/ outbox'[d].status = outbox[d].status
            \/ Open(outbox[d]) /\ Open(outbox'[d])
            \/ Open(outbox[d]) /\ outbox'[d].status \in {"failed", "cancelled"}
  <1> DEFINE t == Swept
             ready == {e \in RowIds : Ready(t, e)}
             taken == {e \in ready : Cardinality({f \in ready : f < e}) < n}
  <1>1. outbox[d] \in Delivery
    BY DEF IInv, TypeOK
  <1>2. t[d] = IF Doomed(d) THEN Cancelled(outbox[d])
               ELSE IF Expired(d) THEN Reclaimed(outbox[d]) ELSE outbox[d]
    BY DEF Swept
  <1>3. /\ outbox'[d] = IF d \in taken THEN Sent(t[d], c) ELSE t[d]
        /\ d \in taken => t[d].status = "pending" /\ t[d].attempts < LeaseCap
    BY DEF Lease, Ready
  <1> HIDE DEF t, taken
  <1>4. /\ t[d] \in Delivery /\ t[d].run = outbox[d].run
        /\ \/ t[d].status = outbox[d].status
           \/ Open(outbox[d]) /\ t[d].status \in {"pending", "cancelled"}
    BY <1>1, <1>2, CancelledRow, ReclaimedRow DEF Doomed, Expired, Open
  <1>5. CASE d \in taken
    BY <1>3, <1>4, <1>5, SentRow DEF Open
  <1>6. CASE d \notin taken
    BY <1>3, <1>4, <1>6 DEF Open
  <1> QED BY <1>5, <1>6

\* An acknowledgement shows the message: those before it in the conversation
\* are settled.
LEMMA AckShows ==
  ASSUME IInv, IInv', NEW d \in RowIds, NEW receipt \in Receipts, Ack(d, receipt)
  PROVE  Feed!Next
  <1>1. /\ outbox[d].status = "sending" /\ nrows' = nrows
        /\ outbox' = [outbox EXCEPT ![d] = Settled(outbox[d], "delivered")]
        /\ outbox[d] \in Delivery /\ d <= nrows
    BY MatchedRow DEF Ack, IInv, TypeOK
  <1>2. /\ outbox'[d].status = "delivered" /\ outbox'[d].run = outbox[d].run
        /\ \A e \in RowIds : e # d => outbox'[e] = outbox[e]
    BY <1>1, SettledRow DEF IInv, TypeOK
  <1>3. fates[d] = "open" /\ Fate(d)' = "shown"
    BY <1>1, <1>2 DEF fates, Fate
  <1>4. lanes' = lanes
    BY <1>1, <1>2 DEF lanes
  <1>5. fates' = [fates EXCEPT ![d] = "shown"]
    <2>1. \A e \in RowIds : e # d => Fate(e)' = Fate(e)
      BY <1>2 DEF Fate
    <2> QED BY <2>1, <1>3 DEF fates
  <1>6. ASSUME NEW e \in RowIds, e < d, lanes[e] = lanes[d]
        PROVE  fates[e] # "open"
    <2>1. e <= nrows /\ outbox[e].run \in Runs /\ outbox[d].run \in Runs
      BY <1>1, <1>6, FreeRows DEF RowIds
    <2>2. SameConversation(d, e)
      BY <2>1, <1>1, <1>6 DEF lanes, SameConversation, Runs, NoRun
    <2>3. ~ Open(outbox[e])
      BY <2>2, <1>1, <1>6 DEF IInv, FifoPerConversation
    <2> QED BY <2>3, FateOfStatus DEF fates, Open, Statuses
  <1>7. Feed!Show(d)
    BY <1>1, <1>3, <1>4, <1>5, <1>6 DEF Feed!Show, Feed!Messages, RowIds
  <1> QED BY <1>7 DEF Feed!Next, Feed!Messages, RowIds

\* Writing rows posts them at the end, in the lane of their run, and may drop
\* what the run had announced.
LEMMA PostStep ==
  ASSUME IInv, IInv', NEW r \in Runs, NEW n \in Nat, nrows' = nrows + n,
         \A d \in RowIds :
           IF d \in nrows + 1 .. nrows + n
           THEN outbox'[d].run = r /\ outbox'[d].status = "pending"
           ELSE /\ outbox'[d].run = outbox[d].run
                /\ \/ outbox'[d].status = outbox[d].status
                   \/ Open(outbox[d]) /\ outbox'[d].status = "cancelled"
  PROVE  Feed!Next
  <1> DEFINE new == nrows + 1 .. nrows + n
             gone == {d \in RowIds : Open(outbox[d]) /\ outbox'[d].status = "cancelled"}
  <1>1. nrows \in Nat /\ nrows + n <= MaxRows /\ nrows + n \in nrows..MaxRows
    BY OutboxAssumption DEF IInv, TypeOK
  <1>2. \A d \in RowIds : d \in new => outbox[d].status = "none" /\ ~ (d <= nrows) /\ d <= nrows + n
    BY <1>1, FreeRows DEF RowIds
  <1>3. \A d \in RowIds : d \notin new => (d <= nrows <=> d <= nrows + n)
    BY <1>1 DEF RowIds
  <1>4. \A d \in RowIds :
          /\ d \in new => outbox'[d].run = r /\ outbox'[d].status = "pending"
          /\ d \notin new => /\ outbox'[d].run = outbox[d].run
                             /\ \/ outbox'[d].status = outbox[d].status
                                \/ Open(outbox[d]) /\ outbox'[d].status = "cancelled"
    OBVIOUS
  <1> HIDE DEF new
  <1>5. lanes' = [d \in RowIds |-> IF d \in new THEN ConvOf[r] ELSE lanes[d]]
    BY <1>2, <1>3, <1>4 DEF lanes
  <1>6. ASSUME NEW d \in RowIds
        PROVE  Fate(d)' = IF d \in gone THEN "dropped" ELSE IF d \in new THEN "open" ELSE Fate(d)
    <2>1. CASE d \in new
      BY <2>1, <1>2, <1>4 DEF Fate, Open
    <2>2. CASE d \notin new /\ d \in gone
      BY <2>2 DEF Fate
    <2>3. CASE d \notin new /\ d \notin gone
      <3>1. outbox'[d].status = outbox[d].status
        BY <2>3, <1>4
      <3>2. outbox[d].status \in Statuses
        BY FateOfStatus
      <3>3. Fate(d)' = Fate(d)
        BY <3>1, <3>2 DEF Fate, Statuses
      <3> HIDE DEF gone
      <3> QED BY <2>3, <3>3
    <2> QED BY <2>1, <2>2, <2>3
  <1>7. fates' = [d \in RowIds |-> IF d \in gone THEN "dropped"
                                   ELSE IF d \in new THEN "open" ELSE fates[d]]
    BY <1>6 DEF fates
  <1>8. gone \in SUBSET RowIds /\ \A d \in gone : fates[d] = "open"
    BY FateOfStatus DEF fates
  <1>9. new = nrows + 1 .. nrows + n
    BY DEF new
  <1> HIDE DEF gone
  <1>10. Feed!PostAndDrop(nrows + n, gone)
    BY <1>1, <1>5, <1>7, <1>8, <1>9 DEF Feed!PostAndDrop, Feed!Messages, RowIds
  <1> QED BY <1>1, <1>8, <1>10 DEF Feed!Next, Feed!Messages, RowIds

\* Every step of the outbox is a step of the feed, or leaves the feed alone.
LEMMA FeedStep == IInv /\ IInv' /\ [Next]_vars => [Feed!Next]_(Feed!vars)
  <1> SUFFICES ASSUME IInv, IInv', [Next]_vars PROVE [Feed!Next]_(Feed!vars)
    OBVIOUS
  <1> DEFINE drops == \A d \in RowIds :
               /\ outbox'[d].run = outbox[d].run
               /\ \/ outbox'[d].status = outbox[d].status
                  \/ Open(outbox[d]) /\ Open(outbox'[d])
                  \/ Open(outbox[d]) /\ outbox'[d].status \in {"failed", "cancelled", "deleted"}
                  \/ outbox[d].status \in {"failed", "cancelled"} /\ outbox'[d].status = "deleted"
  <1>1. ASSUME nrows' = nrows, drops PROVE [Feed!Next]_(Feed!vars)
    BY <1>1, DropStep
  <1>2. ASSUME nrows' = nrows, NEW S \in SUBSET RowIds, \A d \in S : Open(outbox[d]),
               outbox' = CancelRows(S)
        PROVE  drops
    <2> TAKE d \in RowIds
    <2>1. /\ outbox[d] \in Delivery
          /\ outbox'[d] = IF d \in S THEN Cancelled(outbox[d]) ELSE outbox[d]
      BY <1>2 DEF IInv, TypeOK, CancelRows
    <2> QED BY <1>2, <2>1, CancelledRow
  <1>3. outbox' = outbox => drops
    OBVIOUS
  <1>4. ASSUME NEW r \in Runs, RunStep(r) PROVE [Feed!Next]_(Feed!vars)
    <2>1. CASE UNCHANGED <<outbox, nrows>>
      BY <2>1, <1>1, <1>3
    <2>2. ASSUME NEW p \in Runs, AcceptRevision(r, p) PROVE [Feed!Next]_(Feed!vars)
      <3> DEFINE S == {d \in RowIds : /\ outbox[d].run \in {n \in Runs : runs[n].task = runs[p].task}
                                      /\ Open(outbox[d])}
      <3>1. /\ S \in SUBSET RowIds /\ \A d \in S : Open(outbox[d])
            /\ outbox' = CancelRows(S) /\ nrows' = nrows
        BY <2>2 DEF AcceptRevision
      <3> HIDE DEF S, drops
      <3> QED BY <3>1, <1>1, <1>2
    <2>3. CASE EnqueueProgress(r)
      <3>1. /\ nrows' = nrows + 1 /\ nrows + 1 \in RowIds /\ nrows \in Nat
            /\ outbox' = [outbox EXCEPT ![nrows + 1] = Posted(r, "progress", 0)]
        BY <2>3, FreeRows, OutboxAssumption DEF EnqueueProgress, RowIds
      <3>2. \A d \in RowIds :
              IF d \in nrows + 1 .. nrows + 1
              THEN outbox'[d].run = r /\ outbox'[d].status = "pending"
              ELSE outbox'[d] = outbox[d]
        BY <3>1, PostedRow DEF IInv, TypeOK, RowIds
      <3> QED BY <3>1, <3>2, PostStep
    <2>4. ASSUME NEW n \in 1..MaxSegments, NEW delay \in Delays, NEW failure \in BOOLEAN,
                 EnqueueTerminal(r, n, delay, failure)
          PROVE  [Feed!Next]_(Feed!vars)
      <3>1. n \in Nat /\ nrows' = nrows + n
        BY <2>4, OutboxAssumption DEF EnqueueTerminal
      <3>2. ASSUME NEW d \in RowIds
            PROVE  IF d \in nrows + 1 .. nrows + n
                   THEN outbox'[d].run = r /\ outbox'[d].status = "pending"
                   ELSE /\ outbox'[d].run = outbox[d].run
                        /\ \/ outbox'[d].status = outbox[d].status
                           \/ Open(outbox[d]) /\ outbox'[d].status = "cancelled"
        <4>1. outbox[d] \in Delivery
          BY DEF IInv, TypeOK
        <4>2. CASE d \in nrows + 1 .. nrows + n
          <5>1. delay + (d - nrows - 1) \in Nat
            BY <4>2, FreeRows, OutboxAssumption
          <5>2. outbox'[d] = Posted(r, "terminal", delay + (d - nrows - 1))
            BY <2>4, <4>2 DEF EnqueueTerminal
          <5> QED BY <4>2, <5>1, <5>2, PostedRow
        <4>3. CASE d \notin nrows + 1 .. nrows + n
          <5>1. outbox'[d] = IF /\ outbox[d].run = r /\ outbox[d].phase = "progress"
                                /\ outbox[d].status = "pending"
                             THEN Cancelled(outbox[d]) ELSE outbox[d]
            BY <2>4, <4>3 DEF EnqueueTerminal
          <5> QED BY <4>1, <4>3, <5>1, CancelledRow DEF Open
        <4> QED BY <4>2, <4>3
      <3> QED BY <3>1, <3>2, PostStep
    <2>5. ASSUME NEW state \in {"failed", "cancelled"}, FinishWithoutDelivery(r, state)
          PROVE  [Feed!Next]_(Feed!vars)
      <3> DEFINE S == {d \in RowIds : outbox[d].run = r /\ outbox[d].status = "pending"}
      <3>1. /\ S \in SUBSET RowIds /\ \A d \in S : Open(outbox[d])
            /\ outbox' = CancelRows(S) /\ nrows' = nrows
        BY <2>5 DEF FinishWithoutDelivery, Open
      <3> HIDE DEF S, drops
      <3> QED BY <3>1, <1>1, <1>2
    <2>6. CASE CancelRun(r)
      <3> DEFINE S == {d \in RowIds : outbox[d].run = r /\ Open(outbox[d])}
      <3>1. /\ S \in SUBSET RowIds /\ \A d \in S : Open(outbox[d])
            /\ outbox' = CancelRows(S) /\ nrows' = nrows
        BY <2>6 DEF CancelRun
      <3> HIDE DEF S, drops
      <3> QED BY <3>1, <1>1, <1>2
    <2>7. CASE RetryTask(r)
      <3>1. nrows' = nrows
        BY <2>7 DEF RetryTask
      <3>2. drops
        <4> TAKE d \in RowIds
        <4>1. /\ outbox[d].status \in Statuses /\ outbox'[d].run = outbox[d].run
              /\ Deletes(r, d) => outbox'[d].status = "deleted"
              /\ ~ Deletes(r, d) => outbox'[d].status = outbox[d].status
              /\ Deletes(r, d) => outbox[d].status \notin {"none", "delivered", "deleted"}
          BY <2>7, RetriedRows DEF RowsKeptOrDropped, IInv, TypeOK, Delivery, Deletes, NoRow,
             NoRun, Runs
        <4> QED BY <4>1 DEF Statuses, Open
      <3> HIDE DEF drops
      <3> QED BY <3>1, <3>2, <1>1
    <2> QED BY <1>4, <2>1, <2>2, <2>3, <2>4, <2>5, <2>6, <2>7
            DEF RunStep, AcceptChat, AcceptNewTask, AcceptFollowUp, CoalesceRun, ClaimRun,
                RestoreFails, AbandonRun, AdoptTask, RestoreInput, Retire
  <1>5. ASSUME NEW d \in RowIds, NEW receipt \in Receipts, Ack(d, receipt)
        PROVE  [Feed!Next]_(Feed!vars)
    BY <1>5, AckShows
  <1>6. ASSUME NEW d \in RowIds, NEW receipt \in Receipts, NEW retryable \in BOOLEAN,
               Fail(d, receipt, retryable)
        PROVE  [Feed!Next]_(Feed!vars)
    <2>1. /\ outbox[d] \in Delivery /\ outbox[d].attempts > 0 /\ nrows' = nrows
          /\ outbox[d].status = "sending"
      BY <1>6, MatchedRow DEF Fail
    <2>2. \/ outbox' = [outbox EXCEPT ![d] = Requeued(outbox[d])]
          \/ outbox' = [outbox EXCEPT ![d] = Settled(outbox[d], "failed")]
      BY <1>6 DEF Fail
    <2>3. drops
      BY <2>1, <2>2, RequeuedRow, SettledRow DEF IInv, TypeOK, Open
    <2> HIDE DEF drops
    <2> QED BY <2>1, <2>3, <1>1
  <1>7. ASSUME NEW c \in Consumers, NEW n \in 1..MaxBatch, Lease(c, n)
        PROVE  [Feed!Next]_(Feed!vars)
    <2>1. drops /\ nrows' = nrows
      BY <1>7, LeaseDrops DEF Lease
    <2> HIDE DEF drops
    <2> QED BY <2>1, <1>1
  <1>8. CASE Tick
    <2>1. drops /\ nrows' = nrows
      BY <1>8, AgedRow DEF Tick, IInv, TypeOK
    <2> HIDE DEF drops
    <2> QED BY <2>1, <1>1
  <1>9. CASE Restart
    BY <1>9, <1>1, <1>3 DEF Restart
  <1>10. CASE UNCHANGED vars
    BY <1>10, <1>1, <1>3 DEF vars
  <1> QED BY <1>4, <1>5, <1>6, <1>7, <1>8, <1>9, <1>10 DEF Next, RowStep

\* The members of a conversation see its messages in order, each at most once,
\* whatever the runtime does with leases, retries, cancels and restarts.
THEOREM OutboxImplementsFeed == Spec => FeedSpec
  <1>1. IInv /\ IInv' /\ [Next]_vars => [Feed!Next]_(Feed!vars)
    BY FeedStep
  <1> QED BY <1>1, FeedInit, OutboxInvariant, PTL DEF Spec, FeedSpec, Feed!Spec
=============================================================================
