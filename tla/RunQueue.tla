------------------------------ MODULE RunQueue ------------------------------
(***************************************************************************)
(* The queue of runs and its lanes (runtime.go): workers look for the      *)
(* oldest queued run of a conversation nobody is generating in, claim it   *)
(* with a second statement, and generate.  A run that announced progress   *)
(* gives its lane up at once, a running row that was not written for ten   *)
(* minutes loses it.  Runs have the numbers of their created_at, which is  *)
(* read before the row is inserted: rows come in any order.                *)
(***************************************************************************)
EXTENDS Integers, FiniteSets

CONSTANTS
  NumRuns,
  Conversations,
  ConvOf,     \* run -> its conversation, on an instance of a transport
  Workers,    \* the worker goroutines
  MaxFaults   \* bound: retries, cancellations, restarts and failing writes

QueuedRuns == 1..NumRuns
NoQueuedRun == 0

ASSUME QueueAssumption ==
  /\ NumRuns \in Nat /\ MaxFaults \in Nat
  /\ ConvOf \in [QueuedRuns -> Conversations]

RowStates == {"absent", "queued", "running", "failed", "over"}

QueueRow == [state : RowStates, announced : BOOLEAN, silent : BOOLEAN]

Hand == [phase : {"looked", "claimed", "working", "stopped"}, run : QueuedRuns]
Idle == [phase |-> "idle", run |-> NoQueuedRun]

VARIABLES
  queue,    \* agent_runs: the state, whether a progress row that is not cancelled
            \* exists, and whether updated_at is ten minutes old; failed rows have
            \* their input, the rows whose input is gone are over
  hands,    \* what each worker holds, and whether its context is still alive
  faults,   \* bound
  overtook  \* history: runs queued while a worker had looked, and not yet claimed

queueVars == <<queue, hands, faults, overtook>>

Absent == [state |-> "absent", announced |-> FALSE, silent |-> FALSE]

QueueInit ==
  /\ queue = [r \in QueuedRuns |-> Absent]
  /\ hands = [w \in Workers |-> Idle]
  /\ faults = 0
  /\ overtook = {}

QueueTypeOK ==
  /\ queue \in [QueuedRuns -> QueueRow]
  /\ hands \in [Workers -> Hand \cup {Idle}]
  /\ faults \in 0..MaxFaults
  /\ overtook \subseteq QueuedRuns

Siblings(r) == {s \in QueuedRuns \ {r} : ConvOf[s] = ConvOf[r]}

-----------------------------------------------------------------------------
(* How rows come into the queue and leave it without a worker.             *)

\* The row is queued: a worker that looked before did not see it.
Queued(r) ==
  /\ queue' = [queue EXCEPT ![r].state = "queued"]
  /\ overtook' = IF \E w \in Workers : /\ hands[w].phase = "looked"
                                       /\ hands[w].run \in Siblings(r) \cup {r}
                 THEN overtook \cup {r} ELSE overtook \ {r}

EnqueueRun(r) ==
  /\ queue[r].state = "absent"
  /\ Queued(r)
  /\ UNCHANGED <<hands, faults>>

\* retryTask: the progress rows of the earlier attempt stay.
Retry(r) ==
  /\ queue[r].state = "failed" /\ faults < MaxFaults
  /\ faults' = faults + 1
  /\ Queued(r)
  /\ UNCHANGED hands

Over(row) == [row EXCEPT !.state = "over", !.announced = FALSE, !.silent = FALSE]
Failed(row) == [row EXCEPT !.state = "failed", !.silent = FALSE]

\* cancelRun, a newer revision or a burst: the context of a run is cancelled
\* only when its worker has registered it.
Cancel(r) ==
  /\ queue[r].state \in {"queued", "running"} /\ faults < MaxFaults
  /\ faults' = faults + 1
  /\ queue' = [queue EXCEPT ![r] = Over(@)]
  /\ hands' = [w \in Workers |-> IF hands[w] = [phase |-> "working", run |-> r]
                                 THEN [hands[w] EXCEPT !.phase = "stopped"] ELSE hands[w]]
  /\ UNCHANGED overtook

-----------------------------------------------------------------------------
(* processNext.                                                            *)

HoldsLaneForever(r) == queue[r].state = "running" /\ ~ queue[r].announced
\* What keeps the other runs of a conversation waiting.
HoldsLane(r) == /\ queue[r].state = "running"
                /\ ~ queue[r].silent
                /\ ~ queue[r].announced

FreeOfOlder(r) == \A s \in Siblings(r) : s < r => ~ HoldsLane(s)
LaneFree(r) == \A s \in Siblings(r) : ~ HoldsLane(s)

\* The SELECT: the oldest of the queued runs whose lane is free.
Look(w) ==
  /\ hands[w] = Idle
  /\ \E r \in QueuedRuns :
       /\ queue[r].state = "queued" /\ LaneFree(r)
       /\ \A s \in 1..r - 1 : ~ (queue[s].state = "queued" /\ LaneFree(s))
       /\ hands' = [hands EXCEPT ![w] = [phase |-> "looked", run |-> r]]
  /\ UNCHANGED <<queue, faults, overtook>>

\* The guarded UPDATE: somebody else may have the run by now.
TakeRun(w) ==
  LET r == hands[w].run IN
  /\ hands[w].phase = "looked"
  /\ IF queue[r].state = "queued"
     THEN /\ queue' = [queue EXCEPT ![r].state = "running", ![r].silent = FALSE]
          /\ hands' = [hands EXCEPT ![w].phase = "claimed"]
     ELSE hands' = [hands EXCEPT ![w] = Idle] /\ UNCHANGED queue
  /\ UNCHANGED <<faults, overtook>>

\* taskRunContext puts the cancel function where Cancel finds it.
Register(w) ==
  /\ hands[w].phase = "claimed"
  /\ hands' = [hands EXCEPT ![w].phase = "working"]
  /\ UNCHANGED <<queue, faults, overtook>>

\* Progress is enqueued, once, unless the run was cancelled.
AnnounceRun(w) ==
  LET r == hands[w].run IN
  /\ hands[w].phase = "working"
  /\ queue[r].state = "running" /\ ~ queue[r].announced
  /\ queue' = [queue EXCEPT ![r].announced = TRUE]
  /\ UNCHANGED <<hands, faults, overtook>>

\* The run is answered or dropped, or fails with its input kept; a progress row
\* that was not sent yet is cancelled.
Finish(w) ==
  LET r == hands[w].run IN
  /\ hands[w].phase = "working"
  /\ \E row \in {Over(queue[r]), Failed(queue[r]), Failed([queue[r] EXCEPT !.announced = FALSE])} :
       /\ queue[r].state = "running" \/ row.state = "over"
       /\ queue' = [queue EXCEPT ![r] = row]
  /\ hands' = [hands EXCEPT ![w] = Idle]
  /\ UNCHANGED <<faults, overtook>>

\* The worker leaves the row as it is: the context is cancelled.
Stop(w) ==
  /\ hands[w].phase = "stopped"
  /\ hands' = [hands EXCEPT ![w] = Idle]
  /\ UNCHANGED <<queue, faults, overtook>>

\* The write of the outcome fails: nobody works on the running row any more.
LoseOutcome(w) ==
  /\ hands[w].phase = "working" /\ faults < MaxFaults
  /\ hands' = [hands EXCEPT ![w] = Idle]
  /\ faults' = faults + 1
  /\ UNCHANGED <<queue, overtook>>

-----------------------------------------------------------------------------
\* Ten minutes pass since the running row was written.
FallSilent(r) ==
  /\ queue[r].state = "running" /\ ~ queue[r].silent
  /\ queue' = [queue EXCEPT ![r].silent = TRUE]
  /\ UNCHANGED <<hands, faults, overtook>>

\* The process stops and comes back: recoverInterruptedRuntime.
Recover ==
  /\ faults < MaxFaults
  /\ faults' = faults + 1
  /\ hands' = [w \in Workers |-> Idle]
  /\ queue' = [r \in QueuedRuns |->
       IF queue[r].state = "running"
       THEN [queue[r] EXCEPT !.state = "queued", !.silent = FALSE] ELSE queue[r]]
  /\ overtook' = {}

WorkOn(w) ==
  \/ Look(w) \/ TakeRun(w) \/ Register(w) \/ Finish(w) \/ Stop(w)

QueueNext ==
  \/ \E r \in QueuedRuns : EnqueueRun(r) \/ Retry(r) \/ Cancel(r) \/ FallSilent(r)
  \/ \E w \in Workers : WorkOn(w) \/ AnnounceRun(w) \/ LoseOutcome(w)
  \/ Recover

QueueSpec == QueueInit /\ [][QueueNext]_queueVars

\* Every worker has a ticker, its model and tool calls have timeouts, and the
\* clock goes on.
QueueFairness ==
  /\ \A w \in Workers : WF_queueVars(WorkOn(w))
  /\ WF_queueVars(\E r \in QueuedRuns : FallSilent(r))

FairQueueSpec == QueueSpec /\ QueueFairness

-----------------------------------------------------------------------------
\* A worker generates, and neither gave its lane up nor lost it.
Generates(w) ==
  /\ hands[w].phase \in {"claimed", "working"}
  /\ HoldsLane(hands[w].run)

\* processNext's comment, "One conversation runs one text generation at a
\* time", with what its two statements leave open: a run that was queued
\* between the look and the claim of another worker may be generated beside
\* the run that worker saw.
OneGeneration ==
  \A v, w \in Workers :
    v # w /\ Generates(v) /\ Generates(w) /\ ConvOf[hands[v].run] = ConvOf[hands[w].run] =>
      /\ hands[v].run # hands[w].run
      /\ {hands[v].run, hands[w].run} \cap overtook # {}

\* No queued run waits for ever, although workers lose running rows that hold
\* the lane of their conversation.
QueueDrains ==
  \A r \in QueuedRuns : queue[r].state = "queued" ~> queue[r].state # "queued"
=============================================================================
