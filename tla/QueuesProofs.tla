----------------------------- MODULE QueuesProofs -----------------------------
(***************************************************************************)
(* What waits for its turn.  The run queue: its types, and that a          *)
(* conversation runs one text generation at a time as far as the two       *)
(* statements of the claim allow.  Durable jobs: their types, the approval *)
(* gate, and that the worker never meets another execution than its own.   *)
(* Inbound messages: what may be lost between a platform and the runtime,  *)
(* for any number of messages and of failures.                             *)
(***************************************************************************)
EXTENDS RunQueue, DurableJobs, Inbound, FiniteSetTheorems, TLAPS

(* The run queue.                                                          *)

Looks(w) == hands[w].phase = "looked"
Holding(w) == hands[w].phase \in {"claimed", "working", "stopped"}

\* The row of a run in a worker's hands is running or cancelled.
HeldRows ==
  \A w \in Workers : Holding(w) => queue[hands[w].run].state \in {"running", "over"}

\* A run is in the hands of one worker.
HeldOnce ==
  \A v, w \in Workers : v # w /\ Holding(v) /\ Holding(w) => hands[v].run # hands[w].run

\* Since a worker looked, an older run of the conversation can only have come.
SawTheOldest ==
  \A w \in Workers : Looks(w) =>
    \A s \in Siblings(hands[w].run) :
      s < hands[w].run /\ queue[s].state = "queued" => s \in overtook

\* What a worker saw is beside a generation only by a run that came after.
SawTheLane ==
  \A v, w \in Workers :
    /\ Generates(v) /\ Looks(w) /\ hands[w].run \in Siblings(hands[v].run)
    /\ queue[hands[w].run].state = "queued"
    => {hands[v].run, hands[w].run} \cap overtook # {}

Lanes == HeldRows /\ HeldOnce /\ SawTheOldest /\ SawTheLane /\ OneGeneration

QueueInv == QueueTypeOK /\ Lanes

-----------------------------------------------------------------------------
(* Types.                                                                  *)

\* A worker that is not idle holds a run.
LEMMA HandsHoldRuns ==
  ASSUME QueueTypeOK, NEW w \in Workers, hands[w] # Idle
  PROVE  hands[w] \in Hand /\ hands[w].run \in QueuedRuns
  BY DEF QueueTypeOK, Hand

\* A worker in any phase but idle is not idle.
LEMMA PhasesAreHands ==
  ASSUME QueueTypeOK, NEW w \in Workers, Looks(w) \/ Holding(w) \/ Generates(w)
  PROVE  hands[w] \in Hand /\ hands[w].run \in QueuedRuns
  BY HandsHoldRuns DEF Looks, Holding, Generates, Idle

LEMMA InitInv == QueueInit => QueueInv
  <1> SUFFICES ASSUME QueueInit PROVE QueueInv
    OBVIOUS
  <1>1. Absent \in QueueRow
    BY DEF Absent, QueueRow, RowStates
  <1>2. QueueTypeOK
    BY <1>1, QueueAssumption DEF QueueInit, QueueTypeOK
  <1>3. \A w \in Workers : ~ Looks(w) /\ ~ Holding(w) /\ ~ Generates(w)
    BY DEF QueueInit, Idle, Looks, Holding, Generates
  <1>4. Lanes
    BY <1>3 DEF Lanes, HeldRows, HeldOnce, SawTheOldest, SawTheLane, OneGeneration
  <1> QED BY <1>2, <1>4 DEF QueueInv

\* Another row in the place of one keeps the type of the table.
LEMMA RowChange ==
  ASSUME QueueTypeOK, NEW r \in QueuedRuns, NEW row \in QueueRow,
         queue' = [queue EXCEPT ![r] = row]
  PROVE  queue' \in [QueuedRuns -> QueueRow]
  BY DEF QueueTypeOK

LEMMA StepTypes == QueueTypeOK /\ QueueNext => QueueTypeOK'
  <1> SUFFICES ASSUME QueueTypeOK, QueueNext PROVE QueueTypeOK'
    OBVIOUS
  <1> USE QueueAssumption
  <1>q. \A r \in QueuedRuns : queue[r] \in QueueRow
    BY DEF QueueTypeOK
  <1>r. \A r \in QueuedRuns : Queued(r) =>
          queue' \in [QueuedRuns -> QueueRow] /\ overtook' \subseteq QueuedRuns
    <2> SUFFICES ASSUME NEW r \in QueuedRuns, Queued(r)
                 PROVE  queue' \in [QueuedRuns -> QueueRow] /\ overtook' \subseteq QueuedRuns
      OBVIOUS
    <2>1. queue' = [queue EXCEPT ![r] = [queue[r] EXCEPT !.state = "queued"]]
      BY DEF Queued
    <2>2. [queue[r] EXCEPT !.state = "queued"] \in QueueRow
      BY <1>q DEF QueueRow, RowStates
    <2>3. overtook' \subseteq QueuedRuns
      BY DEF Queued, QueueTypeOK
    <2> QED BY <2>1, <2>2, <2>3, RowChange
  <1>1. ASSUME NEW r \in QueuedRuns, EnqueueRun(r) PROVE QueueTypeOK'
    BY <1>1, <1>r DEF EnqueueRun, QueueTypeOK
  <1>2. ASSUME NEW r \in QueuedRuns, Retry(r) PROVE QueueTypeOK'
    BY <1>2, <1>r DEF Retry, QueueTypeOK
  <1>3. ASSUME NEW r \in QueuedRuns, Cancel(r) PROVE QueueTypeOK'
    <2>1. Over(queue[r]) \in QueueRow
      BY <1>q DEF Over, QueueRow, RowStates
    <2>2. queue' \in [QueuedRuns -> QueueRow]
      BY <2>1, <1>3, RowChange DEF Cancel
    <2>3. \A w \in Workers : hands'[w] \in Hand \cup {Idle}
      <3> SUFFICES ASSUME NEW w \in Workers PROVE hands'[w] \in Hand \cup {Idle}
        OBVIOUS
      <3>1. CASE hands[w] = [phase |-> "working", run |-> r]
        <4>1. hands'[w] = [phase |-> "stopped", run |-> r]
          BY <1>3, <3>1 DEF Cancel
        <4> QED BY <4>1 DEF Hand
      <3>2. CASE hands[w] # [phase |-> "working", run |-> r]
        BY <1>3, <3>2 DEF Cancel, QueueTypeOK
      <3> QED BY <3>1, <3>2
    <2>4. hands' \in [Workers -> Hand \cup {Idle}]
      BY <2>3, <1>3 DEF Cancel
    <2> QED BY <2>2, <2>4, <1>3 DEF Cancel, QueueTypeOK
  <1>4. ASSUME NEW r \in QueuedRuns, FallSilent(r) PROVE QueueTypeOK'
    <2>1. [queue[r] EXCEPT !.silent = TRUE] \in QueueRow
      BY <1>q DEF QueueRow
    <2> QED BY <2>1, <1>4, RowChange DEF FallSilent, QueueTypeOK
  <1>5. ASSUME NEW w \in Workers, Look(w) PROVE QueueTypeOK'
    <2>1. PICK r \in QueuedRuns : hands' = [hands EXCEPT ![w] = [phase |-> "looked", run |-> r]]
      BY <1>5 DEF Look
    <2>2. [phase |-> "looked", run |-> r] \in Hand
      BY DEF Hand
    <2> QED BY <2>1, <2>2, <1>5 DEF Look, QueueTypeOK
  <1>6. ASSUME NEW w \in Workers, TakeRun(w) PROVE QueueTypeOK'
    <2>1. hands[w] \in Hand /\ hands[w].run \in QueuedRuns
      BY <1>6, PhasesAreHands DEF TakeRun, Looks
    <2>2. [hands[w] EXCEPT !.phase = "claimed"] \in Hand
      BY <2>1 DEF Hand
    <2>3. [queue[hands[w].run] EXCEPT !.state = "running", !.silent = FALSE] \in QueueRow
      BY <2>1, <1>q DEF QueueRow, RowStates
    <2>4. CASE queue[hands[w].run].state = "queued"
      <3>1. queue' = [queue EXCEPT ![hands[w].run] =
                        [queue[hands[w].run] EXCEPT !.state = "running", !.silent = FALSE]]
        BY <1>6, <2>1, <2>4 DEF TakeRun, QueueTypeOK
      <3>2. hands' = [hands EXCEPT ![w] = [hands[w] EXCEPT !.phase = "claimed"]]
        BY <1>6, <2>4 DEF TakeRun
      <3> QED BY <3>1, <3>2, <2>1, <2>2, <2>3, <1>6, RowChange DEF TakeRun, QueueTypeOK
    <2>5. CASE queue[hands[w].run].state # "queued"
      BY <2>5, <1>6 DEF TakeRun, QueueTypeOK
    <2> QED BY <2>4, <2>5
  <1>7. ASSUME NEW w \in Workers, Register(w) PROVE QueueTypeOK'
    <2>1. hands[w] \in Hand
      BY <1>7, PhasesAreHands DEF Register, Holding
    <2>2. [hands[w] EXCEPT !.phase = "working"] \in Hand
      BY <2>1 DEF Hand
    <2> QED BY <2>2, <1>7 DEF Register, QueueTypeOK
  <1>8. ASSUME NEW w \in Workers, AnnounceRun(w) PROVE QueueTypeOK'
    <2>1. hands[w].run \in QueuedRuns
      BY <1>8, PhasesAreHands DEF AnnounceRun, Holding
    <2>2. [queue[hands[w].run] EXCEPT !.announced = TRUE] \in QueueRow
      BY <2>1, <1>q DEF QueueRow
    <2>3. queue' \in [QueuedRuns -> QueueRow]
      BY <2>1, <2>2, <1>8, RowChange DEF AnnounceRun
    <2> QED BY <2>3, <1>8 DEF AnnounceRun, QueueTypeOK
  <1>9. ASSUME NEW w \in Workers, Finish(w) PROVE QueueTypeOK'
    <2>1. hands[w].run \in QueuedRuns
      BY <1>9, PhasesAreHands DEF Finish, Holding
    <2>2. /\ Over(queue[hands[w].run]) \in QueueRow
          /\ Failed(queue[hands[w].run]) \in QueueRow
          /\ Failed([queue[hands[w].run] EXCEPT !.announced = FALSE]) \in QueueRow
      BY <2>1, <1>q DEF Over, Failed, QueueRow, RowStates
    <2>3. PICK row \in QueueRow : queue' = [queue EXCEPT ![hands[w].run] = row]
      BY <2>2, <1>9 DEF Finish
    <2>4. queue' \in [QueuedRuns -> QueueRow]
      BY <2>1, <2>3, RowChange
    <2> QED BY <2>4, <1>9 DEF Finish, QueueTypeOK
  <1>10. ASSUME NEW w \in Workers, Stop(w) PROVE QueueTypeOK'
    BY <1>10 DEF Stop, QueueTypeOK
  <1>11. ASSUME NEW w \in Workers, LoseOutcome(w) PROVE QueueTypeOK'
    BY <1>11 DEF LoseOutcome, QueueTypeOK
  <1>12. ASSUME Recover PROVE QueueTypeOK'
    <2>1. \A r \in QueuedRuns : [queue[r] EXCEPT !.state = "queued", !.silent = FALSE] \in QueueRow
      BY <1>q DEF QueueRow, RowStates
    <2>2. queue' \in [QueuedRuns -> QueueRow]
      BY <2>1, <1>12, <1>q DEF Recover
    <2>3. hands' = [w \in Workers |-> Idle] /\ faults' = faults + 1 /\ faults < MaxFaults
          /\ overtook' = {}
      BY <1>12 DEF Recover
    <2> QED BY <2>2, <2>3 DEF QueueTypeOK
  <1> QED BY <1>1, <1>2, <1>3, <1>4, <1>5, <1>6, <1>7, <1>8, <1>9, <1>10, <1>11, <1>12
          DEF QueueNext, WorkOn
-----------------------------------------------------------------------------
(* Lanes.                                                                  *)

\* A step that queues nothing, lets no worker look or take a run, and gives no
\* lane back keeps the lanes.
LEMMA LanesAreQuiet ==
  ASSUME QueueInv, UNCHANGED overtook,
         \A w \in Workers : Looks(w)' => Looks(w) /\ hands'[w].run = hands[w].run,
         \A w \in Workers : Holding(w)' => Holding(w) /\ hands'[w].run = hands[w].run,
         \A w \in Workers : hands'[w].phase \in {"claimed", "working"} =>
                              hands[w].phase \in {"claimed", "working"},
         \A r \in QueuedRuns : queue'[r].state = "queued" => queue[r].state = "queued",
         \A r \in QueuedRuns : HoldsLane(r)' => HoldsLane(r),
         \A w \in Workers : Holding(w)' => queue'[hands'[w].run].state \in {"running", "over"}
  PROVE  Lanes'
  <1>1. \A w \in Workers : Looks(w) \/ Holding(w) => hands[w].run \in QueuedRuns
    BY PhasesAreHands DEF QueueInv
  <1>2. \A w \in Workers : Generates(w)' => Generates(w) /\ hands'[w].run = hands[w].run
    BY <1>1 DEF Generates, Holding
  <1>3. HeldRows'
    BY DEF HeldRows
  <1>4. HeldOnce'
    BY DEF HeldOnce, QueueInv, Lanes
  <1>5. SawTheOldest'
    BY DEF SawTheOldest, QueueInv, Lanes, Siblings
  <1>6. SawTheLane'
    <2> SUFFICES ASSUME NEW v \in Workers, NEW w \in Workers, Generates(v)', Looks(w)',
                        (hands[w].run \in Siblings(hands[v].run))',
                        queue'[hands'[w].run].state = "queued"
                 PROVE  {hands'[v].run, hands'[w].run} \cap overtook' # {}
      BY DEF SawTheLane
    <2>1. /\ Generates(v) /\ hands'[v].run = hands[v].run
          /\ Looks(w) /\ hands'[w].run = hands[w].run
      BY <1>2
    <2>2. queue[hands[w].run].state = "queued"
      BY <2>1, <1>1
    <2>3. hands[w].run \in Siblings(hands[v].run)
      BY <2>1 DEF Siblings
    <2> QED BY <2>1, <2>2, <2>3 DEF SawTheLane, QueueInv, Lanes
  <1>7. OneGeneration'
    BY <1>2 DEF OneGeneration, QueueInv, Lanes
  <1> QED BY <1>3, <1>4, <1>5, <1>6, <1>7 DEF Lanes

\* A row that is queued is marked when somebody looked past it.
LEMMA QueuedStep ==
  ASSUME QueueInv, NEW r \in QueuedRuns, Queued(r), UNCHANGED hands,
         queue[r].state \in {"absent", "failed"}
  PROVE  Lanes'
  <1>t. QueueTypeOK
    BY DEF QueueInv
  <1>1. /\ \A s \in QueuedRuns \ {r} : queue'[s] = queue[s]
        /\ queue'[r].state = "queued"
    BY <1>t DEF Queued, QueueTypeOK, QueueRow
  <1>2. \A w \in Workers : Looks(w) \/ Holding(w) \/ Generates(w) => hands[w].run \in QueuedRuns
    BY <1>t, PhasesAreHands
  <1>3. \A w \in Workers : Holding(w) => hands[w].run # r
    BY DEF QueueInv, Lanes, HeldRows
  <1>4. \A w \in Workers : /\ Looks(w)' <=> Looks(w)
                           /\ Holding(w)' <=> Holding(w)
    BY DEF Looks, Holding
  <1>5. \A w \in Workers : Generates(w)' => Generates(w) /\ hands[w].run # r
    BY <1>1, <1>2, <1>3 DEF Generates, Holding, HoldsLane
  <1>6. /\ overtook \ {r} \subseteq overtook'
        /\ \A w \in Workers : Looks(w) /\ hands[w].run \in Siblings(r) \cup {r} => r \in overtook'
    BY DEF Queued, Looks
  <1>7. HeldRows'
    BY <1>1, <1>2, <1>3, <1>4 DEF HeldRows, QueueInv, Lanes
  <1>8. HeldOnce'
    BY <1>4 DEF HeldOnce, QueueInv, Lanes
  <1>9. SawTheOldest'
    <2> SUFFICES ASSUME NEW w \in Workers, Looks(w), NEW s \in Siblings(hands[w].run),
                        s < hands[w].run, queue'[s].state = "queued"
                 PROVE  s \in overtook'
      BY <1>4 DEF SawTheOldest, Siblings
    <2>1. CASE s = r
      <3>1. hands[w].run \in Siblings(r)
        BY <2>1, <1>2 DEF Siblings
      <3> QED BY <3>1, <2>1, <1>6
    <2>2. CASE s # r
      <3>1. queue[s].state = "queued"
        BY <2>2, <1>1 DEF Siblings
      <3>2. s \in overtook
        BY <3>1 DEF SawTheOldest, QueueInv, Lanes
      <3> QED BY <3>2, <2>2, <1>6
    <2> QED BY <2>1, <2>2
  <1>10. SawTheLane'
    <2> SUFFICES ASSUME NEW v \in Workers, NEW w \in Workers, Generates(v)', Looks(w)',
                        (hands[w].run \in Siblings(hands[v].run))',
                        queue'[hands[w].run].state = "queued"
                 PROVE  {hands[v].run, hands[w].run} \cap overtook' # {}
      BY DEF SawTheLane
    <2>1. Generates(v) /\ hands[v].run # r /\ Looks(w) /\ hands[w].run \in Siblings(hands[v].run)
      BY <1>4, <1>5 DEF Siblings
    <2>2. CASE hands[w].run = r
      BY <2>1, <2>2, <1>6
    <2>3. CASE hands[w].run # r
      <3>1. queue[hands[w].run].state = "queued"
        BY <2>1, <2>3, <1>1, <1>2
      <3>2. {hands[v].run, hands[w].run} \cap overtook # {}
        BY <2>1, <3>1 DEF SawTheLane, QueueInv, Lanes
      <3> QED BY <3>2, <2>1, <2>3, <1>6
    <2> QED BY <2>2, <2>3
  <1>11. OneGeneration'
    <2> SUFFICES ASSUME NEW v \in Workers, NEW w \in Workers, v # w, Generates(v)', Generates(w)',
                        ConvOf[hands[v].run] = ConvOf[hands[w].run]
                 PROVE  /\ hands[v].run # hands[w].run
                        /\ {hands[v].run, hands[w].run} \cap overtook' # {}
      BY DEF OneGeneration
    <2>1. Generates(v) /\ hands[v].run # r /\ Generates(w) /\ hands[w].run # r
      BY <1>5
    <2>2. /\ hands[v].run # hands[w].run
          /\ {hands[v].run, hands[w].run} \cap overtook # {}
      BY <2>1 DEF OneGeneration, QueueInv, Lanes
    <2> QED BY <2>1, <2>2, <1>6
  <1> QED BY <1>7, <1>8, <1>9, <1>10, <1>11 DEF Lanes

\* The oldest of the runs that could be taken is looked at.
LEMMA LookStep ==
  ASSUME QueueInv, NEW w \in Workers, Look(w)
  PROVE  Lanes'
  <1>t. QueueTypeOK
    BY DEF QueueInv
  <1>0. PICK r \in QueuedRuns :
          /\ queue[r].state = "queued" /\ LaneFree(r)
          /\ \A s \in 1..r - 1 : ~ (queue[s].state = "queued" /\ LaneFree(s))
          /\ hands' = [hands EXCEPT ![w] = [phase |-> "looked", run |-> r]]
    BY DEF Look
  <1>1. /\ hands'[w] = [phase |-> "looked", run |-> r]
        /\ \A v \in Workers \ {w} : hands'[v] = hands[v]
        /\ UNCHANGED <<queue, overtook>>
    BY <1>0, <1>t DEF Look, QueueTypeOK
  <1>2. \A v \in Workers : /\ Holding(v)' => v # w /\ Holding(v)
                           /\ Generates(v)' => v # w /\ Generates(v)
                           /\ Looks(v)' => v = w \/ Looks(v)
    BY <1>1 DEF Holding, Generates, Looks, HoldsLane
  <1>3. HeldRows' /\ HeldOnce'
    BY <1>1, <1>2 DEF HeldRows, HeldOnce, QueueInv, Lanes
  <1>4. SawTheOldest'
    <2> SUFFICES ASSUME NEW v \in Workers, Looks(v)', NEW s \in Siblings(hands'[v].run),
                        s < hands'[v].run, queue[s].state = "queued"
                 PROVE  s \in overtook
      BY <1>1 DEF SawTheOldest, Siblings
    <2>1. CASE v = w
      <3>1. s \in QueuedRuns /\ s # r /\ s < r /\ ConvOf[s] = ConvOf[r]
        BY <2>1, <1>1 DEF Siblings
      <3>2. LaneFree(s)
        <4> SUFFICES ASSUME NEW u \in Siblings(s) PROVE ~ HoldsLane(u)
          BY DEF LaneFree
        <4>1. CASE u = r
          BY <4>1, <1>0 DEF HoldsLane
        <4>2. CASE u # r
          BY <4>2, <3>1, <1>0 DEF LaneFree, Siblings
        <4> QED BY <4>1, <4>2
      <3>3. s \in 1..r - 1
        BY <3>1, QueueAssumption DEF QueuedRuns
      <3> QED BY <3>2, <3>3, <1>0
    <2>2. CASE v # w
      BY <2>2, <1>1, <1>2 DEF SawTheOldest, QueueInv, Lanes
    <2> QED BY <2>1, <2>2
  <1>5. SawTheLane'
    <2> SUFFICES ASSUME NEW v \in Workers, NEW u \in Workers, Generates(v)', Looks(u)',
                        (hands[u].run \in Siblings(hands[v].run))',
                        queue[hands'[u].run].state = "queued"
                 PROVE  {hands'[v].run, hands'[u].run} \cap overtook # {}
      BY <1>1 DEF SawTheLane
    <2>1. /\ v # w /\ Generates(v) /\ hands'[v].run = hands[v].run
          /\ hands'[u].run \in Siblings(hands[v].run)
      BY <1>1, <1>2 DEF Siblings
    <2>2. hands[v].run \in QueuedRuns
      BY <2>1, <1>t, PhasesAreHands
    <2>3. CASE u = w
      <3>1. hands[v].run \in Siblings(r)
        BY <2>1, <2>2, <2>3, <1>1 DEF Siblings
      <3>2. HoldsLane(hands[v].run)
        BY <2>1 DEF Generates
      <3> QED BY <3>1, <3>2, <1>0 DEF LaneFree
    <2>4. CASE u # w
      BY <2>1, <2>4, <1>1, <1>2 DEF SawTheLane, QueueInv, Lanes
    <2> QED BY <2>3, <2>4
  <1>6. OneGeneration'
    BY <1>1, <1>2 DEF OneGeneration, QueueInv, Lanes
  <1> QED BY <1>3, <1>4, <1>5, <1>6 DEF Lanes

\* A run is taken that nobody generates beside, unless it came after the look.
LEMMA TakeStep ==
  ASSUME QueueInv, NEW w \in Workers, TakeRun(w), queue[hands[w].run].state = "queued"
  PROVE  Lanes'
  <1> DEFINE r == hands[w].run
  <1>t. QueueTypeOK
    BY DEF QueueInv
  <1>0. Looks(w) /\ r \in QueuedRuns
    BY <1>t, PhasesAreHands DEF TakeRun, Looks
  <1>1. /\ hands'[w].phase = "claimed" /\ hands'[w].run = r
        /\ \A v \in Workers \ {w} : hands'[v] = hands[v]
        /\ queue'[r].state = "running"
        /\ \A s \in QueuedRuns \ {r} : queue'[s] = queue[s]
        /\ UNCHANGED overtook
    <2>1. hands[w] \in Hand
      BY <1>0, <1>t, PhasesAreHands
    <2>2. /\ hands' = [hands EXCEPT ![w].phase = "claimed"]
          /\ queue' = [queue EXCEPT ![r].state = "running", ![r].silent = FALSE]
          /\ UNCHANGED overtook
      BY DEF TakeRun
    <2>3. queue[r] \in QueueRow
      BY <1>0, <1>t DEF QueueTypeOK
    <2> QED BY <1>0, <1>t, <2>1, <2>2, <2>3 DEF QueueTypeOK, Hand, QueueRow
  <1>2. \A v \in Workers : Looks(v) \/ Holding(v) \/ Generates(v) => hands[v].run \in QueuedRuns
    BY <1>t, PhasesAreHands
  <1>3. \A v \in Workers : Holding(v) => hands[v].run # r
    BY DEF QueueInv, Lanes, HeldRows
  <1>4. \A v \in Workers \ {w} :
          /\ Looks(v)' => Looks(v)
          /\ Holding(v)' => Holding(v)
          /\ Generates(v)' => Generates(v) /\ hands[v].run # r
    BY <1>1, <1>2, <1>3 DEF Looks, Holding, Generates, HoldsLane
  <1>5. ~ Looks(w)'
    BY <1>1 DEF Looks
  <1>6. HeldRows'
    BY <1>1, <1>2, <1>3, <1>4 DEF HeldRows, QueueInv, Lanes
  <1>7. HeldOnce'
    BY <1>1, <1>3, <1>4 DEF HeldOnce, QueueInv, Lanes
  <1>8. SawTheOldest'
    BY <1>0, <1>1, <1>4, <1>5 DEF SawTheOldest, Siblings, QueueInv, Lanes
  <1>9. SawTheLane'
    <2> SUFFICES ASSUME NEW v \in Workers, NEW u \in Workers, Generates(v)', Looks(u)',
                        (hands[u].run \in Siblings(hands[v].run))',
                        queue'[hands'[u].run].state = "queued"
                 PROVE  {hands'[v].run, hands'[u].run} \cap overtook # {}
      BY <1>1 DEF SawTheLane
    <2>1. u # w /\ Looks(u) /\ hands'[u].run = hands[u].run
      BY <1>1, <1>4, <1>5
    <2>2. hands[u].run # r /\ queue[hands[u].run].state = "queued"
      BY <2>1, <1>1, <1>2
    <2>3. CASE v = w
      <3>1. hands[u].run \in Siblings(r) /\ r \in Siblings(hands[u].run)
        BY <2>1, <2>3, <1>0, <1>1 DEF Siblings
      <3>2. CASE hands[u].run < r
        BY <3>1, <3>2, <2>1, <2>2, <2>3, <1>0, <1>1 DEF SawTheOldest, QueueInv, Lanes
      <3>3. CASE r < hands[u].run
        BY <3>1, <3>3, <2>1, <2>3, <1>1 DEF SawTheOldest, QueueInv, Lanes
      <3>4. hands[u].run < r \/ r < hands[u].run
        BY <2>1, <2>2, <1>0, <1>2, QueueAssumption DEF QueuedRuns
      <3> QED BY <3>2, <3>3, <3>4
    <2>4. CASE v # w
      <3>1. Generates(v) /\ hands'[v].run = hands[v].run /\ hands[u].run \in Siblings(hands[v].run)
        BY <2>1, <2>4, <1>1, <1>4 DEF Siblings
      <3>2. {hands[v].run, hands[u].run} \cap overtook # {}
        BY <3>1, <2>1, <2>2 DEF SawTheLane, QueueInv, Lanes
      <3> QED BY <3>1, <3>2, <2>1
    <2> QED BY <2>3, <2>4
  <1>b. ASSUME NEW v \in Workers \ {w}, Generates(v)', ConvOf[hands[v].run] = ConvOf[r]
        PROVE  hands[v].run # r /\ {hands[v].run, r} \cap overtook # {}
    <2>1. Generates(v) /\ hands[v].run # r /\ hands[v].run \in QueuedRuns
      BY <1>b, <1>2, <1>4
    <2>2. r \in Siblings(hands[v].run)
      BY <2>1, <1>b, <1>0 DEF Siblings
    <2> QED BY <2>1, <2>2, <1>0 DEF SawTheLane, QueueInv, Lanes
  <1>10. OneGeneration'
    <2> SUFFICES ASSUME NEW v \in Workers, NEW u \in Workers, v # u, Generates(v)', Generates(u)',
                        ConvOf[hands'[v].run] = ConvOf[hands'[u].run]
                 PROVE  /\ hands'[v].run # hands'[u].run
                        /\ {hands'[v].run, hands'[u].run} \cap overtook # {}
      BY <1>1 DEF OneGeneration
    <2>1. CASE v = w
      BY <2>1, <1>1, <1>b
    <2>2. CASE u = w
      BY <2>2, <1>1, <1>b
    <2>3. CASE v # w /\ u # w
      BY <2>3, <1>1, <1>4 DEF OneGeneration, QueueInv, Lanes
    <2> QED BY <2>1, <2>2, <2>3
  <1> QED BY <1>6, <1>7, <1>8, <1>9, <1>10 DEF Lanes

-----------------------------------------------------------------------------
(* Every step.                                                             *)

\* A worker's hand after one that only this worker changed.
LEMMA OneHand ==
  ASSUME QueueTypeOK, NEW w \in Workers, NEW hand, hands' = [hands EXCEPT ![w] = hand]
  PROVE  hands'[w] = hand /\ \A v \in Workers \ {w} : hands'[v] = hands[v]
  BY DEF QueueTypeOK

\* A worker that puts its run down, with the row closed or as it is, leaves
\* the lanes as they are.
LEMMA PutDownStep ==
  ASSUME QueueInv, NEW w \in Workers, hands' = [hands EXCEPT ![w] = Idle], UNCHANGED overtook,
         \/ UNCHANGED queue
         \/ /\ Holding(w)
            /\ \A s \in QueuedRuns \ {hands[w].run} : queue'[s] = queue[s]
            /\ queue'[hands[w].run].state \in {"over", "failed"}
  PROVE  Lanes'
  <1>t. QueueTypeOK
    BY DEF QueueInv
  <1>1. hands'[w] = Idle /\ \A v \in Workers \ {w} : hands'[v] = hands[v]
    BY <1>t, OneHand
  <1>2. \A v \in Workers : Looks(v) \/ Holding(v) => hands[v].run \in QueuedRuns
    BY <1>t, PhasesAreHands
  <1>3. ~ Looks(w)' /\ ~ Holding(w)' /\ hands'[w].phase \notin {"claimed", "working"}
    BY <1>1 DEF Looks, Holding, Idle
  <1>4. \A r \in QueuedRuns : queue'[r] = queue[r] \/ queue'[r].state \in {"over", "failed"}
    OBVIOUS
  <1>5. \A v \in Workers : Holding(v)' => queue'[hands'[v].run].state \in {"running", "over"}
    <2> SUFFICES ASSUME NEW v \in Workers, Holding(v)'
                 PROVE  queue'[hands'[v].run].state \in {"running", "over"}
      OBVIOUS
    <2>1. v # w /\ hands'[v] = hands[v] /\ Holding(v)
      BY <1>1, <1>3 DEF Holding
    <2>2. queue[hands[v].run].state \in {"running", "over"}
      BY <2>1 DEF HeldRows, QueueInv, Lanes
    <2>3. Holding(w) => hands[v].run # hands[w].run
      BY <2>1 DEF HeldOnce, QueueInv, Lanes
    <2> QED BY <2>1, <2>2, <2>3, <1>2
  <1>6. \A v \in Workers : /\ Looks(v)' => Looks(v) /\ hands'[v].run = hands[v].run
                           /\ Holding(v)' => Holding(v) /\ hands'[v].run = hands[v].run
                           /\ hands'[v].phase \in {"claimed", "working"} =>
                                hands[v].phase \in {"claimed", "working"}
    BY <1>1, <1>3 DEF Looks, Holding
  <1>7. \A r \in QueuedRuns : /\ queue'[r].state = "queued" => queue[r].state = "queued"
                              /\ HoldsLane(r)' => HoldsLane(r)
    BY <1>4 DEF HoldsLane
  <1> QED BY <1>5, <1>6, <1>7, LanesAreQuiet

\* A row that stays in its state, and gives its lane up or lost it, disturbs
\* nothing.
LEMMA LaneGivenUp ==
  ASSUME QueueInv, NEW r \in QueuedRuns, NEW row,
         queue' = [queue EXCEPT ![r] = row],
         row.state = queue[r].state, row.announced \/ row.silent, UNCHANGED <<hands, overtook>>
  PROVE  Lanes'
  <1>t. QueueTypeOK
    BY DEF QueueInv
  <1>1. queue'[r] = row /\ \A s \in QueuedRuns \ {r} : queue'[s] = queue[s]
    BY <1>t DEF QueueTypeOK
  <1>2. \A s \in QueuedRuns : queue'[s].state = queue[s].state
    BY <1>1
  <1>3. \A s \in QueuedRuns : HoldsLane(s)' => HoldsLane(s)
    BY <1>1 DEF HoldsLane
  <1>4. \A w \in Workers : Holding(w) => hands[w].run \in QueuedRuns
    BY <1>t, PhasesAreHands
  <1>5. \A w \in Workers : Holding(w)' => queue'[hands'[w].run].state \in {"running", "over"}
    BY <1>2, <1>4 DEF HeldRows, Holding, QueueInv, Lanes
  <1> QED BY <1>2, <1>3, <1>5, LanesAreQuiet DEF Looks, Holding

LEMMA StepLanes == QueueInv /\ QueueNext => Lanes'
  <1> SUFFICES ASSUME QueueInv, QueueNext PROVE Lanes'
    OBVIOUS
  <1>t. QueueTypeOK
    BY DEF QueueInv
  <1>1. ASSUME NEW r \in QueuedRuns, EnqueueRun(r) PROVE Lanes'
    BY <1>1, QueuedStep DEF EnqueueRun
  <1>2. ASSUME NEW r \in QueuedRuns, Retry(r) PROVE Lanes'
    BY <1>2, QueuedStep DEF Retry
  <1>3. ASSUME NEW r \in QueuedRuns, Cancel(r) PROVE Lanes'
    <2>1. /\ \A s \in QueuedRuns \ {r} : queue'[s] = queue[s]
          /\ queue'[r].state = "over"
      BY <1>3, <1>t DEF Cancel, Over, QueueTypeOK, QueueRow
    <2>2. \A w \in Workers :
            \/ hands'[w] = hands[w]
            \/ hands[w] = [phase |-> "working", run |-> r]
               /\ hands'[w] = [phase |-> "stopped", run |-> r]
      BY <1>3 DEF Cancel
    <2>3. \A w \in Workers : /\ Looks(w)' => Looks(w) /\ hands'[w].run = hands[w].run
                             /\ Holding(w)' => Holding(w) /\ hands'[w].run = hands[w].run
                             /\ hands'[w].phase \in {"claimed", "working"} =>
                                  hands[w].phase \in {"claimed", "working"}
      BY <2>2 DEF Looks, Holding
    <2>4. \A s \in QueuedRuns : /\ queue'[s].state = "queued" => queue[s].state = "queued"
                                /\ HoldsLane(s)' => HoldsLane(s)
      BY <2>1 DEF HoldsLane
    <2>5. \A w \in Workers : Holding(w)' => queue'[hands'[w].run].state \in {"running", "over"}
      BY <2>1, <2>3, <1>t, PhasesAreHands DEF HeldRows, QueueInv, Lanes
    <2> QED BY <2>3, <2>4, <2>5, <1>3, LanesAreQuiet DEF Cancel
  <1>4. ASSUME NEW r \in QueuedRuns, FallSilent(r) PROVE Lanes'
    <2>1. queue' = [queue EXCEPT ![r] = [queue[r] EXCEPT !.silent = TRUE]]
      BY <1>4 DEF FallSilent
    <2>2. /\ [queue[r] EXCEPT !.silent = TRUE].state = queue[r].state
          /\ [queue[r] EXCEPT !.silent = TRUE].silent
      BY <1>t DEF QueueTypeOK, QueueRow
    <2> QED BY <2>1, <2>2, <1>4, LaneGivenUp DEF FallSilent
  <1>5. ASSUME NEW w \in Workers, Look(w) PROVE Lanes'
    BY <1>5, LookStep
  <1>6. ASSUME NEW w \in Workers, TakeRun(w) PROVE Lanes'
    <2>1. CASE queue[hands[w].run].state = "queued"
      BY <1>6, <2>1, TakeStep
    <2>2. CASE queue[hands[w].run].state # "queued"
      BY <1>6, <2>2, PutDownStep DEF TakeRun
    <2> QED BY <2>1, <2>2
  <1>7. ASSUME NEW w \in Workers, Register(w) PROVE Lanes'
    <2>0. hands[w] \in Hand
      BY <1>7, <1>t, PhasesAreHands DEF Register, Holding
    <2>1. /\ \A v \in Workers \ {w} : hands'[v] = hands[v]
          /\ hands'[w].phase = "working" /\ hands'[w].run = hands[w].run
          /\ hands[w].phase = "claimed"
      BY <1>7, <1>t, <2>0 DEF Register, QueueTypeOK, Hand
    <2>2. \A v \in Workers : /\ Looks(v)' => Looks(v) /\ hands'[v].run = hands[v].run
                             /\ Holding(v)' => Holding(v) /\ hands'[v].run = hands[v].run
                             /\ hands'[v].phase \in {"claimed", "working"} =>
                                  hands[v].phase \in {"claimed", "working"}
      BY <2>1 DEF Looks, Holding
    <2>3. UNCHANGED <<queue, overtook>>
      BY <1>7 DEF Register
    <2>4. \A v \in Workers : Holding(v)' => queue'[hands'[v].run].state \in {"running", "over"}
      BY <2>2, <2>3 DEF HeldRows, QueueInv, Lanes
    <2>5. \A r \in QueuedRuns : HoldsLane(r)' => HoldsLane(r)
      BY <2>3 DEF HoldsLane
    <2> QED BY <2>2, <2>3, <2>4, <2>5, LanesAreQuiet
  <1>8. ASSUME NEW w \in Workers, AnnounceRun(w) PROVE Lanes'
    <2>0. hands[w].run \in QueuedRuns
      BY <1>8, <1>t, PhasesAreHands DEF AnnounceRun, Holding
    <2>1. queue' = [queue EXCEPT ![hands[w].run] = [queue[hands[w].run] EXCEPT !.announced = TRUE]]
      BY <1>8 DEF AnnounceRun
    <2>2. LET row == [queue[hands[w].run] EXCEPT !.announced = TRUE]
          IN  row.state = queue[hands[w].run].state /\ row.announced
      BY <2>0, <1>t DEF QueueTypeOK, QueueRow
    <2> QED BY <2>0, <2>1, <2>2, <1>8, LaneGivenUp DEF AnnounceRun
  <1>9. ASSUME NEW w \in Workers, Finish(w) PROVE Lanes'
    <2>0. Holding(w) /\ hands[w].run \in QueuedRuns
      BY <1>9, <1>t, PhasesAreHands DEF Finish, Holding
    <2>1. queue[hands[w].run] \in QueueRow
      BY <2>0, <1>t DEF QueueTypeOK
    <2>2. /\ Over(queue[hands[w].run]).state = "over"
          /\ Failed(queue[hands[w].run]).state = "failed"
          /\ Failed([queue[hands[w].run] EXCEPT !.announced = FALSE]).state = "failed"
      BY <2>1 DEF Over, Failed, QueueRow
    <2>3. PICK row \in {Over(queue[hands[w].run]), Failed(queue[hands[w].run]),
                        Failed([queue[hands[w].run] EXCEPT !.announced = FALSE])} :
            queue' = [queue EXCEPT ![hands[w].run] = row]
      BY <1>9 DEF Finish
    <2>4. row.state \in {"over", "failed"}
      BY <2>2, <2>3
    <2>5. /\ \A s \in QueuedRuns \ {hands[w].run} : queue'[s] = queue[s]
          /\ queue'[hands[w].run].state \in {"over", "failed"}
      BY <2>0, <2>3, <2>4, <1>t DEF QueueTypeOK
    <2> QED BY <2>0, <2>5, <1>9, PutDownStep DEF Finish
  <1>10. ASSUME NEW w \in Workers, Stop(w) PROVE Lanes'
    BY <1>10, PutDownStep DEF Stop
  <1>11. ASSUME NEW w \in Workers, LoseOutcome(w) PROVE Lanes'
    BY <1>11, PutDownStep DEF LoseOutcome
  <1>12. ASSUME Recover PROVE Lanes'
    <2>1. hands' = [w \in Workers |-> Idle]
      BY <1>12 DEF Recover
    <2>2. \A w \in Workers : ~ Looks(w)' /\ ~ Holding(w)' /\ ~ Generates(w)'
      BY <2>1 DEF Looks, Holding, Generates, Idle
    <2> QED BY <2>2 DEF Lanes, HeldRows, HeldOnce, SawTheOldest, SawTheLane, OneGeneration
  <1> QED BY <1>1, <1>2, <1>3, <1>4, <1>5, <1>6, <1>7, <1>8, <1>9, <1>10, <1>11, <1>12
          DEF QueueNext, WorkOn

LEMMA StutterInv == QueueInv /\ UNCHANGED queueVars => QueueInv'
  BY DEF QueueInv, queueVars, QueueTypeOK, Lanes, HeldRows, HeldOnce, SawTheOldest, SawTheLane,
         OneGeneration, Looks, Holding, Generates, HoldsLane, Siblings

\* What the workers and the rows of the queue keep of each other, for any
\* number of workers, runs and conversations.
THEOREM QueueInvariance == QueueSpec => []QueueInv
  <1>1. QueueInv /\ [QueueNext]_queueVars => QueueInv'
    BY StepTypes, StepLanes, StutterInv DEF QueueInv
  <1> QED BY <1>1, InitInv, PTL DEF QueueSpec

\* The rows and the hands of the workers have their types.
THEOREM QueueTyped == QueueSpec => []QueueTypeOK
  <1>1. QueueInv => QueueTypeOK
    BY DEF QueueInv
  <1> QED BY <1>1, QueueInvariance, PTL

\* A conversation runs one text generation at a time, unless a run was queued
\* between the look and the claim of a worker.
THEOREM GenerationsApart == QueueSpec => []OneGeneration
  <1>1. QueueInv => OneGeneration
    BY DEF QueueInv, Lanes
  <1> QED BY <1>1, QueueInvariance, PTL

-----------------------------------------------------------------------------
(* Durable jobs.                                                           *)

InHand == {"leased", "running"}

\* What each job keeps true of itself.
Sound(job) ==
  /\ job.status # "absent" => job.goal \in Goals
  /\ job.owned <=> job.status \in InHand
  /\ job.goal \in Risky /\ ~ job.approval => job.approved
  /\ job.status \in InHand => ~ job.approval

JobsSound == \A j \in Jobs : Sound(jobs[j])

\* The worker's copy is of the latest claim of its job, and of its goal while
\* the job stays in hand.
Followed ==
  worker.phase \in {"claimed", "started", "executing"} =>
    /\ jobs[worker.job].attempts = worker.attempt
    /\ jobs[worker.job].status \in InHand => jobs[worker.job].goal = worker.goal

\* No run is written ahead of the attempts.
Numbered ==
  \A j \in Jobs, a \in Attempts : a > jobs[j].attempts => runs[j][a] = "none"

\* An execution has its run.
Opened ==
  worker.phase \in {"executing", "closing"} => runs[worker.job][worker.attempt] # "none"

IInv == TypeOK /\ JobsSound /\ Followed /\ Numbered /\ Opened /\ FreshAttempt

\* There is nothing yet.
LEMMA InitIInv == Init => IInv
  <1> SUFFICES ASSUME Init PROVE IInv
    OBVIOUS
  <1> USE JobsAssumption, NamesAssumption DEF Init, NoGoal, NoJob, NoTime, NoWork
  <1>1. \A j \in Jobs : jobs[j] \in JobRecord
    BY DEF JobRecord, JobStatus, Times
  <1>2. TypeOK
    <2>1. jobs \in [Jobs -> JobRecord]
      BY <1>1
    <2>2. worker \in WorkRecord \cup {NoWork}
      OBVIOUS
    <2>3. runs \in [Jobs -> [Attempts -> RunStatus]] /\ shown \in [Jobs -> [Attempts -> 0..2]]
      BY DEF RunStatus
    <2> QED BY <2>1, <2>2, <2>3 DEF TypeOK
  <1>3. JobsSound
    BY DEF JobsSound, Sound, InHand
  <1>4. Followed /\ Opened /\ FreshAttempt
    BY DEF Followed, Opened, FreshAttempt
  <1>5. Numbered
    BY DEF Numbered
  <1> QED BY <1>2, <1>3, <1>4, <1>5 DEF IInv

-----------------------------------------------------------------------------
(* What the row operators make of a job.                                   *)

\* A released job has a new status and no owner, and is else the same.
LEMMA ReleasedJob ==
  ASSUME NEW job \in JobRecord, NEW status \in JobStatus
  PROVE  LET new == Released(job, status) IN
         /\ new \in JobRecord /\ new.status = status /\ new.owned = FALSE
         /\ new.goal = job.goal /\ new.attempts = job.attempts
         /\ new.approval = job.approval /\ new.approved = job.approved
  BY DEF Released, JobRecord

Gated(goal, approval) == goal \in Risky => approval

\* A new job waits for approval if its goal is risky.
LEMMA PlannedJob ==
  ASSUME NEW job \in JobRecord, NEW goal \in Goals, NEW approval \in BOOLEAN,
         NEW recurring \in BOOLEAN, NEW startNow \in BOOLEAN, NEW due \in Times,
         Gated(goal, approval), Sound(job), job.status = "absent"
  PROVE  LET new == Planned(job, goal, approval, recurring, startNow, due) IN
         /\ new \in JobRecord /\ Sound(new)
         /\ new.attempts = job.attempts /\ new.status \notin InHand
  <1> DEFINE new == Planned(job, goal, approval, recurring, startNow, due)
             status == IF approval THEN "waiting_approval"
                       ELSE IF startNow /\ due = NoTime THEN "queued" ELSE "planned"
  <1>0. job.owned = FALSE
    BY DEF Sound, InHand, JobRecord
  <1>1. /\ new = [job EXCEPT !.goal = goal, !.approval = approval, !.recurring = recurring,
                             !.due = due, !.status = status]
        /\ status \in {"waiting_approval", "queued", "planned"}
    BY DEF Planned
  <1> HIDE DEF status
  <1>2. /\ new \in JobRecord /\ new.status = status /\ new.owned = FALSE
        /\ new.goal = goal /\ new.approval = approval /\ new.attempts = job.attempts
    <2>1. status \in JobStatus
      BY <1>1 DEF JobStatus
    <2>2. new \in JobRecord
      BY <1>1, <2>1 DEF JobRecord
    <2>3. /\ new.status = status /\ new.owned = job.owned
          /\ new.goal = goal /\ new.approval = approval /\ new.attempts = job.attempts
      BY <1>1 DEF JobRecord
    <2> QED BY <1>0, <2>2, <2>3
  <1> HIDE DEF new
  <1>3. Sound(new) /\ new.status \notin InHand
    BY <1>1, <1>2 DEF Sound, InHand, Gated
  <1> QED BY <1>2, <1>3 DEF new

\* An edited job has its new goal and the gate that goes with it.
LEMMA RegoaledJob ==
  ASSUME NEW job \in JobRecord, NEW goal \in Goals
  PROVE  LET new == Regoaled(job, goal) IN
         /\ new \in JobRecord /\ Sound(new)
         /\ new.attempts = job.attempts
         /\ new.status \in {"waiting_approval", "queued"} /\ new.goal = goal
  <1> DEFINE status == IF goal \in Risky THEN "waiting_approval" ELSE "queued"
             base == Released(job, status)
             new == Regoaled(job, goal)
  <1>1. status \in {"waiting_approval", "queued"} /\ status \in JobStatus
    BY DEF JobStatus
  <1>2. new = [base EXCEPT !.goal = goal, !.approval = goal \in Risky,
                           !.recurring = goal \in Periodic, !.due = NoTime, !.approved = FALSE]
    BY DEF Regoaled
  <1> HIDE DEF status
  <1>3. /\ base \in JobRecord /\ base.status = status /\ base.owned = FALSE
        /\ base.attempts = job.attempts
    BY <1>1, ReleasedJob
  <1> HIDE DEF base
  <1>4. /\ new \in JobRecord /\ new.status = status /\ new.owned = FALSE
        /\ new.goal = goal /\ new.approval = (goal \in Risky)
        /\ new.attempts = job.attempts
    <2>1. (goal \in Risky) \in BOOLEAN /\ (goal \in Periodic) \in BOOLEAN /\ NoTime \in Times
      BY DEF Times
    <2>2. new \in JobRecord
      BY <1>2, <1>3, <2>1 DEF JobRecord
    <2>3. /\ new.status = base.status /\ new.owned = base.owned
          /\ new.goal = goal /\ new.approval = (goal \in Risky)
          /\ new.attempts = base.attempts
      BY <1>2, <1>3 DEF JobRecord
    <2> QED BY <1>3, <2>2, <2>3
  <1> HIDE DEF new
  <1>5. Sound(new)
    BY <1>1, <1>4 DEF Sound, InHand
  <1> QED BY <1>1, <1>4, <1>5 DEF new

\* An operator's action leaves the goal and takes the job out of hand.
LEMMA SteeredJob ==
  ASSUME NEW job \in JobRecord, NEW action \in DOMAIN Target, Sound(job),
         job.status # "absent"
  PROVE  LET new == Steered(job, action) IN
         /\ new \in JobRecord /\ Sound(new)
         /\ new.attempts = job.attempts /\ new.goal = job.goal
         /\ new.status = Target[action]
         /\ new.status \in {"paused", "queued", "cancelled", "retrying"}
  <1> DEFINE base == Released(job, Target[action])
             new == Steered(job, action)
  <1>1. /\ Target[action] \in {"paused", "queued", "cancelled", "retrying"}
        /\ Target[action] \in JobStatus
    BY DEF Target, JobStatus
  <1>2. new = [base EXCEPT !.approval = @ /\ action # "approve",
                           !.approved = @ \/ action = "approve"]
    BY DEF Steered
  <1>3. /\ base \in JobRecord /\ base.status = Target[action] /\ base.owned = FALSE
        /\ base.goal = job.goal /\ base.attempts = job.attempts
        /\ base.approval = job.approval /\ base.approved = job.approved
    BY <1>1, ReleasedJob
  <1> HIDE DEF base
  <1>4. /\ new \in JobRecord /\ new.status = Target[action] /\ new.owned = FALSE
        /\ new.goal = job.goal /\ new.attempts = job.attempts
        /\ new.approval = (job.approval /\ action # "approve")
        /\ new.approved = (job.approved \/ action = "approve")
    BY <1>2, <1>3 DEF JobRecord
  <1> HIDE DEF new
  <1>5. Sound(new)
    BY <1>1, <1>4 DEF Sound, InHand
  <1> QED BY <1>1, <1>4, <1>5 DEF new

-----------------------------------------------------------------------------
(* Steps that move jobs and leave the synthetic runs alone.                *)

Busy == {"claimed", "started", "executing"}

\* A worker's copy after a step: the same work, or none that is followed.
WorkStays ==
  /\ worker' \in WorkRecord \cup {NoWork}
  /\ worker'.phase \in Busy =>
       /\ worker.phase \in Busy /\ worker'.job = worker.job
       /\ worker'.attempt = worker.attempt /\ worker'.goal = worker.goal
  /\ worker'.phase \in {"claimed", "started"} => worker.phase \in {"claimed", "started"}
  /\ worker'.phase \in {"executing", "closing"} =>
       /\ worker.phase \in {"executing", "closing"}
       /\ worker'.job = worker.job /\ worker'.attempt = worker.attempt

\* A busy worker has a job.
LEMMA BusyWorker ==
  ASSUME worker \in WorkRecord \cup {NoWork}, worker.phase # "idle"
  PROVE  worker \in WorkRecord /\ worker.job \in Jobs /\ worker.attempt \in Attempts
         /\ worker.goal \in Goals
  BY DEF WorkRecord, NoWork

\* The work is taken on into another phase.
LEMMA WorkMoves ==
  ASSUME IInv, worker.phase \in Busy,
         \/ worker' = [worker EXCEPT !.phase = "closing"] /\ worker.phase = "executing"
         \/ worker' = [worker EXCEPT !.phase = "started"] /\ worker.phase = "claimed"
  PROVE  WorkStays
  <1>1. worker \in WorkRecord
    BY BusyWorker DEF IInv, TypeOK, Busy
  <1>2. CASE worker' = [worker EXCEPT !.phase = "closing"] /\ worker.phase = "executing"
    BY <1>1, <1>2 DEF WorkStays, WorkRecord, Busy
  <1>3. CASE worker' = [worker EXCEPT !.phase = "started"] /\ worker.phase = "claimed"
    BY <1>1, <1>3 DEF WorkStays, WorkRecord, Busy
  <1> QED BY <1>2, <1>3

\* Dropped work is followed no more.
LEMMA WorkDropped == ASSUME worker' = NoWork PROVE WorkStays
  BY DEF WorkStays, NoWork, Busy

\* No step but a claim takes a job in hand or counts an attempt, and no step
\* sets the goal of a job in hand.
LEMMA JobsMove ==
  ASSUME IInv, WorkStays, UNCHANGED <<runs, shown>>,
         jobs' \in [Jobs -> JobRecord],
         \A j \in Jobs :
           /\ Sound(jobs'[j]) /\ jobs'[j].attempts = jobs[j].attempts
           /\ jobs'[j].status \in InHand =>
                jobs[j].status \in InHand /\ jobs'[j].goal = jobs[j].goal
  PROVE  IInv'
  <1>1. TypeOK'
    BY DEF IInv, TypeOK, WorkStays, Sound, InHand
  <1>2. JobsSound'
    BY DEF JobsSound
  <1>3. Followed'
    <2> SUFFICES ASSUME worker'.phase \in Busy
                 PROVE  /\ jobs'[worker'.job].attempts = worker'.attempt
                        /\ jobs'[worker'.job].status \in InHand =>
                             jobs'[worker'.job].goal = worker'.goal
      BY DEF Followed, Busy
    <2>1. /\ worker.phase \in Busy /\ worker'.job = worker.job
          /\ worker'.attempt = worker.attempt /\ worker'.goal = worker.goal
      BY DEF WorkStays
    <2>2. worker.job \in Jobs
      BY <2>1, BusyWorker DEF IInv, TypeOK, Busy
    <2>3. /\ jobs[worker.job].attempts = worker.attempt
          /\ jobs[worker.job].status \in InHand => jobs[worker.job].goal = worker.goal
      BY <2>1 DEF IInv, Followed, Busy
    <2> QED BY <2>1, <2>2, <2>3
  <1>4. Numbered'
    BY DEF IInv, Numbered
  <1>5. Opened' /\ FreshAttempt'
    BY DEF IInv, Opened, FreshAttempt, WorkStays, Busy
  <1> QED BY <1>1, <1>2, <1>3, <1>4, <1>5 DEF IInv

\* The same for one job, with the worker's copy untouched.
LEMMA JobMoves ==
  ASSUME IInv, WorkStays, UNCHANGED <<runs, shown>>, NEW j \in Jobs, NEW new \in JobRecord,
         jobs' = [jobs EXCEPT ![j] = new],
         Sound(new), new.attempts = jobs[j].attempts,
         new.status \in InHand => jobs[j].status \in InHand /\ new.goal = jobs[j].goal
  PROVE  IInv'
  <1>1. jobs' \in [Jobs -> JobRecord]
    BY DEF IInv, TypeOK
  <1>2. jobs'[j] = new /\ \A k \in Jobs : k # j => jobs'[k] = jobs[k]
    BY DEF IInv, TypeOK
  <1>3. \A k \in Jobs : /\ Sound(jobs'[k]) /\ jobs'[k].attempts = jobs[k].attempts
                        /\ jobs'[k].status \in InHand =>
                             jobs[k].status \in InHand /\ jobs'[k].goal = jobs[k].goal
    BY <1>2 DEF IInv, JobsSound
  <1> QED BY <1>1, <1>3, JobsMove

\* What an operator leaves alone.
LEMMA WorkerStays == ASSUME IInv, worker' = worker PROVE WorkStays
  BY DEF WorkStays, IInv, TypeOK

\* Creation, edits and transitions keep the invariant.
LEMMA OperatorStepIInv == ASSUME IInv, NEW j \in Jobs, OperatorStep(j) PROVE IInv'
  <1>0. jobs[j] \in JobRecord /\ Sound(jobs[j])
    BY DEF IInv, TypeOK, JobsSound
  <1>1. ASSUME NEW goal \in Goals, NEW asked \in BOOLEAN, NEW recurring \in BOOLEAN,
               NEW startNow \in BOOLEAN, NEW due \in FirstRuns \cup {NoTime},
               CreateJob(j, goal, asked, recurring, startNow, due)
        PROVE  IInv'
    <2> DEFINE approval == asked \/ goal \in Risky
               new == Planned(jobs[j], goal, approval, recurring, startNow, due)
    <2>1. due \in Times /\ approval \in BOOLEAN
      BY JobsAssumption DEF Times
    <2>2. jobs[j].status = "absent" /\ Sound(jobs[j])
      BY <1>0, <1>1 DEF CreateJob
    <2>3. new \in JobRecord /\ Sound(new) /\ new.attempts = jobs[j].attempts /\ new.status \notin InHand
      <3>1. Gated(goal, approval)
        BY DEF Gated
      <3>2. jobs[j] \in JobRecord /\ due \in Times /\ approval \in BOOLEAN
        BY <1>0, <2>1
      <3> HIDE DEF approval
      <3> QED BY <2>2, <3>1, <3>2, PlannedJob
    <2>4. jobs' = [jobs EXCEPT ![j] = new] /\ UNCHANGED <<worker, runs, shown>>
      BY <1>1 DEF CreateJob
    <2> HIDE DEF new
    <2> QED BY <2>3, <2>4, WorkerStays, JobMoves
  <1>2. ASSUME NEW goal \in Goals, UpdateGoal(j, goal)
        PROVE  IInv'
    <2> DEFINE new == Regoaled(jobs[j], goal)
    <2>1. /\ new \in JobRecord /\ Sound(new) /\ new.attempts = jobs[j].attempts
          /\ new.status \notin InHand
      BY <1>0, RegoaledJob DEF InHand
    <2>2. jobs' = [jobs EXCEPT ![j] = new] /\ UNCHANGED <<worker, runs, shown>>
      BY <1>2 DEF UpdateGoal
    <2> HIDE DEF new
    <2> QED BY <2>1, <2>2, WorkerStays, JobMoves
  <1>3. ASSUME NEW action \in DOMAIN Target, Transition(j, action)
        PROVE  IInv'
    <2> DEFINE new == Steered(jobs[j], action)
    <2>1. /\ new \in JobRecord /\ Sound(new) /\ new.attempts = jobs[j].attempts
          /\ new.status \notin InHand
      BY <1>0, <1>3, SteeredJob DEF InHand, Transition
    <2>2. jobs' = [jobs EXCEPT ![j] = new] /\ UNCHANGED <<worker, runs, shown>>
      BY <1>3 DEF Transition
    <2> HIDE DEF new
    <2> QED BY <2>1, <2>2, WorkerStays, JobMoves
  <1> QED BY <1>1, <1>2, <1>3 DEF OperatorStep

\* What the reconciler releases is no longer in hand.
LEMMA ReconcileStep == ASSUME IInv, Reconcile PROVE IInv'
  <1>1. ASSUME NEW j \in Jobs
        PROVE  LET new == IF Due(jobs[j]) THEN Reconciled(jobs[j]) ELSE jobs[j] IN
               /\ new \in JobRecord /\ Sound(new) /\ new.attempts = jobs[j].attempts
               /\ new.status \in InHand => jobs[j].status \in InHand /\ new.goal = jobs[j].goal
    <2> DEFINE status == IF jobs[j].status = "running" THEN "unknown_manual" ELSE "queued"
               rec == Released(jobs[j], status)
    <2>0. jobs[j] \in JobRecord /\ Sound(jobs[j])
      BY DEF IInv, TypeOK, JobsSound
    <2>1. status \in {"unknown_manual", "queued"} /\ status \in JobStatus
      BY DEF JobStatus
    <2>2. Reconciled(jobs[j]) = rec
      BY DEF Reconciled
    <2> HIDE DEF status
    <2>3. /\ rec \in JobRecord /\ rec.status = status /\ rec.owned = FALSE
          /\ rec.goal = jobs[j].goal /\ rec.attempts = jobs[j].attempts
          /\ rec.approval = jobs[j].approval /\ rec.approved = jobs[j].approved
      BY <2>0, <2>1, ReleasedJob
    <2> HIDE DEF rec
    <2>4. CASE Due(jobs[j])
      <3>1. Sound(rec) /\ rec.status \notin InHand
        <4>1. jobs[j].status # "absent"
          BY <2>4 DEF Due
        <4> QED BY <2>0, <2>1, <2>3, <4>1 DEF Sound, InHand
      <3> QED BY <2>2, <2>3, <2>4, <3>1
    <2>5. CASE ~ Due(jobs[j])
      BY <2>0, <2>5
    <2> QED BY <2>4, <2>5
  <1>2. /\ jobs' = [j \in Jobs |-> IF Due(jobs[j]) THEN Reconciled(jobs[j]) ELSE jobs[j]]
        /\ UNCHANGED <<worker, runs, shown>>
    BY DEF Reconcile
  <1>3. \A j \in Jobs : jobs'[j] = IF Due(jobs[j]) THEN Reconciled(jobs[j]) ELSE jobs[j]
    BY <1>2
  <1>4. jobs' \in [Jobs -> JobRecord]
    BY <1>1, <1>2
  <1>5. \A j \in Jobs : /\ Sound(jobs'[j]) /\ jobs'[j].attempts = jobs[j].attempts
                        /\ jobs'[j].status \in InHand =>
                             jobs[j].status \in InHand /\ jobs'[j].goal = jobs[j].goal
    BY <1>1, <1>3
  <1> QED BY <1>2, <1>4, <1>5, WorkerStays, JobsMove

\* Time changes neither status nor gate.
LEMMA TickStep == ASSUME IInv, Tick PROVE IInv'
  <1>1. ASSUME NEW j \in Jobs
        PROVE  /\ Aged(jobs[j]) \in JobRecord /\ Sound(Aged(jobs[j]))
               /\ Aged(jobs[j]).attempts = jobs[j].attempts
               /\ Aged(jobs[j]).status = jobs[j].status /\ Aged(jobs[j]).goal = jobs[j].goal
    <2> DEFINE new == Aged(jobs[j])
    <2>0. jobs[j] \in JobRecord /\ Sound(jobs[j])
      BY DEF IInv, TypeOK, JobsSound
    <2>1. Down(jobs[j].lease) \in Nat /\ Down(jobs[j].due) \in Times
      BY <2>0 DEF JobRecord, Times, NoTime, Down
    <2>2. new = [jobs[j] EXCEPT !.lease = Down(@), !.due = Down(@)]
      BY DEF Aged
    <2>3. /\ new \in JobRecord /\ new.status = jobs[j].status /\ new.goal = jobs[j].goal
          /\ new.attempts = jobs[j].attempts /\ new.owned = jobs[j].owned
          /\ new.approval = jobs[j].approval /\ new.approved = jobs[j].approved
      BY <2>0, <2>1, <2>2 DEF JobRecord
    <2> HIDE DEF new
    <2>4. Sound(new)
      BY <2>0, <2>3 DEF Sound
    <2> QED BY <2>3, <2>4 DEF new
  <1>2. jobs' = [j \in Jobs |-> Aged(jobs[j])] /\ UNCHANGED <<worker, runs, shown>>
    BY DEF Tick
  <1>3. \A j \in Jobs : jobs'[j] = Aged(jobs[j])
    BY <1>2
  <1>4. jobs' \in [Jobs -> JobRecord]
    BY <1>1, <1>2
  <1>5. \A j \in Jobs : /\ Sound(jobs'[j]) /\ jobs'[j].attempts = jobs[j].attempts
                        /\ jobs'[j].status \in InHand =>
                             jobs[j].status \in InHand /\ jobs'[j].goal = jobs[j].goal
    BY <1>1, <1>3
  <1> QED BY <1>2, <1>4, <1>5, WorkerStays, JobsMove

-----------------------------------------------------------------------------
(* The worker's steps and those of the synthetic runs.                     *)

\* A leased job is in hand, and one attempt further.
LEMMA LeasedJob ==
  ASSUME NEW job \in JobRecord, Sound(job), job.status = "queued", ~ job.approval,
         job.attempts < AttemptCap
  PROVE  LET new == Leased(job) IN
         /\ new \in JobRecord /\ Sound(new)
         /\ new.attempts = job.attempts + 1 /\ new.goal = job.goal
  <1> DEFINE new == Leased(job)
  <1>1. /\ "leased" \in JobStatus /\ LeaseTime \in Nat
        /\ job.attempts + 1 \in 0..AttemptCap
    BY JobsAssumption DEF JobStatus, JobRecord
  <1>2. new = [job EXCEPT !.status = "leased", !.owned = TRUE, !.lease = LeaseTime,
                          !.attempts = job.attempts + 1]
    BY DEF Leased
  <1>3. /\ new \in JobRecord /\ new.status = "leased" /\ new.owned = TRUE
        /\ new.attempts = job.attempts + 1 /\ new.goal = job.goal
        /\ new.approval = job.approval /\ new.approved = job.approved
    <2>1. new \in JobRecord
      BY <1>1, <1>2 DEF JobRecord
    <2>2. /\ new.status = "leased" /\ new.owned = TRUE
          /\ new.attempts = job.attempts + 1 /\ new.goal = job.goal
          /\ new.approval = job.approval /\ new.approved = job.approved
      BY <1>2 DEF JobRecord
    <2> QED BY <2>1, <2>2
  <1> HIDE DEF new
  <1>4. Sound(new)
    BY <1>3 DEF Sound, InHand
  <1> QED BY <1>3, <1>4 DEF new

\* A claim is the latest attempt of its job, and nobody has used its number.
LEMMA ClaimStep == ASSUME IInv, NEW j \in Jobs, Claim(j) PROVE IInv'
  <1> DEFINE new == Leased(jobs[j])
             work == [phase |-> "claimed", job |-> j, attempt |-> jobs[j].attempts + 1,
                      goal |-> jobs[j].goal, recurring |-> jobs[j].recurring]
  <1>0. /\ jobs[j] \in JobRecord /\ Sound(jobs[j]) /\ jobs[j].status = "queued"
        /\ ~ jobs[j].approval /\ jobs[j].attempts < AttemptCap
    BY DEF IInv, TypeOK, JobsSound, Claim, Claimable
  <1>1. /\ new \in JobRecord /\ Sound(new)
        /\ new.attempts = jobs[j].attempts + 1 /\ new.goal = jobs[j].goal
    BY <1>0, LeasedJob
  <1>2. jobs' = [jobs EXCEPT ![j] = new] /\ worker' = work /\ UNCHANGED <<runs, shown>>
    BY DEF Claim
  <1> HIDE DEF new
  <1>3. /\ jobs' \in [Jobs -> JobRecord] /\ jobs'[j] = new
        /\ \A k \in Jobs : k # j => jobs'[k] = jobs[k]
    BY <1>1, <1>2 DEF IInv, TypeOK
  <1>4. jobs[j].goal \in Goals /\ jobs[j].recurring \in BOOLEAN
        /\ jobs[j].attempts \in Nat /\ jobs[j].attempts + 1 \in Attempts
    BY <1>0, JobsAssumption DEF Sound, JobRecord, Attempts
  <1>5. /\ work \in WorkRecord /\ work.phase = "claimed" /\ work.job = j
        /\ work.attempt = jobs[j].attempts + 1 /\ work.goal = jobs[j].goal
    BY <1>4 DEF WorkRecord
  <1> HIDE DEF work
  <1>6. JobsSound'
    BY <1>1, <1>3 DEF IInv, JobsSound
  <1>7. TypeOK'
    BY <1>2, <1>3, <1>5, <1>6 DEF IInv, TypeOK, JobsSound, Sound, InHand
  <1>8. Followed'
    BY <1>1, <1>2, <1>3, <1>5 DEF Followed
  <1>9. Numbered'
    <2> SUFFICES ASSUME NEW k \in Jobs, NEW a \in Attempts, a > jobs'[k].attempts
                 PROVE  runs'[k][a] = "none"
      BY DEF Numbered
    <2>1. jobs[k].attempts \in Nat
      BY DEF IInv, TypeOK, JobRecord
    <2>2. a > jobs[k].attempts
      BY <1>1, <1>3, <2>1 DEF Attempts
    <2> QED BY <1>2, <2>2 DEF IInv, Numbered
  <1>10. Opened'
    BY <1>2, <1>5 DEF Opened
  <1>11. FreshAttempt'
    <2>1. jobs[j].attempts + 1 > jobs[j].attempts
      BY <1>4
    <2>2. runs[j][jobs[j].attempts + 1] = "none"
      BY <1>4, <2>1 DEF IInv, Numbered
    <2> QED BY <1>2, <1>5, <2>2 DEF FreshAttempt
  <1> QED BY <1>6, <1>7, <1>8, <1>9, <1>10, <1>11 DEF IInv

\* Jobs and runs stay as they are.
LEMMA OnlyWorkMoves == ASSUME IInv, WorkStays, UNCHANGED <<jobs, runs, shown>> PROVE IInv'
  <1>1. /\ jobs' \in [Jobs -> JobRecord]
        /\ \A j \in Jobs : /\ Sound(jobs'[j]) /\ jobs'[j].attempts = jobs[j].attempts
                           /\ jobs'[j].status \in InHand =>
                                jobs[j].status \in InHand /\ jobs'[j].goal = jobs[j].goal
    BY DEF IInv, TypeOK, JobsSound
  <1> QED BY <1>1, JobsMove

\* A start or a heartbeat renews the lease of a job that is in hand.
LEMMA RenewedJob ==
  ASSUME NEW job \in JobRecord, Sound(job), job.status \in InHand
  PROVE  LET new == Running(job) IN
         /\ new \in JobRecord /\ Sound(new) /\ new.attempts = job.attempts
         /\ new.goal = job.goal
  <1> DEFINE new == Running(job)
  <1>1. new = [job EXCEPT !.status = "running", !.lease = LeaseTime]
    BY DEF Running
  <1>2. /\ new \in JobRecord /\ new.status = "running" /\ new.goal = job.goal
        /\ new.attempts = job.attempts /\ new.owned = job.owned
        /\ new.approval = job.approval /\ new.approved = job.approved
    <2>1. "running" \in JobStatus /\ LeaseTime \in Nat
      BY JobsAssumption DEF JobStatus
    <2>2. new \in JobRecord
      BY <1>1, <2>1 DEF JobRecord
    <2>3. /\ new.status = "running" /\ new.goal = job.goal
          /\ new.attempts = job.attempts /\ new.owned = job.owned
          /\ new.approval = job.approval /\ new.approved = job.approved
      BY <1>1 DEF JobRecord
    <2> QED BY <2>2, <2>3
  <1> HIDE DEF new
  <1>3. Sound(new)
    BY <1>2 DEF Sound, InHand
  <1> QED BY <1>2, <1>3 DEF new

\* A start finds the lease of the claim, or gives up.
LEMMA StartJobStep == ASSUME IInv, StartJob PROVE IInv'
  <1> DEFINE j == worker.job
             new == Running(jobs[j])
  <1>1. worker.phase = "claimed" /\ j \in Jobs /\ UNCHANGED <<runs, shown>>
    BY BusyWorker DEF StartJob, IInv, TypeOK
  <1>2. CASE Holds(j, "leased")
    <2>1. /\ jobs' = [jobs EXCEPT ![j] = new]
          /\ worker' = [worker EXCEPT !.phase = "started"]
      BY <1>2 DEF StartJob
    <2>2. jobs[j] \in JobRecord /\ Sound(jobs[j]) /\ jobs[j].status \in InHand
      BY <1>1, <1>2 DEF IInv, TypeOK, JobsSound, Holds, InHand
    <2>3. /\ new \in JobRecord /\ Sound(new) /\ new.attempts = jobs[j].attempts
          /\ new.goal = jobs[j].goal
      BY <2>2, RenewedJob
    <2>4. WorkStays
      BY <1>1, <2>1, WorkMoves DEF Busy
    <2> HIDE DEF new, j
    <2> QED BY <1>1, <2>1, <2>2, <2>3, <2>4, JobMoves
  <1>3. CASE ~ Holds(j, "leased")
    BY <1>1, <1>3, WorkDropped, OnlyWorkMoves DEF StartJob
  <1> QED BY <1>2, <1>3

\* A heartbeat renews a lease that is still the worker's.
LEMMA HeartbeatStep == ASSUME IInv, Heartbeat PROVE IInv'
  <1> DEFINE j == worker.job
             new == [jobs[j] EXCEPT !.lease = LeaseTime]
  <1>1. /\ worker.phase = "executing" /\ j \in Jobs /\ jobs[j].status = "running"
        /\ UNCHANGED <<worker, runs, shown>>
    BY BusyWorker DEF Heartbeat, Holds, IInv, TypeOK
  <1>2. jobs[j] \in JobRecord /\ Sound(jobs[j])
    BY <1>1 DEF IInv, TypeOK, JobsSound
  <1>3. jobs' = [jobs EXCEPT ![j] = new]
    BY <1>1 DEF Heartbeat, IInv, TypeOK
  <1>4. /\ new \in JobRecord /\ new.status = jobs[j].status /\ new.goal = jobs[j].goal
        /\ new.attempts = jobs[j].attempts /\ new.owned = jobs[j].owned
        /\ new.approval = jobs[j].approval /\ new.approved = jobs[j].approved
    BY <1>2, JobsAssumption DEF JobRecord
  <1> HIDE DEF new, j
  <1>5. Sound(new)
    BY <1>2, <1>4 DEF Sound
  <1>6. new.status \in InHand => jobs[j].status \in InHand /\ new.goal = jobs[j].goal
    BY <1>4
  <1> QED BY <1>1, <1>3, <1>4, <1>5, <1>6, WorkerStays, JobMoves

\* A verdict takes the job out of hand.
LEMMA FinishedJob ==
  ASSUME IInv, worker.phase # "idle", NEW job \in JobRecord, Sound(job),
         job.status = "running", NEW outcome \in Outcomes
  PROVE  LET new == Finished(job, outcome) IN
         /\ new \in JobRecord /\ Sound(new) /\ new.attempts = job.attempts
         /\ new.status \notin InHand
  <1> DEFINE status == Verdict(outcome)
             base == Released(job, status)
             due == CASE status = "planned" -> Interval
                      [] status = "retrying" -> Backoff[worker.attempt]
                      [] OTHER -> NoTime
             new == Finished(job, outcome)
  <1>1. status \in {"planned", "succeeded", "unknown_manual", "dead_letter", "retrying"}
    BY DEF Verdict, Outcomes
  <1>2. new = [base EXCEPT !.due = due]
    BY DEF Finished
  <1> HIDE DEF status
  <1>3. due \in Times
    <2>1. worker.attempt \in Attempts
      BY BusyWorker DEF IInv, TypeOK
    <2>2. Backoff[worker.attempt] \in Nat /\ Interval \in Nat
      BY <2>1, JobsAssumption DEF Attempts
    <2> QED BY <1>1, <2>2 DEF Times
  <1>4. /\ base \in JobRecord /\ base.status = status /\ base.owned = FALSE
        /\ base.goal = job.goal /\ base.attempts = job.attempts
        /\ base.approval = job.approval /\ base.approved = job.approved
    <2>1. status \in JobStatus
      BY <1>1 DEF JobStatus
    <2> QED BY <2>1, ReleasedJob
  <1> HIDE DEF base, due
  <1>5. /\ new \in JobRecord /\ new.status = status /\ new.owned = FALSE
        /\ new.goal = job.goal /\ new.attempts = job.attempts
        /\ new.approval = job.approval /\ new.approved = job.approved
    <2>1. new \in JobRecord
      BY <1>2, <1>3, <1>4 DEF JobRecord
    <2>2. /\ new.status = base.status /\ new.owned = base.owned
          /\ new.goal = base.goal /\ new.attempts = base.attempts
          /\ new.approval = base.approval /\ new.approved = base.approved
      BY <1>2, <1>4 DEF JobRecord
    <2> QED BY <1>4, <2>1, <2>2
  <1> HIDE DEF new
  <1>6. Sound(new) /\ new.status \notin InHand
    BY <1>1, <1>5 DEF Sound, InHand
  <1> QED BY <1>5, <1>6 DEF new

\* A verdict counts if the lease is still the worker's.
LEMMA FinishJobStep ==
  ASSUME IInv, NEW outcome \in Outcomes, FinishJob(outcome) PROVE IInv'
  <1> DEFINE j == worker.job
             new == Finished(jobs[j], outcome)
  <1>1. /\ worker.phase \in {"started", "executing"} /\ j \in Jobs
        /\ Settle(outcome) /\ UNCHANGED <<runs, shown>>
    BY BusyWorker DEF FinishJob, IInv, TypeOK
  <1>2. CASE Holds(j, "running")
    <2>1. /\ jobs' = [jobs EXCEPT ![j] = new]
          /\ worker' = IF worker.phase = "executing" THEN [worker EXCEPT !.phase = "closing"]
                       ELSE NoWork
      BY <1>1, <1>2 DEF Settle
    <2>2. jobs[j] \in JobRecord /\ Sound(jobs[j]) /\ jobs[j].status = "running"
      BY <1>1, <1>2 DEF IInv, TypeOK, JobsSound, Holds
    <2>3. /\ new \in JobRecord /\ Sound(new) /\ new.attempts = jobs[j].attempts
          /\ new.status \notin InHand
      BY <1>1, <2>2, FinishedJob
    <2>4. WorkStays
      BY <1>1, <2>1, WorkMoves, WorkDropped DEF Busy
    <2> HIDE DEF new, j
    <2> QED BY <1>1, <2>1, <2>3, <2>4, JobMoves
  <1>3. CASE ~ Holds(j, "running")
    BY <1>1, <1>3, WorkDropped, OnlyWorkMoves DEF Settle
  <1> QED BY <1>2, <1>3

\* Synthetic runs move, but none appears or disappears.
LEMMA RunMoves ==
  ASSUME IInv, WorkStays, UNCHANGED jobs,
         runs' \in [Jobs -> [Attempts -> RunStatus]],
         shown' \in [Jobs -> [Attempts -> 0..2]],
         \A j \in Jobs, a \in Attempts : runs'[j][a] = "none" <=> runs[j][a] = "none"
  PROVE  IInv'
  <1>1. TypeOK' /\ JobsSound'
    BY DEF IInv, TypeOK, JobsSound, WorkStays
  <1>2. worker'.phase # "idle" => worker'.job \in Jobs /\ worker'.attempt \in Attempts
    BY DEF WorkStays, WorkRecord, NoWork
  <1>3. Followed'
    BY DEF IInv, Followed, WorkStays, Busy
  <1>4. Numbered'
    BY DEF IInv, Numbered
  <1>5. Opened'
    BY <1>2 DEF IInv, Opened, WorkStays
  <1>6. FreshAttempt'
    BY <1>2 DEF IInv, FreshAttempt, WorkStays, Busy
  <1> QED BY <1>1, <1>3, <1>4, <1>5, <1>6 DEF IInv

\* One run moves between two states of a run that exists.
LEMMA OneRunMoves ==
  ASSUME IInv, WorkStays, UNCHANGED jobs, NEW j \in Jobs, NEW a \in Attempts,
         runs[j][a] # "none", NEW status \in RunStatus, status # "none",
         runs' = [runs EXCEPT ![j][a] = status],
         shown' = shown \/ shown' = [shown EXCEPT ![j][a] = 2]
  PROVE  IInv'
  <1>0. runs \in [Jobs -> [Attempts -> RunStatus]] /\ shown \in [Jobs -> [Attempts -> 0..2]]
    BY DEF IInv, TypeOK
  <1>1. runs' \in [Jobs -> [Attempts -> RunStatus]] /\ shown' \in [Jobs -> [Attempts -> 0..2]]
    <2>1. runs' \in [Jobs -> [Attempts -> RunStatus]]
      BY <1>0
    <2>2. 2 \in 0..2
      OBVIOUS
    <2>3. [shown EXCEPT ![j][a] = 2] \in [Jobs -> [Attempts -> 0..2]]
      BY <1>0, <2>2
    <2> QED BY <1>0, <2>1, <2>3
  <1>2. \A k \in Jobs, b \in Attempts : runs'[k][b] = "none" <=> runs[k][b] = "none"
    BY DEF IInv, TypeOK
  <1> QED BY <1>1, <1>2, RunMoves

\* The number of an attempt that starts to execute is not ahead of the claims.
LEMMA OpenRunStep == ASSUME IInv, OpenRun PROVE IInv'
  <1> DEFINE j == worker.job
             a == worker.attempt
  <1>1. /\ worker.phase = "started" /\ worker \in WorkRecord /\ j \in Jobs
        /\ a \in Attempts /\ UNCHANGED jobs
        /\ worker' = [worker EXCEPT !.phase = "executing"]
        /\ runs' = [runs EXCEPT ![j][a] = "running"]
        /\ shown' = [shown EXCEPT ![j][a] = 1]
    BY BusyWorker DEF OpenRun, IInv, TypeOK
  <1>2. /\ worker' \in WorkRecord /\ worker'.phase = "executing" /\ worker'.job = j
        /\ worker'.attempt = a /\ worker'.goal = worker.goal
    BY <1>1 DEF WorkRecord
  <1>3. /\ runs' \in [Jobs -> [Attempts -> RunStatus]] /\ runs'[j][a] = "running"
        /\ shown' \in [Jobs -> [Attempts -> 0..2]]
        /\ \A k \in Jobs, b \in Attempts : k # j \/ b # a => runs'[k][b] = runs[k][b]
    BY <1>1 DEF IInv, TypeOK, RunStatus
  <1>4. TypeOK' /\ JobsSound'
    BY <1>1, <1>2, <1>3 DEF IInv, TypeOK, JobsSound
  <1>5. /\ jobs[j].attempts = a
        /\ jobs[j].status \in InHand => jobs[j].goal = worker.goal
    BY <1>1 DEF IInv, Followed
  <1> HIDE DEF j, a
  <1>6. Followed'
    BY <1>1, <1>2, <1>5 DEF Followed
  <1>7. Numbered'
    <2> SUFFICES ASSUME NEW k \in Jobs, NEW b \in Attempts, b > jobs[k].attempts
                 PROVE  runs'[k][b] = "none"
      BY <1>1 DEF Numbered
    <2>1. k # j \/ b # a
      BY <1>1, <1>5 DEF Attempts
    <2> QED BY <1>3, <2>1 DEF IInv, Numbered
  <1>8. Opened' /\ FreshAttempt'
    BY <1>2, <1>3 DEF Opened, FreshAttempt
  <1> QED BY <1>4, <1>6, <1>7, <1>8 DEF IInv

\* The run of an execution that is over is closed.
LEMMA CloseRunStep == ASSUME IInv, CloseRun PROVE IInv'
  <1>1. /\ worker.job \in Jobs /\ worker.attempt \in Attempts
        /\ runs[worker.job][worker.attempt] # "none"
    BY BusyWorker DEF CloseRun, IInv, TypeOK, Opened
  <1>2. "closed" \in RunStatus
    BY DEF RunStatus
  <1> QED BY <1>1, <1>2, WorkDropped, OneRunMoves DEF CloseRun

\* The recovery requeues interrupted runs.
LEMMA RestartStep == ASSUME IInv, Restart PROVE IInv'
  <1>1. /\ runs' = [j \in Jobs |-> [a \in Attempts |->
             IF runs[j][a] \in {"running", "rerun"} THEN "queued" ELSE runs[j][a]]]
        /\ worker' = NoWork /\ UNCHANGED <<jobs, shown>>
    BY DEF Restart
  <1>2. runs' \in [Jobs -> [Attempts -> RunStatus]] /\ shown' \in [Jobs -> [Attempts -> 0..2]]
    BY <1>1 DEF IInv, TypeOK, RunStatus
  <1>3. \A j \in Jobs, a \in Attempts : runs'[j][a] = "none" <=> runs[j][a] = "none"
    BY <1>1
  <1> QED BY <1>1, <1>2, <1>3, WorkDropped, RunMoves

\* An ordinary worker runs a requeued row, and ends it.
LEMMA RerunStep ==
  ASSUME IInv, NEW j \in Jobs, NEW a \in Attempts, Rerun(j, a) \/ RerunEnds(j, a) PROVE IInv'
  <1>1. "rerun" \in RunStatus /\ "closed" \in RunStatus
    BY DEF RunStatus
  <1>2. CASE Rerun(j, a)
    BY <1>1, <1>2, WorkerStays, OneRunMoves DEF Rerun
  <1>3. CASE RerunEnds(j, a)
    BY <1>1, <1>3, WorkerStays, OneRunMoves DEF RerunEnds
  <1> QED BY <1>2, <1>3

-----------------------------------------------------------------------------
\* Every step keeps the invariant.
LEMMA NextIInv == ASSUME IInv, [Next]_vars PROVE IInv'
  <1>1. CASE UNCHANGED vars
    BY <1>1, WorkerStays, OnlyWorkMoves DEF vars
  <1>2. CASE \E j \in Jobs : OperatorStep(j)
    BY <1>2, OperatorStepIInv
  <1>3. CASE WorkerStep
    BY <1>3, ClaimStep, StartJobStep, OpenRunStep, FinishJobStep, CloseRunStep DEF WorkerStep
  <1>4. CASE Heartbeat
    BY <1>4, HeartbeatStep
  <1>5. CASE LoseJob
    BY <1>5, WorkDropped, OnlyWorkMoves DEF LoseJob
  <1>6. CASE Reconcile
    BY <1>6, ReconcileStep
  <1>7. CASE Restart
    BY <1>7, RestartStep
  <1>8. CASE \E j \in Jobs, a \in Attempts : Rerun(j, a) \/ RerunEnds(j, a)
    BY <1>8, RerunStep
  <1>9. CASE Tick
    BY <1>9, TickStep
  <1> QED BY <1>1, <1>2, <1>3, <1>4, <1>5, <1>6, <1>7, <1>8, <1>9 DEF Next

\* The inductive invariant of the tables and the worker.
THEOREM Invariance == Spec => []IInv
  <1>1. Init => IInv
    BY InitIInv
  <1>2. IInv /\ [Next]_vars => IInv'
    BY NextIInv
  <1> QED BY <1>1, <1>2, PTL DEF Spec

\* The tables have their shape in every reachable state.
THEOREM JobsTyped == Spec => []TypeOK
  <1>1. IInv => TypeOK
    BY DEF IInv
  <1> QED BY <1>1, Invariance, PTL

\* No edit, transition or reconciliation gets a risky goal into the worker's
\* hands without an approval of that goal.
THEOREM GateHolds == Spec => []ApprovalGate
  <1>1. IInv => ApprovalGate
    BY DEF IInv, JobsSound, Sound, InHand, ApprovalGate
  <1> QED BY <1>1, Invariance, PTL

\* The heartbeat and the verdict of a worker never meet another execution.
THEOREM ExecutionsAreTold == Spec => []OwnExecution
  <1>1. IInv => OwnExecution
    <2> SUFFICES ASSUME IInv, worker.phase \in {"started", "executing"},
                        jobs[worker.job].status = "running"
                 PROVE  /\ jobs[worker.job].attempts = worker.attempt
                        /\ jobs[worker.job].goal = worker.goal
                        /\ jobs[worker.job].owned
      BY DEF OwnExecution
    <2>1. worker.job \in Jobs
      BY BusyWorker DEF IInv, TypeOK
    <2> QED BY <2>1 DEF IInv, Followed, JobsSound, Sound, InHand
  <1> QED BY <1>1, Invariance, PTL

\* The event id of an execution is never taken.
THEOREM AttemptsAreFresh == Spec => []FreshAttempt
  <1>1. IInv => FreshAttempt
    BY DEF IInv
  <1> QED BY <1>1, Invariance, PTL

-----------------------------------------------------------------------------
\* What a step does to a job that is over or gets a verdict.
FinalStep(j) ==
  /\ jobs[j].status \in {"succeeded", "dead_letter"} =>
       /\ jobs'[j].status = jobs[j].status
       /\ jobs'[j].goal = jobs[j].goal
  /\ jobs'[j].status \in {"succeeded", "dead_letter"} /\ jobs'[j].status # jobs[j].status =>
       jobs[j].status = "running" /\ worker.job = j

\* A job that keeps its status and goal is no exception to finality.
LEMMA StaysFinal ==
  ASSUME NEW j \in Jobs, jobs'[j].status = jobs[j].status, jobs'[j].goal = jobs[j].goal
  PROVE  FinalStep(j)
  BY DEF FinalStep

\* Neither is one that gets a status that is no verdict while it has none.
LEMMA MovesOn ==
  ASSUME NEW j \in Jobs, jobs[j].status \notin {"succeeded", "dead_letter"},
         jobs'[j].status \notin {"succeeded", "dead_letter"}
  PROVE  FinalStep(j)
  BY DEF FinalStep

\* The operator's rows: an edit refuses jobs that are over, and no transition
\* leads out of succeeded or dead_letter.
LEMMA OperatorFinal ==
  ASSUME IInv, NEW k \in Jobs, OperatorStep(k), NEW j \in Jobs PROVE FinalStep(j)
  <1>0. jobs \in [Jobs -> JobRecord] /\ jobs[k] \in JobRecord /\ Sound(jobs[k])
    BY DEF IInv, TypeOK, JobsSound
  <1>1. ASSUME NEW row, jobs' = [jobs EXCEPT ![k] = row],
               jobs[k].status \notin {"succeeded", "dead_letter"},
               row.status \notin {"succeeded", "dead_letter"}
        PROVE  FinalStep(j)
    <2>1. CASE j = k
      BY <1>0, <1>1, <2>1, MovesOn
    <2>2. CASE j # k
      BY <1>0, <1>1, <2>2, StaysFinal
    <2> QED BY <2>1, <2>2
  <1>2. ASSUME NEW goal \in Goals, NEW asked \in BOOLEAN, NEW recurring \in BOOLEAN,
               NEW startNow \in BOOLEAN, NEW due \in FirstRuns \cup {NoTime},
               CreateJob(k, goal, asked, recurring, startNow, due)
        PROVE  FinalStep(j)
    <2> DEFINE approval == asked \/ goal \in Risky
               status == IF approval THEN "waiting_approval"
                         ELSE IF startNow /\ due = NoTime THEN "queued" ELSE "planned"
               row == Planned(jobs[k], goal, approval, recurring, startNow, due)
    <2>1. jobs' = [jobs EXCEPT ![k] = row] /\ jobs[k].status = "absent"
      BY <1>2 DEF CreateJob
    <2>2. row.status = status
      BY <1>0 DEF Planned, JobRecord
    <2>3. status \in {"waiting_approval", "queued", "planned"}
      OBVIOUS
    <2> HIDE DEF row, status
    <2> QED BY <1>1, <2>1, <2>2, <2>3
  <1>3. ASSUME NEW goal \in Goals, UpdateGoal(k, goal)
        PROVE  FinalStep(j)
    <2> DEFINE row == Regoaled(jobs[k], goal)
    <2>1. /\ jobs' = [jobs EXCEPT ![k] = row]
          /\ jobs[k].status \notin {"succeeded", "dead_letter"}
      BY <1>3 DEF UpdateGoal
    <2>2. row.status \in {"waiting_approval", "queued"}
      BY <1>0, RegoaledJob
    <2> HIDE DEF row
    <2> QED BY <1>1, <2>1, <2>2
  <1>4. ASSUME NEW action \in DOMAIN Target, Transition(k, action)
        PROVE  FinalStep(j)
    <2> DEFINE row == Steered(jobs[k], action)
    <2>1. /\ jobs' = [jobs EXCEPT ![k] = row] /\ jobs[k].status # "absent"
          /\ TransitionAllowed(jobs[k].status, Target[action])
      BY <1>4 DEF Transition
    <2>2. /\ row.status \in {"paused", "queued", "cancelled", "retrying"}
          /\ row.status = Target[action]
      BY <1>0, <2>1, SteeredJob
    <2>3. jobs[k].status \notin {"succeeded", "dead_letter"}
      BY <2>1, <2>2 DEF TransitionAllowed
    <2> HIDE DEF row
    <2> QED BY <1>1, <2>1, <2>2, <2>3
  <1> QED BY <1>2, <1>3, <1>4 DEF OperatorStep

\* The reconciler touches no job that is over, and gives no verdict.
LEMMA ReconcileFinal == ASSUME IInv, Reconcile, NEW j \in Jobs PROVE FinalStep(j)
  <1>1. jobs'[j] = IF Due(jobs[j]) THEN Reconciled(jobs[j]) ELSE jobs[j]
    BY DEF Reconcile
  <1>2. CASE Due(jobs[j])
    <2>1. jobs[j] \in JobRecord
      BY DEF IInv, TypeOK
    <2>2. Reconciled(jobs[j]).status \in {"unknown_manual", "queued"}
      BY <2>1 DEF Reconciled, Released, JobRecord
    <2>3. jobs[j].status \notin {"succeeded", "dead_letter"}
      BY <1>2 DEF Due
    <2> QED BY <1>1, <1>2, <2>2, <2>3, MovesOn
  <1>3. CASE ~ Due(jobs[j])
    BY <1>1, <1>3, StaysFinal
  <1> QED BY <1>2, <1>3

\* The worker's rows: only a verdict on the job it runs ends one.
LEMMA WorkerFinal == ASSUME IInv, WorkerStep, NEW j \in Jobs PROVE FinalStep(j)
  <1>0. jobs \in [Jobs -> JobRecord]
    BY DEF IInv, TypeOK
  <1>1. ASSUME NEW k \in Jobs, NEW row, jobs' = [jobs EXCEPT ![k] = row],
               jobs[k].status \notin {"succeeded", "dead_letter"},
               row.status \notin {"succeeded", "dead_letter"}
                 \/ (jobs[k].status = "running" /\ worker.job = k)
        PROVE  FinalStep(j)
    BY <1>0, <1>1 DEF FinalStep
  <1>2. ASSUME NEW k \in Jobs, Claim(k) PROVE FinalStep(j)
    <2>1. jobs' = [jobs EXCEPT ![k] = Leased(jobs[k])] /\ jobs[k].status = "queued"
      BY <1>2 DEF Claim, Claimable
    <2>2. Leased(jobs[k]).status = "leased"
      BY <1>0 DEF Leased, JobRecord
    <2> QED BY <1>1, <2>1, <2>2
  <1>3. CASE StartJob
    <2>1. worker.job \in Jobs
      BY <1>3, BusyWorker DEF StartJob, IInv, TypeOK
    <2>2. CASE Holds(worker.job, "leased")
      <3>1. /\ jobs' = [jobs EXCEPT ![worker.job] = Running(jobs[worker.job])]
            /\ jobs[worker.job].status = "leased"
        BY <1>3, <2>2 DEF StartJob, Holds
      <3>2. Running(jobs[worker.job]).status = "running"
        BY <1>0, <2>1 DEF Running, JobRecord
      <3> QED BY <1>1, <2>1, <3>1, <3>2
    <2>3. CASE ~ Holds(worker.job, "leased")
      BY <1>3, <2>3, StaysFinal DEF StartJob
    <2> QED BY <2>2, <2>3
  <1>4. CASE OpenRun \/ CloseRun
    BY <1>4, StaysFinal DEF OpenRun, CloseRun
  <1>5. ASSUME NEW outcome \in Outcomes, FinishJob(outcome) PROVE FinalStep(j)
    <2>1. worker.job \in Jobs /\ Settle(outcome)
      BY <1>5, BusyWorker DEF FinishJob, IInv, TypeOK
    <2>2. CASE Holds(worker.job, "running")
      <3>1. /\ jobs' = [jobs EXCEPT ![worker.job] = Finished(jobs[worker.job], outcome)]
            /\ jobs[worker.job].status = "running"
        BY <2>1, <2>2 DEF Settle, Holds
      <3> QED BY <1>1, <2>1, <3>1
    <2>3. CASE ~ Holds(worker.job, "running")
      BY <2>1, <2>3, StaysFinal DEF Settle
    <2> QED BY <2>2, <2>3
  <1> QED BY <1>2, <1>3, <1>4, <1>5 DEF WorkerStep

\* Renewals, restarts, reruns and time leave every status alone.
LEMMA OtherFinal ==
  ASSUME IInv, NEW j \in Jobs,
         \/ Heartbeat \/ LoseJob \/ Restart \/ Tick \/ UNCHANGED vars
         \/ \E k \in Jobs, a \in Attempts : Rerun(k, a) \/ RerunEnds(k, a)
  PROVE  FinalStep(j)
  <1>0. jobs \in [Jobs -> JobRecord] /\ jobs[j] \in JobRecord
    BY DEF IInv, TypeOK
  <1>1. CASE Heartbeat
    BY <1>0, <1>1, StaysFinal DEF Heartbeat, JobRecord
  <1>2. CASE Tick
    <2>1. jobs'[j] = Aged(jobs[j])
      BY <1>2 DEF Tick
    <2>2. Aged(jobs[j]).status = jobs[j].status /\ Aged(jobs[j]).goal = jobs[j].goal
      BY <1>0 DEF Aged, JobRecord
    <2> QED BY <2>1, <2>2, StaysFinal
  <1>3. CASE UNCHANGED jobs
    BY <1>3, StaysFinal
  <1> QED BY <1>1, <1>2, <1>3 DEF LoseJob, Restart, Rerun, RerunEnds, vars

\* Late workers, operators and the reconciler never touch a job that is over,
\* and only the worker that runs a job ends it.
THEOREM VerdictsHold == Spec => VerdictsAreFinal
  <1>1. ASSUME IInv, [Next]_vars, NEW j \in Jobs PROVE FinalStep(j)
    <2>1. CASE \E k \in Jobs : OperatorStep(k)
      BY <1>1, <2>1, OperatorFinal
    <2>2. CASE WorkerStep
      BY <1>1, <2>2, WorkerFinal
    <2>3. CASE Reconcile
      BY <1>1, <2>3, ReconcileFinal
    <2> QED BY <1>1, <2>1, <2>2, <2>3, OtherFinal DEF Next
  <1>2. IInv /\ [Next]_vars =>
          [\A j \in Jobs :
             /\ jobs[j].status \in {"succeeded", "dead_letter"} =>
                  /\ jobs'[j].status = jobs[j].status
                  /\ jobs'[j].goal = jobs[j].goal
             /\ jobs'[j].status \in {"succeeded", "dead_letter"}
                  /\ jobs'[j].status # jobs[j].status =>
                  jobs[j].status = "running" /\ worker.job = j]_vars
    BY <1>1 DEF FinalStep
  <1> QED BY <1>2, Invariance, PTL DEF Spec, VerdictsAreFinal

-----------------------------------------------------------------------------
(* Inbound messages.  A poll may forget what its cursor has passed, because*)
(* that was handled; a socket and a claim of the QQ webhook give a message *)
(* to one handler; and LINE gives up a message only when it was taken.     *)

Known == 1..arrived

InboundTyped ==
  /\ feed \in Feeds /\ arrived \in 0..NumMessages
  /\ cursor \in 0..arrived /\ saved \in 0..arrived
  /\ kept \subseteq Known /\ held \subseteq Known /\ AtWork \subseteq Known
  /\ handling \in [Inbox -> Nat]

\* A poll need not deliver this message again.
Settled(m) == \/ m \in taken \cup failed
              \/ feed = "weixin_oc" /\ \E n \in failed : n <= m

\* What the platform does not deliver again is settled, and what the cursor, in
\* memory or saved, has passed is settled or in the batch at hand.
KeptOrSettled == \A m \in Known : m \in kept \/ Settled(m)
PassedIsAtHand == \A m \in Known : m <= cursor => \/ Settled(m) \/ m \in AtWork
                                                  \/ feed = "weixin_oc" /\ m \in held
SavedIsSettled == \A m \in Known : m <= saved => Settled(m)

\* The batch is handled one message after the other, in its order.
OneByOne ==
  /\ ~ session => held = {} /\ AtWork = {}
  /\ \A m \in Inbox : handling[m] <= 1
  /\ \A m, n \in AtWork : m = n
  /\ \A m \in AtWork, n \in held : m <= n

\* The offset is just before the rest of the batch.
OffsetBefore == feed = "telegram" =>
  \A n \in held : \A m \in Known :
    n > cursor /\ (cursor < m /\ m <= n => Settled(m) \/ m \in held)

PollInv == KeptOrSettled /\ PassedIsAtHand /\ SavedIsSettled /\ OneByOne /\ OffsetBefore

\* A message is with the platform or with a handler until it is dealt with.
HandedOn == \A m \in Known :
  \/ m \in kept \cup AtWork \cup taken \cup failed
  \/ \E why \in Excuses : <<m, why>> \in missed

\* KOOK's number is just before what was not read, so resuming at it skips nothing.
NumberBefore == feed = "kook" => saved = 0 /\ \A m \in kept : m > cursor

\* An event stays claimed while it is handled, and after it went well.
ClaimsBacked == feed = "qq" => \A m \in claims : m \in AtWork \cup taken

InboundIInv ==
  /\ InboundTyped
  /\ feed \in Polled => PollInv
  /\ feed \in Pushed \cup {"qq"} => HandedOn
  /\ ClaimsBacked
  /\ feed = "line" => \A m \in Known : m \in kept \cup taken

USE DEF Polled, Pushed, Resuming, Posted

\* What was let go stays so, and the connector keeps its excuses.
LEMMA MissedStay ==
  ASSUME NEW m, feed' = feed, missed \subseteq missed', \E why \in Excuses : <<m, why>> \in missed
  PROVE  \E why \in Excuses' : <<m, why>> \in missed'
  BY DEF Excuses

LEMMA WorkStarts ==
  ASSUME NEW m \in Inbox, handling \in [Inbox -> Nat], Starts(m)
  PROVE  handling' \in [Inbox -> Nat] /\ AtWork' = AtWork \cup {m}
  BY DEF Starts, AtWork

LEMMA WorkEnds ==
  ASSUME NEW m \in Inbox, handling \in [Inbox -> Nat], handling[m] > 0, Finishes(m)
  PROVE  /\ handling' \in [Inbox -> Nat]
         /\ AtWork' \subseteq AtWork /\ AtWork \ {m} \subseteq AtWork'
         /\ \A n \in Inbox : handling'[n] <= handling[n]
         /\ handling[m] <= 1 => m \notin AtWork'
  BY DEF Finishes, AtWork

LEMMA InboundStart == InboundInit => InboundIInv
  <1> SUFFICES ASSUME InboundInit PROVE InboundIInv
    OBVIOUS
  <1>1. Known = {} /\ AtWork = {} /\ held = {} /\ claims = {}
    BY DEF InboundInit, Known, AtWork
  <1>2. InboundTyped
    BY <1>1, InboundAssumption DEF InboundInit, InboundTyped
  <1>3. PollInv
    BY <1>1 DEF InboundInit, PollInv, KeptOrSettled, PassedIsAtHand, SavedIsSettled, OneByOne,
           OffsetBefore
  <1> QED BY <1>1, <1>2, <1>3 DEF InboundIInv, HandedOn, ClaimsBacked, Excuses

LEMMA ArriveKeeps == ASSUME InboundIInv, Arrive PROVE InboundIInv'
  <1> USE InboundAssumption
  <1>1. /\ arrived \in Nat /\ Known' = Known \cup {arrived + 1} /\ AtWork' = AtWork
        /\ kept' = kept \cup {arrived + 1}
    BY DEF Arrive, Known, AtWork, InboundIInv, InboundTyped
  <1>2. InboundTyped'
    BY <1>1 DEF Arrive, InboundIInv, InboundTyped, Known
  <1>3. cursor < arrived + 1 /\ saved < arrived + 1 /\ \A n \in held : n < arrived + 1
    BY DEF InboundIInv, InboundTyped, Known
  <1>4. ASSUME feed' \in Polled PROVE PollInv'
    <2>1. \A m \in Known : Settled(m)' <=> Settled(m)
      BY DEF Arrive, Settled
    <2> QED BY <1>1, <1>3, <1>4, <2>1 DEF Arrive, InboundIInv, InboundTyped, PollInv,
                   KeptOrSettled, PassedIsAtHand, SavedIsSettled, OneByOne, OffsetBefore, Known
  <1> QED BY <1>1, <1>2, <1>4 DEF Arrive, InboundIInv, HandedOn, ClaimsBacked, Excuses

LEMMA PollKeeps == ASSUME InboundIInv, Poll PROVE InboundIInv'
  <1>1. /\ feed' = feed /\ Known' = Known /\ AtWork' = AtWork /\ handling' = handling
        /\ taken' = taken /\ failed' = failed /\ saved' = saved /\ arrived' = arrived
        /\ session' = TRUE /\ PollInv /\ AtWork = {} /\ held = {}
    BY DEF Poll, Known, AtWork, InboundIInv, PollInv, KeptOrSettled, PassedIsAtHand,
           SavedIsSettled, OneByOne, OffsetBefore
  <1>2. held' = {m \in kept : m > cursor} /\ kept' \subseteq kept
    BY DEF Poll, After, AskedFrom
  <1>3. InboundTyped'
    <2>1. cursor' \in 0..arrived
      BY DEF Poll, MovedBy, InboundIInv, InboundTyped
    <2>2. kept' \subseteq Known /\ held' \subseteq Known
      BY <1>2 DEF InboundIInv, InboundTyped
    <2> QED BY <1>1, <2>1, <2>2 DEF InboundIInv, InboundTyped
  <1>4. \A m \in Known : Settled(m)' <=> Settled(m)
    BY <1>1 DEF Settled
  <1>5. \A m \in Known : m <= cursor => Settled(m)
    BY <1>1 DEF PollInv, KeptOrSettled, PassedIsAtHand, SavedIsSettled, OneByOne, OffsetBefore
  <1>6. CASE feed = "telegram"
    <2>1. cursor' = cursor /\ kept' = {m \in kept : m > cursor}
      BY <1>6 DEF Poll, AskedFrom, MovedBy, After
    <2>2. \A m \in Known : m \in Int /\ (m \in kept' \/ Settled(m))
      BY <1>1, <1>5, <2>1 DEF PollInv, KeptOrSettled, PassedIsAtHand, SavedIsSettled, OneByOne,
             OffsetBefore, InboundIInv, InboundTyped, Known
    <2>3. \A n \in held', m \in Known :
            n > cursor' /\ (cursor' < m /\ m <= n => Settled(m) \/ m \in held')
      BY <1>1, <1>2, <2>1, <2>2 DEF PollInv, KeptOrSettled, PassedIsAtHand, SavedIsSettled,
             OneByOne, OffsetBefore
    <2>4. PollInv'
      BY <1>1, <1>4, <1>5, <2>1, <2>2, <2>3 DEF PollInv, KeptOrSettled, PassedIsAtHand,
             SavedIsSettled, OneByOne, OffsetBefore
    <2> QED BY <1>1, <1>3, <2>4, <1>6 DEF InboundIInv, ClaimsBacked
  <1>7. CASE feed = "weixin_oc"
    <2>1. cursor' = arrived /\ kept' = kept
      BY <1>7 DEF Poll, AskedFrom, MovedBy
    <2>2. \A m \in Known : m > cursor => m \in held' \/ Settled(m)
      BY <1>1, <1>2 DEF PollInv, KeptOrSettled, PassedIsAtHand, SavedIsSettled, OneByOne, OffsetBefore
    <2>3. \A m \in Known : m <= cursor => Settled(m)
      BY <1>5
    <2>4. \A m \in Known : m <= cursor \/ m > cursor
      BY DEF InboundIInv, InboundTyped, Known
    <2>5. PollInv'
      <3>1. KeptOrSettled'
        BY <1>1, <1>4, <1>7, <2>1, <2>2, <2>3, <2>4 DEF PollInv, KeptOrSettled
      <3>2. PassedIsAtHand'
        BY <1>1, <1>4, <1>7, <2>1, <2>2, <2>3, <2>4 DEF PassedIsAtHand
      <3>3. SavedIsSettled'
        BY <1>1, <1>4, <1>7, <2>1, <2>2, <2>3, <2>4 DEF PollInv, SavedIsSettled
      <3>4. OneByOne'
        BY <1>1, <1>4, <1>7, <2>1, <2>2, <2>3, <2>4 DEF PollInv, OneByOne
      <3>5. OffsetBefore'
        BY <1>1, <1>4, <1>7, <2>1, <2>2, <2>3, <2>4 DEF OffsetBefore
      <3> QED BY <3>1, <3>2, <3>3, <3>4, <3>5 DEF PollInv
    <2> QED BY <1>1, <1>3, <2>5, <1>7 DEF InboundIInv, ClaimsBacked
  <1> QED BY <1>6, <1>7 DEF Poll

LEMMA HandleNextKeeps == ASSUME InboundIInv, HandleNext PROVE InboundIInv'
  <1>1. PICK m \in held : /\ \A n \in held : m <= n
                          /\ held' = held \ {m} /\ Starts(m)
                          /\ cursor' = IF feed = "telegram" THEN m ELSE cursor
    BY DEF HandleNext
  <1>2. /\ feed' = feed /\ Known' = Known /\ arrived' = arrived /\ kept' = kept /\ saved' = saved
        /\ taken' = taken /\ failed' = failed /\ session' = session
        /\ AtWork = {} /\ PollInv /\ feed \in Polled
    BY DEF HandleNext, Known, InboundIInv
  <1>3. m \in Known /\ m \in Inbox
    BY InboundAssumption DEF InboundIInv, InboundTyped, Known, Inbox
  <1>4. handling' \in [Inbox -> Nat] /\ AtWork' = {m}
    BY <1>1, <1>2, <1>3, WorkStarts DEF InboundIInv, InboundTyped
  <1>5. InboundTyped'
    BY <1>1, <1>2, <1>3, <1>4 DEF InboundIInv, InboundTyped, Known
  <1>6. \A n \in Known : Settled(n)' <=> Settled(n)
    BY <1>2 DEF Settled
  <1>7. \A n \in Inbox : handling'[n] <= 1
    BY <1>1, <1>2, <1>3 DEF Starts, AtWork, InboundIInv, InboundTyped
  <1>8. session
    BY <1>1, <1>2 DEF PollInv, KeptOrSettled, PassedIsAtHand, SavedIsSettled, OneByOne,
           OffsetBefore, InboundIInv, InboundTyped
  <1>9. PollInv'
    <2>1. ASSUME NEW n \in Known, n <= cursor'
          PROVE  Settled(n) \/ n = m \/ (feed = "weixin_oc" /\ n \in held')
      <3>1. n \in Int /\ m \in Int /\ cursor \in Int
        BY <1>3 DEF InboundIInv, InboundTyped, Known
      <3>2. CASE n <= cursor
        BY <1>1, <1>2, <3>2 DEF PollInv, KeptOrSettled, PassedIsAtHand, SavedIsSettled, OneByOne,
               OffsetBefore
      <3>3. CASE n > cursor
        <4>1. feed = "telegram" /\ n <= m
          BY <1>1, <2>1, <3>1, <3>3
        <4>2. Settled(n) \/ n \in held
          BY <1>1, <1>2, <3>3, <4>1 DEF PollInv, KeptOrSettled, PassedIsAtHand, SavedIsSettled,
                 OneByOne, OffsetBefore
        <4> QED BY <1>1, <3>1, <4>1, <4>2
      <3> QED BY <3>1, <3>2, <3>3
    <2>2. \A n \in held' : m < n /\ m <= n
      BY <1>1, <1>3 DEF InboundIInv, InboundTyped, Known
    <2>3. feed = "telegram" =>
            \A n \in held' : \A k \in Known :
              n > cursor' /\ (cursor' < k /\ k <= n => Settled(k) \/ k \in held')
      BY <1>1, <1>2, <1>3, <2>2 DEF PollInv, KeptOrSettled, PassedIsAtHand, SavedIsSettled,
             OneByOne, OffsetBefore, InboundIInv, InboundTyped, Known
    <2>4. /\ \A n \in Known : n \in kept' \/ Settled(n)
          /\ \A n \in Known : n <= saved' => Settled(n)
          /\ session'
      BY <1>2, <1>8 DEF PollInv, KeptOrSettled, PassedIsAtHand, SavedIsSettled, OneByOne, OffsetBefore
    <2> QED BY <1>2, <1>4, <1>6, <1>7, <2>1, <2>2, <2>3, <2>4 DEF PollInv, KeptOrSettled,
                   PassedIsAtHand, SavedIsSettled, OneByOne, OffsetBefore
  <1> QED BY <1>2, <1>5, <1>9 DEF InboundIInv, ClaimsBacked

LEMMA BatchEndsKeeps == ASSUME InboundIInv, BatchEnds PROVE InboundIInv'
  <1>1. /\ feed' = feed /\ Known' = Known /\ arrived' = arrived /\ cursor' = cursor
        /\ taken' = taken /\ failed' = failed /\ handling' = handling /\ AtWork' = AtWork
        /\ held' = held /\ held = {} /\ AtWork = {} /\ PollInv /\ feed \in Polled
    BY DEF BatchEnds, Known, AtWork, InboundIInv
  <1>2. \A m \in Known : Settled(m)' <=> Settled(m)
    BY <1>1 DEF Settled
  <1>3. \A m \in Known : m <= cursor => Settled(m)
    BY <1>1 DEF PollInv, KeptOrSettled, PassedIsAtHand, SavedIsSettled, OneByOne, OffsetBefore
  <1>4. InboundTyped'
    BY <1>1 DEF BatchEnds, After, InboundIInv, InboundTyped, Known
  <1>5. /\ \A m \in Known : m \in kept' \/ Settled(m)
        /\ \A m \in Known : m <= saved' => Settled(m)
    BY <1>1, <1>3 DEF BatchEnds, After, PollInv, KeptOrSettled, PassedIsAtHand, SavedIsSettled,
           OneByOne, OffsetBefore, InboundIInv, InboundTyped, Known
  <1>6. PollInv'
    BY <1>1, <1>2, <1>3, <1>5 DEF PollInv, KeptOrSettled, PassedIsAtHand, SavedIsSettled,
           OneByOne, OffsetBefore
  <1> QED BY <1>1, <1>4, <1>6 DEF InboundIInv, ClaimsBacked

LEMMA SignedOutKeeps == ASSUME InboundIInv, SignedOut PROVE InboundIInv'
  <1>1. /\ feed' = feed /\ feed = "weixin_oc" /\ Known' = Known /\ arrived' = arrived
        /\ taken' = taken /\ failed' = failed /\ handling' = handling /\ AtWork' = AtWork
        /\ held' = held /\ held = {} /\ AtWork = {} /\ PollInv /\ kept' = kept
        /\ cursor' = 0 /\ saved' \in {0, saved} /\ session' = session /\ ~ session
    BY DEF SignedOut, Known, AtWork, InboundIInv, PollInv, KeptOrSettled, PassedIsAtHand,
           SavedIsSettled, OneByOne, OffsetBefore
  <1>2. \A m \in Known : Settled(m)' <=> Settled(m)
    BY <1>1 DEF Settled
  <1>3. InboundTyped'
    BY <1>1 DEF InboundIInv, InboundTyped, Known
  <1>4. PollInv'
    BY <1>1, <1>2 DEF PollInv, KeptOrSettled, PassedIsAtHand, SavedIsSettled, OneByOne,
           OffsetBefore, InboundIInv, InboundTyped, Known
  <1> QED BY <1>1, <1>3, <1>4 DEF InboundIInv, ClaimsBacked

LEMMA ConnectKeeps == ASSUME InboundIInv, NumberBefore, Connect PROVE InboundIInv'
  <1>1. /\ feed' = feed /\ feed \in Pushed /\ Known' = Known /\ arrived' = arrived
        /\ AtWork' = AtWork /\ handling' = handling /\ held' = held /\ saved' = saved
        /\ cursor' = cursor /\ kept' = kept \ Skipped /\ missed \subseteq missed'
        /\ taken' = taken /\ failed' = failed /\ claims' = claims
    BY DEF Connect, Known, AtWork
  <1>2. InboundTyped'
    BY <1>1 DEF InboundIInv, InboundTyped, Known
  <1>3. ASSUME Resumes PROVE HandedOn'
    <2>1. Skipped = {m \in kept : ~ (m > cursor)}
      BY <1>3 DEF Skipped, After, Resumes
    <2>2. missed' = missed \cup (Skipped \X {"ahead"})
      BY <1>3 DEF Connect
    <2>3. \A m \in Skipped : "ahead" \in Excuses' /\ <<m, "ahead">> \in missed'
      BY <1>1, <1>3, <2>1, <2>2 DEF Resumes, NumberBefore, Excuses
    <2> QED BY <1>1, <2>3, MissedStay DEF HandedOn, InboundIInv
  <1>4. ASSUME ~ Resumes PROVE HandedOn'
    <2>1. missed' = missed \cup (Skipped \X {"fresh"}) /\ (Skipped # {} => feed \in Resuming)
      BY <1>1, <1>4 DEF Connect, Skipped
    <2>2. \A m \in Skipped : "fresh" \in Excuses' /\ <<m, "fresh">> \in missed'
      BY <1>1, <2>1 DEF Excuses
    <2> QED BY <1>1, <2>2, MissedStay DEF HandedOn, InboundIInv
  <1> QED BY <1>1, <1>2, <1>3, <1>4 DEF InboundIInv, ClaimsBacked

LEMMA TellNumberKeeps == ASSUME InboundIInv, TellNumber PROVE InboundIInv'
  <1>1. AtWork' = AtWork /\ Known' = Known /\ cursor' \in 0..arrived /\ Excuses' = Excuses
    BY DEF TellNumber, AtWork, Known, Excuses, InboundIInv, InboundTyped
  <1> QED BY <1>1 DEF TellNumber, InboundIInv, InboundTyped, HandedOn, ClaimsBacked, Excuses

LEMMA ReadKeeps == ASSUME InboundIInv, Read PROVE InboundIInv'
  <1>1. PICK m \in kept : /\ kept' = kept \ {m} /\ Starts(m)
                          /\ cursor' = IF feed \in Resuming THEN m ELSE cursor
    BY DEF Read
  <1>2. m \in Known /\ m \in Inbox
    BY InboundAssumption DEF InboundIInv, InboundTyped, Known, Inbox
  <1>3. handling' \in [Inbox -> Nat] /\ AtWork' = AtWork \cup {m}
    BY <1>1, <1>2, WorkStarts DEF InboundIInv, InboundTyped
  <1>4. InboundTyped'
    BY <1>1, <1>2, <1>3 DEF Read, InboundIInv, InboundTyped, Known
  <1>5. HandedOn'
    BY <1>1, <1>3 DEF Read, HandedOn, Excuses, InboundIInv, Known
  <1> QED BY <1>4, <1>5 DEF Read, InboundIInv, ClaimsBacked

LEMMA DisconnectKeeps == ASSUME InboundIInv, Disconnect PROVE InboundIInv'
  <1>1. AtWork' = AtWork /\ Known' = Known
    BY DEF Disconnect, AtWork, Known
  <1> QED BY <1>1 DEF Disconnect, InboundIInv, InboundTyped, HandedOn, ClaimsBacked, Excuses

LEMMA PostKeeps == ASSUME InboundIInv, NEW m \in Inbox, Post(m) PROVE InboundIInv'
  <1>1. /\ feed' = feed /\ feed \in Posted /\ Known' = Known /\ arrived' = arrived
        /\ held' = held /\ saved' = saved /\ cursor' = cursor /\ session' = session
        /\ taken' = taken /\ failed' = failed /\ missed' = missed /\ m \in kept
    BY DEF Post, Known
  <1>2. CASE Claimed(m)
    <2>1. /\ feed = "qq" /\ m \in claims /\ kept' = kept \ {m}
          /\ handling' = handling /\ AtWork' = AtWork /\ claims' = claims
      BY <1>2 DEF Post, Claimed, AtWork
    <2> QED BY <1>1, <2>1 DEF InboundIInv, InboundTyped, HandedOn, ClaimsBacked, Excuses
  <1>3. CASE ~ Claimed(m)
    <2>1. /\ Starts(m) /\ kept' = kept
          /\ claims' = IF feed = "qq" THEN claims \cup {m} ELSE claims
      BY <1>3 DEF Post
    <2>2. handling' \in [Inbox -> Nat] /\ AtWork' = AtWork \cup {m}
      BY <2>1, WorkStarts DEF InboundIInv, InboundTyped
    <2> QED BY <1>1, <2>1, <2>2 DEF InboundIInv, InboundTyped, HandedOn, ClaimsBacked, Excuses
  <1> QED BY <1>2, <1>3

LEMMA ClaimExpiresKeeps == ASSUME InboundIInv, NEW m \in Inbox, ClaimExpires(m) PROVE InboundIInv'
  <1>1. AtWork' = AtWork /\ Known' = Known /\ \A n \in Inbox : Settled(n)' <=> Settled(n)
    BY DEF ClaimExpires, AtWork, Known, Settled
  <1>2. PollInv => PollInv'
    BY DEF ClaimExpires, PollInv, KeptOrSettled, PassedIsAtHand, SavedIsSettled, OneByOne,
           OffsetBefore, Settled, AtWork, Known
  <1> QED BY <1>1, <1>2 DEF ClaimExpires, InboundIInv, InboundTyped, HandedOn, ClaimsBacked, Excuses

\* The handling of m is over, and m is known.
LEMMA HandledIsKnown ==
  ASSUME InboundIInv, NEW m \in Inbox, handling[m] > 0
  PROVE  m \in AtWork /\ m \in Known
  BY DEF InboundIInv, InboundTyped, AtWork

LEMMA AcceptedKeeps == ASSUME InboundIInv, NEW m \in Inbox, Accepted(m) PROVE InboundIInv'
  <1>1. /\ feed' = feed /\ Known' = Known /\ arrived' = arrived /\ held' = held
        /\ saved' = saved /\ cursor' = cursor /\ session' = session /\ claims' = claims
        /\ failed' = failed /\ missed' = missed /\ taken' = taken \cup {m}
        /\ handling[m] > 0 /\ Finishes(m)
        /\ kept' = IF feed \in Posted THEN kept \ {m} ELSE kept
    BY DEF Accepted, AnsweredWell, Known
  <1>2. m \in AtWork /\ m \in Known
    BY <1>1, HandledIsKnown
  <1>3. /\ handling' \in [Inbox -> Nat]
        /\ AtWork' \subseteq AtWork /\ AtWork \ {m} \subseteq AtWork'
        /\ \A n \in Inbox : handling'[n] <= handling[n]
    BY <1>1, WorkEnds DEF InboundIInv, InboundTyped
  <1>4. InboundTyped'
    BY <1>1, <1>3 DEF InboundIInv, InboundTyped
  <1>5. \A n \in Known : (Settled(n) => Settled(n)') /\ Settled(m)'
    BY <1>1 DEF Settled
  <1>6. ASSUME feed \in Polled PROVE PollInv'
    <2>1. PollInv /\ kept' = kept
      BY <1>1, <1>6 DEF InboundIInv
    <2>2. \A n \in Inbox : handling'[n] <= 1
      BY <1>3, <2>1 DEF PollInv, KeptOrSettled, PassedIsAtHand, SavedIsSettled, OneByOne,
             OffsetBefore, InboundIInv, InboundTyped
    <2> QED BY <1>1, <1>3, <1>5, <2>1, <2>2 DEF PollInv, KeptOrSettled, PassedIsAtHand,
                   SavedIsSettled, OneByOne, OffsetBefore
  <1> QED BY <1>1, <1>3, <1>4, <1>6 DEF InboundIInv, HandedOn, ClaimsBacked, Excuses

LEMMA RejectedKeeps == ASSUME InboundIInv, NEW m \in Inbox, Rejected(m) PROVE InboundIInv'
  <1>1. /\ feed' = feed /\ Known' = Known /\ arrived' = arrived /\ held' = {} /\ kept' = kept
        /\ saved' = saved /\ cursor' = cursor /\ session' = FALSE /\ claims' = claims \ {m}
        /\ failed' = failed \cup {m} /\ missed' = missed /\ taken' = taken
        /\ handling[m] > 0 /\ Finishes(m)
    BY DEF Rejected, AnsweredBadly, ClaimsLeft, Known
  <1>2. m \in AtWork /\ m \in Known
    BY <1>1, HandledIsKnown
  <1>3. /\ handling' \in [Inbox -> Nat]
        /\ AtWork' \subseteq AtWork /\ AtWork \ {m} \subseteq AtWork'
        /\ \A n \in Inbox : handling'[n] <= handling[n]
        /\ handling[m] <= 1 => m \notin AtWork'
    BY <1>1, WorkEnds DEF InboundIInv, InboundTyped
  <1>4. InboundTyped'
    BY <1>1, <1>3 DEF InboundIInv, InboundTyped
  <1>5. ASSUME feed \in Polled PROVE PollInv'
    <2>1. PollInv
      BY <1>5 DEF InboundIInv
    <2>2. AtWork = {m} /\ AtWork' = {}
      BY <1>2, <1>3, <2>1 DEF PollInv, KeptOrSettled, PassedIsAtHand, SavedIsSettled, OneByOne,
             OffsetBefore
    <2>3. \A n \in Inbox : handling'[n] <= 1
      BY <1>3, <2>1 DEF PollInv, KeptOrSettled, PassedIsAtHand, SavedIsSettled, OneByOne,
             OffsetBefore, InboundIInv, InboundTyped
    <2>4. \A n \in Known : (Settled(n) => Settled(n)') /\ Settled(m)'
      BY <1>1 DEF Settled
    <2>5. feed = "weixin_oc" => \A n \in held : Settled(n)'
      BY <1>1, <1>2, <2>1 DEF PollInv, KeptOrSettled, PassedIsAtHand, SavedIsSettled, OneByOne,
             OffsetBefore, Settled
    <2>6. /\ \A n \in Known : n \in kept \/ Settled(n)'
          /\ \A n \in Known : n <= cursor => Settled(n)'
          /\ \A n \in Known : n <= saved => Settled(n)'
      BY <1>2, <2>1, <2>2, <2>4, <2>5 DEF PollInv, KeptOrSettled, PassedIsAtHand, SavedIsSettled,
             OneByOne, OffsetBefore
    <2>7. KeptOrSettled'
      BY <1>1, <2>2, <2>3, <2>6 DEF KeptOrSettled
    <2>8. PassedIsAtHand'
      BY <1>1, <2>2, <2>3, <2>6 DEF PassedIsAtHand
    <2>9. SavedIsSettled'
      BY <1>1, <2>2, <2>3, <2>6 DEF SavedIsSettled
    <2>10. OneByOne'
      BY <1>1, <2>2, <2>3, <2>6 DEF OneByOne
    <2>11. OffsetBefore'
      BY <1>1, <2>2, <2>3, <2>6 DEF OffsetBefore
    <2> QED BY <2>7, <2>8, <2>9, <2>10, <2>11 DEF PollInv
  <1> QED BY <1>1, <1>3, <1>4, <1>5 DEF InboundIInv, HandedOn, ClaimsBacked, Excuses

LEMMA RestartInboundKeeps == ASSUME InboundIInv, RestartInbound PROVE InboundIInv'
  <1>1. /\ feed' = feed /\ Known' = Known /\ arrived' = arrived /\ held' = {} /\ kept' = kept
        /\ saved' = saved /\ cursor' = saved /\ session' = FALSE /\ claims' = {}
        /\ failed' = failed /\ taken' = taken /\ missed' = missed \cup ((AtWork \ kept) \X {"restart"})
        /\ handling' = [n \in Inbox |-> 0]
    BY DEF RestartInbound, Known
  <1>2. AtWork' = {}
    BY <1>1 DEF AtWork
  <1>3. InboundTyped'
    BY <1>1, <1>2 DEF InboundIInv, InboundTyped
  <1>4. \A n \in Known : Settled(n)' <=> Settled(n)
    BY <1>1 DEF Settled
  <1>5. ASSUME PollInv PROVE PollInv'
    <2>1. /\ \A n \in Known : n \in kept \/ Settled(n)'
          /\ \A n \in Known : n <= saved => Settled(n)'
      BY <1>4, <1>5 DEF PollInv, KeptOrSettled, PassedIsAtHand, SavedIsSettled, OneByOne, OffsetBefore
    <2>2. \A n \in Inbox : handling'[n] <= 1
      BY <1>1
    <2>3. KeptOrSettled'
      BY <1>1, <1>2, <2>1, <2>2 DEF KeptOrSettled
    <2>4. PassedIsAtHand'
      BY <1>1, <1>2, <2>1, <2>2 DEF PassedIsAtHand
    <2>5. SavedIsSettled'
      BY <1>1, <1>2, <2>1, <2>2 DEF SavedIsSettled
    <2>6. OneByOne'
      BY <1>1, <1>2, <2>1, <2>2 DEF OneByOne
    <2>7. OffsetBefore'
      BY <1>1, <1>2, <2>1, <2>2 DEF OffsetBefore
    <2> QED BY <2>3, <2>4, <2>5, <2>6, <2>7 DEF PollInv
  <1>6. \A n \in AtWork : n \in kept \/ <<n, "restart">> \in missed'
    BY <1>1
  <1>7. HandedOn => HandedOn'
    BY <1>1, <1>6, MissedStay DEF HandedOn, Excuses
  <1> QED BY <1>1, <1>2, <1>3, <1>5, <1>7 DEF InboundIInv, ClaimsBacked

\* A message that is read is the next one, and its number becomes KOOK's.
LEMMA NumberStep ==
  ASSUME InboundIInv, NumberBefore, [InboundNext]_inboundVars
  PROVE  NumberBefore'
  <1> SUFFICES ASSUME feed' = "kook" PROVE saved' = 0 /\ \A n \in kept' : n > cursor'
    BY DEF NumberBefore
  <1>1. feed = "kook"
    BY DEF InboundNext, inboundVars, Arrive, Poll, HandleNext, BatchEnds, SignedOut, Connect,
           TellNumber, Read, Disconnect, Post, ClaimExpires, Accepted, Rejected, RestartInbound
  <1>2. /\ saved = 0 /\ \A n \in kept : n > cursor
        /\ arrived \in Nat /\ cursor \in 0..arrived /\ kept \subseteq 1..arrived
    BY <1>1 DEF NumberBefore, InboundIInv, InboundTyped, Known
  <1>3. CASE Arrive
    BY <1>2, <1>3 DEF Arrive
  <1>4. CASE Read
    <2>1. PICK m \in kept : /\ \A n \in kept : m <= n
                            /\ kept' = kept \ {m} /\ cursor' = m
      BY <1>1, <1>4 DEF Read
    <2> QED BY <1>2, <1>4, <2>1 DEF Read
  <1>5. CASE Disconnect
    BY <1>2, <1>5 DEF Disconnect
  <1>6. CASE RestartInbound
    BY <1>2, <1>6 DEF RestartInbound
  <1>7. CASE Connect \/ UNCHANGED inboundVars \/ \E m \in Inbox : ClaimExpires(m) \/ Accepted(m) \/ Rejected(m)
    <2>1. saved' = saved /\ cursor' = cursor /\ kept' \subseteq kept
      BY <1>7 DEF Connect, inboundVars, ClaimExpires, Accepted, AnsweredWell, Rejected,
                  AnsweredBadly
    <2> QED BY <1>2, <2>1
  <1>8. ~ (Poll \/ HandleNext \/ BatchEnds \/ SignedOut \/ TellNumber \/ \E m \in Inbox : Post(m))
    BY <1>1 DEF Poll, HandleNext, BatchEnds, SignedOut, TellNumber, Post
  <1> QED BY <1>3, <1>4, <1>5, <1>6, <1>7, <1>8 DEF InboundNext

LEMMA InboundStep ==
  InboundIInv /\ NumberBefore /\ [InboundNext]_inboundVars => (InboundIInv /\ NumberBefore)'
  <1> SUFFICES ASSUME InboundIInv, NumberBefore, [InboundNext]_inboundVars PROVE InboundIInv'
    BY NumberStep
  <1>1. CASE UNCHANGED inboundVars
    BY <1>1 DEF inboundVars, InboundIInv, InboundTyped, PollInv, KeptOrSettled, PassedIsAtHand,
           SavedIsSettled, OneByOne, OffsetBefore, Settled, HandedOn, ClaimsBacked, Excuses,
                Known, AtWork
  <1>2. CASE InboundNext
    BY <1>2, ArriveKeeps, PollKeeps, HandleNextKeeps, BatchEndsKeeps, SignedOutKeeps,
       ConnectKeeps, TellNumberKeeps, ReadKeeps, DisconnectKeeps, PostKeeps, ClaimExpiresKeeps, AcceptedKeeps,
       RejectedKeeps, RestartInboundKeeps DEF InboundNext
  <1> QED BY <1>1, <1>2

\* Whatever fails, a message is with the platform, with a handler, or dealt
\* with in the way of its connector.
THEOREM InboundInvariance == InboundSpec => []InboundIInv
  <1>1. InboundInit => NumberBefore
    BY DEF InboundInit, NumberBefore
  <1> QED BY <1>1, InboundStart, InboundStep, PTL DEF InboundSpec

\* The messages that may be lost between a platform and
\* acceptNativePlatformInbound are those LossesExplained names, for any number
\* of messages, connections, failures and restarts.
THEOREM OnlyExplainedLosses == InboundSpec => []LossesExplained
  <1>1. InboundIInv => LossesExplained
    <2> SUFFICES ASSUME InboundIInv, NEW m \in Inbox, Lost(m)
                 PROVE  /\ feed = "telegram" => m \in failed
                        /\ feed = "weixin_oc" => \E n \in failed : n <= m
                        /\ feed \in Pushed \cup {"qq"} =>
                             m \in failed \/ \E why \in Excuses : <<m, why>> \in missed
                        /\ feed # "line"
      BY InboundAssumption DEF LossesExplained, InboundIInv, InboundTyped
    <2>1. m \in Known /\ m \notin kept \cup AtWork \cup taken /\ m <= m
      BY InboundAssumption DEF Lost, Known, Inbox, InboundIInv, InboundTyped
    <2> QED BY <2>1 DEF InboundIInv, PollInv, KeptOrSettled, PassedIsAtHand, SavedIsSettled,
                   OneByOne, OffsetBefore, Settled, HandedOn
  <1> QED BY <1>1, InboundInvariance, PTL

\* A handler at a time, but for webhooks.
OneAtWork == feed \notin Posted =>
  /\ \A m, n \in AtWork : m = n
  /\ \A m \in Inbox : handling[m] <= 1
InboundShape ==
  /\ session \in BOOLEAN /\ errors \in 0..MaxErrors /\ handling \in [Inbox -> 0..2]
  /\ claims \subseteq Known /\ taken \subseteq Known /\ failed \subseteq Known
  /\ missed \subseteq Known \X {"restart", "fresh", "ahead"}
  /\ OneAtWork

LEMMA FirstHandler ==
  ASSUME InboundIInv, InboundShape, NEW m \in Inbox, Starts(m),
         feed' = feed, feed \notin Posted => AtWork = {},
         feed \in Posted => handling[m] < 2
  PROVE  handling' \in [Inbox -> 0..2] /\ OneAtWork'
  <1>1. handling \in [Inbox -> 0..2]
    BY DEF InboundShape
  <1>2. handling[m] + 1 \in 0..2
    BY <1>1 DEF AtWork
  <1>3. handling' = [handling EXCEPT ![m] = handling[m] + 1]
    BY DEF Starts
  <1>4. handling' \in [Inbox -> 0..2]
    BY <1>1, <1>2, <1>3
  <1>5. ASSUME feed \notin Posted PROVE OneAtWork'
    <2>1. \A n \in Inbox : handling[n] = 0
      BY <1>1, <1>5 DEF AtWork
    <2>2. \A n \in Inbox : handling'[n] = IF n = m THEN 1 ELSE 0
      BY <1>1, <1>3, <2>1
    <2> QED BY <2>2 DEF OneAtWork, AtWork
  <1> QED BY <1>4, <1>5 DEF OneAtWork

LEMMA OneHandlerLess ==
  ASSUME InboundIInv, InboundShape, NEW m \in Inbox, handling[m] > 0, Finishes(m), feed' = feed
  PROVE  handling' \in [Inbox -> 0..2] /\ OneAtWork'
  <1>1. handling \in [Inbox -> 0..2] /\ handling[m] - 1 \in 0..2
    BY DEF InboundShape
  <1>2. handling' \in [Inbox -> 0..2]
    BY <1>1 DEF Finishes
  <1>3. \A n \in Inbox : handling'[n] <= handling[n]
    BY <1>1 DEF Finishes
  <1> QED BY <1>1, <1>2, <1>3 DEF OneAtWork, AtWork, InboundShape

LEMMA ErrorsBounded == InboundShape /\ Error => errors' \in 0..MaxErrors
  BY InboundAssumption DEF InboundShape, Error

LEMMA ShapeStep == ASSUME InboundIInv, InboundShape, [InboundNext]_inboundVars PROVE InboundShape'
  <1> USE InboundAssumption
  <1>0. kept \subseteq Known /\ held \subseteq Known /\ AtWork \subseteq Known /\ Known \subseteq Inbox
        /\ arrived \in Nat /\ NumMessages \in Nat
    BY DEF InboundIInv, InboundTyped, Known, Inbox
  <1>1. CASE Arrive \/ Poll \/ BatchEnds \/ SignedOut \/ Disconnect \/ Connect \/ TellNumber
               \/ UNCHANGED inboundVars \/ \E m \in Inbox : ClaimExpires(m)
    <2>1. handling' = handling /\ AtWork' = AtWork /\ feed' = feed
      BY <1>1 DEF Arrive, Poll, BatchEnds, SignedOut, Connect, TellNumber, Disconnect,
                  ClaimExpires, inboundVars, AtWork
    <2>2. Known \subseteq Known' /\ taken' = taken /\ failed' = failed
      BY <1>0, <1>1 DEF Arrive, Poll, BatchEnds, SignedOut, Connect, TellNumber, Disconnect,
                  ClaimExpires, inboundVars, Known
    <2>3. session' \in BOOLEAN /\ (errors' = errors \/ Error) /\ claims' \subseteq claims
      BY <1>1 DEF Arrive, Poll, BatchEnds, SignedOut, Connect, TellNumber, Disconnect,
                  ClaimExpires, inboundVars, InboundShape
    <2>4. missed' \subseteq missed \cup (kept \X {"fresh", "ahead"})
      BY <1>1 DEF Arrive, Poll, BatchEnds, SignedOut, Connect, TellNumber, Disconnect,
                  ClaimExpires, inboundVars, Skipped
    <2> QED BY <1>0, <2>1, <2>2, <2>3, <2>4, ErrorsBounded DEF InboundShape, OneAtWork
  <1>2. CASE HandleNext \/ Read
    <2>1. PICK m \in Known : Starts(m)
      BY <1>0, <1>2 DEF HandleNext, Read
    <2>2. AtWork = {} /\ feed' = feed /\ feed \notin Posted
      BY <1>2 DEF HandleNext, Read
    <2>3. handling' \in [Inbox -> 0..2] /\ OneAtWork'
      BY <1>0, <2>1, <2>2, FirstHandler
    <2> QED BY <1>2, <2>3 DEF HandleNext, Read, InboundShape, Known
  <1>3. ASSUME NEW m \in Inbox, Post(m) PROVE InboundShape'
    <2>1. CASE Claimed(m)
      BY <1>3, <2>1 DEF Post, InboundShape, Known, OneAtWork, AtWork
    <2>2. CASE ~ Claimed(m)
      <3>1. handling' \in [Inbox -> 0..2] /\ OneAtWork'
        BY <1>3, <2>2, FirstHandler DEF Post
      <3> QED BY <1>0, <1>3, <2>2, <3>1 DEF Post, InboundShape, Known
    <2> QED BY <2>1, <2>2
  <1>4. ASSUME NEW m \in Inbox, Accepted(m) PROVE InboundShape'
    <2>1. m \in Known
      BY <1>0, <1>4 DEF AtWork, Accepted
    <2>2. handling' \in [Inbox -> 0..2] /\ OneAtWork'
      BY <1>4, OneHandlerLess DEF Accepted
    <2> QED BY <1>4, <2>1, <2>2 DEF Accepted, InboundShape, Known
  <1>5. ASSUME NEW m \in Inbox, Rejected(m) PROVE InboundShape'
    <2>1. m \in Known
      BY <1>0, <1>5 DEF AtWork, Rejected
    <2>2. handling' \in [Inbox -> 0..2] /\ OneAtWork'
      <3>1. handling[m] > 0 /\ Finishes(m) /\ feed' = feed
        BY <1>5 DEF Rejected
      <3> QED BY <3>1, OneHandlerLess
    <2>3. errors' \in 0..MaxErrors
      BY <1>5, ErrorsBounded DEF Rejected
    <2> QED BY <1>5, <2>1, <2>2, <2>3 DEF Rejected, ClaimsLeft, InboundShape, Known
  <1>6. CASE RestartInbound
    <2>1. handling' = [m \in Inbox |-> 0]
      BY <1>6 DEF RestartInbound
    <2>2. OneAtWork' /\ handling' \in [Inbox -> 0..2]
      BY <2>1 DEF OneAtWork, AtWork
    <2>3. errors' \in 0..MaxErrors
      BY <1>6, ErrorsBounded DEF RestartInbound
    <2> QED BY <1>0, <1>6, <2>2, <2>3 DEF RestartInbound, InboundShape, Known
  <1> QED BY <1>1, <1>2, <1>3, <1>4, <1>5, <1>6 DEF InboundNext

LEMMA ShapeIsType == ASSUME InboundIInv, InboundShape PROVE InboundTypeOK
  <1> USE InboundAssumption
  <1>1. feed \notin Posted => Cardinality(AtWork) <= 1
    <2>1. CASE AtWork = {}
      BY <2>1, FS_EmptySet
    <2>2. CASE AtWork # {} /\ feed \notin Posted
      <3>1. PICK m \in AtWork : AtWork = {m}
        BY <2>2 DEF InboundShape, OneAtWork
      <3>2. Cardinality({m}) = 1
        BY FS_Singleton
      <3> QED BY <3>1, <3>2
    <2> QED BY <2>1, <2>2
  <1>2. cursor \in 0..NumMessages /\ saved \in 0..NumMessages
    BY DEF InboundIInv, InboundTyped
  <1> QED BY <1>1, <1>2 DEF InboundTypeOK, InboundIInv, InboundTyped, InboundShape, OneAtWork,
                           Known, AtWork

\* What was read, claimed and dealt with has arrived, and only webhooks handle
\* two messages, or one twice, at once.
THEOREM InboundTypes == InboundSpec => []InboundTypeOK
  <1>1. ASSUME InboundInit PROVE InboundShape
    <2>1. OneAtWork /\ handling \in [Inbox -> 0..2]
      BY <1>1 DEF InboundInit, OneAtWork, AtWork
    <2>2. 0 \in 0..MaxErrors
      BY InboundAssumption
    <2> QED BY <1>1, <2>1, <2>2 DEF InboundInit, InboundShape, Known
  <1>2. InboundIInv /\ InboundShape /\ [InboundNext]_inboundVars => InboundShape'
    BY ShapeStep
  <1>3. InboundIInv /\ InboundShape => InboundTypeOK
    BY ShapeIsType
  <1> QED BY <1>1, <1>2, <1>3, InboundInvariance, PTL DEF InboundSpec
=============================================================================
