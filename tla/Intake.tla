------------------------------- MODULE Intake --------------------------------
(***************************************************************************)
(* How the messages of a group become runs: the calls that take events in  *)
(* (acceptTransportEventWithTrust) fold the queued messages of a member    *)
(* into the newest, and let one unasked reply at a time through.  A call   *)
(* is several statements and one transaction, so calls interleave with     *)
(* each other and with the workers; an event may be delivered to the       *)
(* runtime more than once.  A run is named by its event, agent_runs having *)
(* one row for each.  What becomes of a run after its claim is Outbox.     *)
(***************************************************************************)
EXTENDS Integers, FiniteSets, FiniteSetsExt

CONSTANTS
  Events,       \* messages of one group conversation
  SenderOf,     \* event -> member
  Addressed,    \* events that wake or mention the agent
  Unasked,      \* events the agent may join in of its own accord
  Pings,        \* events without content of their own ("are you there")
  BatchSize,    \* smartMaxBatchSize: messages answered by one run
  Calls,        \* concurrent calls
  MaxCopies,    \* bound: deliveries of one event to the runtime
  MaxMishaps,   \* bound: failed inserts, restarts, retries, slow runs
  NoCall, NoEvent

ASSUME IntakeAssumption ==
  /\ IsFiniteSet(Events) /\ IsFiniteSet(Calls)
  /\ Addressed \subseteq Events /\ Unasked \subseteq Events \ Addressed
  /\ Pings \subseteq Events
  /\ BatchSize \in Nat \ {0} /\ MaxCopies \in Nat /\ MaxMishaps \in Nat
  /\ NoCall \notin Calls /\ NoEvent \notin Events

VARIABLES
  turns,   \* agent_runs: state, created_at, the events whose text the run
           \* carries; whether updated_at is ten minutes old, or has been, and
           \* whether an operator queued it a second time
  calls,   \* where each call is, its created_at, the siblings it still has
           \* to cancel and the texts it took over
  busy,    \* participationMu
  due,     \* event -> deliveries still to come
  redelivered, \* whether an event came again while it was being taken in
  mishaps

intakeVars == <<turns, calls, busy, due, redelivered, mishaps>>

NoTurn == [state |-> "absent", born |-> 0, texts |-> {}, slow |-> FALSE,
           late |-> FALSE, again |-> FALSE]

Away == [step |-> "idle", event |-> NoEvent, born |-> 0, siblings |-> {}, texts |-> {}]

\* The tables and the calls have their shape, a call that waits at the gate
\* or beyond it has an event, and the mutex belongs to a call that is inside.
IntakeTypeOK ==
  /\ turns \in [Events -> [state : {"absent", "queued", "running", "responding",
                                    "dropped", "folded"},
                           born : Nat, texts : SUBSET Events, slow : BOOLEAN,
                           late : BOOLEAN, again : BOOLEAN]]
  /\ calls \in [Calls -> [step : {"idle", "fold", "cancel", "gate", "stamp", "insert"},
                          event : Events \cup {NoEvent}, born : Nat,
                          siblings : SUBSET Events, texts : SUBSET Events]]
  /\ busy \in Calls \cup {NoCall}
  /\ due \in [Events -> 0..MaxCopies] /\ redelivered \in BOOLEAN /\ mishaps \in 0..MaxMishaps
  /\ \A c \in Calls : (calls[c].step = "idle") <=> (calls[c].event = NoEvent)
  /\ busy # NoCall => calls[busy].step \in {"stamp", "insert"}

IntakeStart(deliveries) ==
  /\ turns = [e \in Events |-> NoTurn]
  /\ calls = [c \in Calls |-> Away]
  /\ busy = NoCall
  /\ due = deliveries
  /\ redelivered = FALSE
  /\ mishaps = 0

IntakeInit == \E deliveries \in [Events -> 0..MaxCopies] : IntakeStart(deliveries)

Mishap == mishaps < MaxMishaps /\ mishaps' = mishaps + 1

InState(S) == {e \in Events : turns[e].state \in S}

-----------------------------------------------------------------------------
(* Taking an event in.                                                     *)

CallAt(c, step) == calls[c].step = step
Goes(c, step) == calls' = [calls EXCEPT ![c].step = step]

\* Unasked messages have to pass the gate.
Onward(e) == IF e \in Unasked THEN "gate" ELSE "stamp"

FirstStepsMerging(e) == {"fold", Onward(e)}
\* Addressed messages fold their siblings in, unless they steer a task.
FirstSteps(e) == {Onward(e)} \cup IF e \in Addressed THEN {"fold"} ELSE {}

\* An event arrives; one that has its run is answered from the table.
Receive(c, e) ==
  /\ CallAt(c, "idle") /\ due[e] > 0
  /\ due' = [due EXCEPT ![e] = @ - 1]
  /\ redelivered' = (redelivered \/ \E d \in Calls : calls[d].event = e)
  /\ IF turns[e].state # "absent" THEN UNCHANGED calls
     ELSE \E step \in FirstSteps(e) :
            calls' = [calls EXCEPT ![c] = [Away EXCEPT !.step = step, !.event = e]]
  /\ UNCHANGED <<turns, busy, mishaps>>

\* No word of the run but a ping, which nobody has to answer.
Trifling(s) == turns[s].texts \subseteq Pings

\* The queued runs of e's member that are younger than thirty seconds, and
\* of those that say something as many as the batch allows, oldest first.
Siblings(e, since) ==
  LET queued == {s \in InState({"queued"}) : SenderOf[s] = SenderOf[e] /\ turns[s].born > since}
      wordy  == {s \in queued : ~ Trifling(s)}
  IN [pings |-> queued \ wordy,
      wordy |-> {s \in wordy : Cardinality({t \in wordy : turns[t].born < turns[s].born}) < BatchSize - 1}]

\* The SELECT of the burst.  Pings are left alone when e itself is short.
Gather(c) ==
  /\ CallAt(c, "fold")
  /\ \E since \in 0..Cardinality(Events), short \in BOOLEAN :
       LET found == Siblings(calls[c].event, since) IN
       /\ short => calls[c].event \notin Pings
       /\ calls' = [calls EXCEPT ![c].step = "cancel",
                      ![c].siblings = found.wordy \cup IF short THEN {} ELSE found.pings]
  /\ UNCHANGED <<turns, busy, due, redelivered, mishaps>>

\* The state guard of the UPDATE: a worker may have claimed s since.
Foldable(s) == turns[s].state = "queued"

TakesOverUnchecked(s) == ~ Trifling(s)
\* Only text that was really cancelled is taken over.
TakesOver(s) == Foldable(s) /\ ~ Trifling(s)

\* Cancels the next sibling; its text moves into the hands of the call.
Fold(c) ==
  /\ CallAt(c, "cancel")
  /\ \E s \in calls[c].siblings :
       /\ \A t \in calls[c].siblings : turns[t].born >= turns[s].born
       /\ calls' = [calls EXCEPT ![c].siblings = @ \ {s},
                      ![c].texts = IF TakesOver(s) THEN @ \cup turns[s].texts ELSE @]
       /\ turns' = IF Foldable(s) THEN [turns EXCEPT ![s].state = "folded", ![s].slow = FALSE]
                   ELSE turns
  /\ UNCHANGED <<busy, due, redelivered, mishaps>>

FoldDone(c) ==
  /\ CallAt(c, "cancel") /\ calls[c].siblings = {}
  /\ Goes(c, Onward(calls[c].event))
  /\ UNCHANGED <<turns, busy, due, redelivered, mishaps>>

\* What the gate counts, runs nobody has touched for ten minutes left out.
InFlight == {e \in InState({"queued", "running", "responding"}) : ~ turns[e].slow}

FreeGate(c) == UNCHANGED busy
HeldGate(c) == busy' = c

\* The gate of unasked replies, under a mutex that is held until the call
\* returns.  A reply that is still recent turns the event away too.
EnterGate(c) ==
  /\ CallAt(c, "gate") /\ busy = NoCall
  /\ InFlight = {}
  /\ HeldGate(c) /\ Goes(c, "stamp")
  /\ UNCHANGED <<turns, due, redelivered, mishaps>>

TurnedAway(c) ==
  /\ CallAt(c, "gate") /\ busy = NoCall
  /\ InFlight # {} \/ InState({"responding"}) # {}
  /\ calls' = [calls EXCEPT ![c] = Away]
  /\ UNCHANGED <<turns, busy, due, redelivered, mishaps>>

\* created_at is read before the transaction begins.
Stamp(c) ==
  /\ CallAt(c, "stamp")
  /\ calls' = [calls EXCEPT ![c].step = "insert",
                 ![c].born = 1 + Max({turns[e].born : e \in Events} \cup {calls[d].born : d \in Calls})]
  /\ UNCHANGED <<turns, busy, due, redelivered, mishaps>>

\* The call returns, and with it the mutex.
Returns(c) == /\ calls' = [calls EXCEPT ![c] = Away]
              /\ busy' = IF busy = c THEN NoCall ELSE busy

\* INSERT .. ON CONFLICT(event_id) DO NOTHING.
Insert(c) ==
  /\ CallAt(c, "insert")
  /\ LET e == calls[c].event IN
       turns' = IF turns[e].state # "absent" THEN turns
                ELSE [turns EXCEPT ![e] = [NoTurn EXCEPT !.state = "queued",
                        !.born = calls[c].born, !.texts = calls[c].texts \cup {e}]]
  /\ Returns(c)
  /\ UNCHANGED <<due, redelivered, mishaps>>

\* A cancel or the transaction fails; the caller is told so.
IntakeFails(c) ==
  /\ calls[c].step \in {"cancel", "insert"} /\ Mishap
  /\ Returns(c)
  /\ UNCHANGED <<turns, due, redelivered>>

-----------------------------------------------------------------------------
(* What happens to runs meanwhile.                                         *)

\* A worker claims a run, in the order of the lane or past a run that is slow.
ClaimTurn(e) ==
  /\ turns[e].state = "queued"
  /\ turns' = [turns EXCEPT ![e].state = "running", ![e].slow = FALSE]
  /\ UNCHANGED <<calls, busy, due, redelivered, mishaps>>

\* Its reply or failure notice goes out, or nothing does: the failure is not
\* worth a word, or newer dialogue made the reply pointless.
SettleTurn(e, state) ==
  /\ turns[e].state = "running"
  /\ turns' = [turns EXCEPT ![e].state = state, ![e].slow = FALSE]
  /\ UNCHANGED <<calls, busy, due, redelivered, mishaps>>

TurnsSlow(e) ==
  /\ e \in InFlight /\ Mishap
  /\ turns' = [turns EXCEPT ![e].slow = TRUE, ![e].late = TRUE]
  /\ UNCHANGED <<calls, busy, due, redelivered>>

\* retryTask takes a folded run as well: its input is still there.
Requeue(e) ==
  /\ turns[e].state = "folded" /\ Mishap
  /\ turns' = [turns EXCEPT ![e].state = "queued", ![e].again = TRUE]
  /\ UNCHANGED <<calls, busy, due, redelivered>>

\* The process stops and comes back; calls die, running runs are queued.
Reboot ==
  /\ Mishap
  /\ turns' = [e \in Events |-> IF turns[e].state = "running"
                                THEN [turns[e] EXCEPT !.state = "queued", !.slow = FALSE] ELSE turns[e]]
  /\ calls' = [c \in Calls |-> Away]
  /\ busy' = NoCall
  /\ UNCHANGED <<due, redelivered>>

CallStep(c) ==
  \/ \E e \in Events : Receive(c, e)
  \/ Gather(c) \/ Fold(c) \/ FoldDone(c)
  \/ EnterGate(c) \/ TurnedAway(c)
  \/ Stamp(c) \/ Insert(c) \/ IntakeFails(c)

RunStep(e) ==
  \/ ClaimTurn(e) \/ TurnsSlow(e) \/ Requeue(e)
  \/ \E state \in {"responding", "dropped"} : SettleTurn(e, state)

IntakeNext == (\E c \in Calls : CallStep(c)) \/ (\E e \in Events : RunStep(e)) \/ Reboot

IntakeSpec == IntakeInit /\ [][IntakeNext]_intakeVars

-----------------------------------------------------------------------------
(* Properties.                                                             *)

Carriers(x) ==
  {e \in Events : turns[e].state \notin {"absent", "folded"} /\ x \in turns[e].texts}
  \cup {c \in Calls : x \in calls[c].texts}

\* A message that says something is answered by one run: while a call folds a
\* burst and workers claim runs of it, no text ends up with two runs, or with
\* a run and a call that will insert another.  Runs an operator queued again
\* are exempt.  ("only actually-cancelled text is folded in - otherwise the
\* burst would get answered twice", coalesceQueuedWakeRuns.)
AnsweredByOneRun ==
  \A x \in Events \ Pings :
    (\A e \in Events : x \in turns[e].texts => ~ turns[e].again)
      => Cardinality(Carriers(x)) <= 1

Lost(x) == turns[x].state = "folded" /\ x \notin Pings /\ Carriers(x) = {}

\* A message that was folded away is in the text of a run that is still to be
\* answered or was, or in the hands of a call that will insert one: as long as
\* no transaction fails, no process stops and no event comes again while it is
\* being taken in, a burst never loses one of its messages, whatever the
\* workers, the gate and other calls do meanwhile.  ("merging siblings into a
\* run that never materializes would lose them".)
BurstKeptWhole == mishaps = 0 /\ ~ redelivered => \A x \in Events : ~ Lost(x)

\* The same when an event may come again at any time, as README.md promises
\* "idempotent event intake".  A second call that takes an event in while the
\* first does may fold the run of its own event away, and then insert nothing.
RedeliveryHarmless == mishaps = 0 => \A x \in Events : ~ Lost(x)

\* An unasked run is never inserted while another one waits, is generated or
\* is on its way out, however many ordinary messages arrive at a time.  Runs
\* that once lay still for ten minutes or were queued again are exempt.  (The
\* gate "prevents a burst of ordinary group messages from creating several
\* model runs before the first one has reached the Outbox".)
OneUnaskedAtATime ==
  [][\A e \in Unasked : turns[e].state = "absent" /\ turns'[e].state = "queued"
       => \A d \in Unasked \cap InFlight : turns[d].again \/ turns[d].late]_intakeVars
=============================================================================
