----------------------------- MODULE TasksProofs ------------------------------
(***************************************************************************)
(* Proofs about the front of a task, for any events, calls and operations: *)
(* each event is answered by one run and a burst stays one; a media        *)
(* operation keeps its quota and implements MediaPromise.                  *)
(***************************************************************************)
EXTENDS MCTasks, NumberSets, FiniteSetTheorems, SequenceTheorems, TLAPS

(* Intake.                                                                 *)

TurnStates == {"absent", "queued", "running", "responding", "dropped", "folded"}
Turns(B) == [state : TurnStates, born : B, texts : SUBSET Events, slow : BOOLEAN,
             late : BOOLEAN, again : BOOLEAN]
CallSteps == {"idle", "fold", "cancel", "gate", "stamp", "insert"}
CallRows(B) == [step : CallSteps, event : Events \cup {NoEvent}, born : B,
                siblings : SUBSET Events, texts : SUBSET Events]

\* The tables and the calls have their shape, whatever clock stamps them.
IntakeShape ==
  /\ \E B : /\ 0 \in B
            /\ turns \in [Events -> Turns(B)] /\ calls \in [Calls -> CallRows(B)]
  /\ mishaps \in Nat

\* Only calls for addressed events fold others in, so nobody who waits at the
\* gate has texts of others.
CallsInOrder ==
  \A c \in Calls :
    /\ calls[c].step = "idle" <=> calls[c].event = NoEvent
    /\ calls[c].step \in {"fold", "cancel"} => calls[c].event \in Addressed
    /\ calls[c].texts # {} => calls[c].event \in Addressed
    /\ calls[c].step = "gate" => calls[c].event \in Unasked

\* A run has the text of its event, which has no text before that; and every
\* text is of an event that has a run.
TextsKnown ==
  /\ \A e \in Events : IF turns[e].state = "absent" THEN turns[e].texts = {}
                       ELSE e \in turns[e].texts
  /\ \A e, x \in Events : x \in turns[e].texts => turns[x].state # "absent"
  /\ \A c \in Calls, x \in Events : x \in calls[c].texts => turns[x].state # "absent"

Alive(e) == turns[e].state \notin {"absent", "folded"}

\* A text that says something has one place, unless an operator queued it again.
OnePlace ==
  \A x \in Events \ Pings :
    \/ \E e \in Events : x \in turns[e].texts /\ turns[e].again
    \/ /\ \A e, f \in Events :
            Alive(e) /\ Alive(f) /\ x \in turns[e].texts /\ x \in turns[f].texts => e = f
       /\ \A c, d \in Calls : x \in calls[c].texts /\ x \in calls[d].texts => c = d
       /\ \A e \in Events, c \in Calls :
            ~ (Alive(e) /\ x \in turns[e].texts /\ x \in calls[c].texts)

\* The unasked call that was let through holds the mutex, and nobody overtook it.
GateHeld ==
  /\ \A e \in Events : turns[e].slow => turns[e].late
  /\ \A c \in Calls : calls[c].step \in {"stamp", "insert"} /\ calls[c].event \in Unasked =>
       /\ busy = c
       /\ \A d \in Unasked \cap InFlight : turns[d].again \/ turns[d].late

Carried(x) == \/ \E e \in Events : Alive(e) /\ x \in turns[e].texts
              \/ \E c \in Calls : x \in calls[c].texts

\* Without mishaps each event is taken in by one call, and its text is carried
\* from then on.
NothingLost ==
  mishaps = 0 /\ ~ redelivered =>
    /\ \A c \in Calls : calls[c].event # NoEvent => turns[calls[c].event].state = "absent"
    /\ \A c, d \in Calls : calls[c].event = calls[d].event /\ calls[c].event # NoEvent => c = d
    /\ \A x \in Events \ Pings : turns[x].state # "absent" => Carried(x)

IntakeIInv == IntakeShape /\ CallsInOrder /\ TextsKnown /\ OnePlace /\ GateHeld /\ NothingLost

-----------------------------------------------------------------------------
(* Steps of one call that leave the table alone.                           *)

\* A call goes on, or returns, with the texts it has.
LEMMA CallGoesOn ==
  ASSUME IntakeIInv, IntakeShape', NEW c \in Calls, NEW k,
         calls' = [calls EXCEPT ![c] = k], UNCHANGED turns,
         k.step = "idle" <=> k.event = NoEvent,
         k.event = NoEvent \/ k.event = calls[c].event,
         k.texts \subseteq calls[c].texts,
         k.texts # {} => k.event \in Addressed,
         k.step \in {"fold", "cancel"} => k.event \in Addressed,
         k.step = "gate" => k.event \in Unasked,
         \A d \in Calls \ {c} : busy = d => busy' = d,
         k.step \in {"stamp", "insert"} /\ k.event \in Unasked =>
           /\ busy' = c
           /\ calls[c].step \in {"stamp", "insert"} \/ InFlight = {},
         mishaps' = 0 /\ ~ redelivered' =>
           mishaps = 0 /\ ~ redelivered /\ k.texts = calls[c].texts
  PROVE  IntakeIInv'
  <1>1. calls'[c] = k /\ \A d \in Calls \ {c} : calls'[d] = calls[d]
    BY DEF IntakeIInv, IntakeShape
  <1>2. CallsInOrder'
    BY <1>1 DEF IntakeIInv, CallsInOrder
  <1>3. TextsKnown'
    BY <1>1 DEF IntakeIInv, TextsKnown
  <1>4. OnePlace'
    <2>1. \A d \in Calls : calls'[d].texts \subseteq calls[d].texts
      BY <1>1
    <2> QED BY <2>1 DEF IntakeIInv, OnePlace, Alive
  <1>5. GateHeld'
    <2>1. InFlight' = InFlight
      BY DEF InFlight, InState
    <2>2. ASSUME NEW d \in Calls, calls'[d].step \in {"stamp", "insert"}, calls'[d].event \in Unasked
          PROVE  busy' = d /\ \A e \in Unasked \cap InFlight : turns[e].again \/ turns[e].late
      <3>1. CASE d = c
        <4>1. k.event \in Unasked => k.event # NoEvent
          BY IntakeAssumption
        <4> QED BY <1>1, <2>2, <3>1, <4>1 DEF IntakeIInv, GateHeld
      <3>2. CASE d # c
        BY <1>1, <2>2, <3>2 DEF IntakeIInv, GateHeld
      <3> QED BY <3>1, <3>2
    <2> QED BY <2>1, <2>2 DEF IntakeIInv, GateHeld
  <1>6. NothingLost'
    <2> SUFFICES ASSUME mishaps' = 0, ~ redelivered'
                 PROVE  /\ \A d \in Calls : calls'[d].event # NoEvent =>
                              turns[calls'[d].event].state = "absent"
                        /\ \A d, f \in Calls :
                             calls'[d].event = calls'[f].event /\ calls'[d].event # NoEvent => d = f
                        /\ \A x \in Events \ Pings : turns[x].state # "absent" => Carried(x)'
      BY DEF NothingLost
    <2>1. /\ \A d \in Calls : calls[d].event # NoEvent => turns[calls[d].event].state = "absent"
          /\ \A d, f \in Calls : calls[d].event = calls[f].event /\ calls[d].event # NoEvent => d = f
          /\ \A x \in Events \ Pings : turns[x].state # "absent" => Carried(x)
      BY DEF IntakeIInv, NothingLost
    <2>2. \A d \in Calls : /\ calls'[d].event = NoEvent \/ calls'[d].event = calls[d].event
                           /\ calls'[d].texts = calls[d].texts
      BY <1>1
    <2>3. \A x \in Events : Carried(x) => Carried(x)'
      BY <2>2 DEF Carried, Alive
    <2> QED BY <2>1, <2>2, <2>3
  <1> QED BY <1>2, <1>3, <1>4, <1>5, <1>6 DEF IntakeIInv

\* A call that is away.
LEMMA AwayRow ==
  ASSUME NEW B, 0 \in B
  PROVE  /\ Away \in CallRows(B) /\ Away.step = "idle" /\ Away.event = NoEvent
         /\ Away.texts = {}
  BY DEF Away, CallRows, CallSteps

\* The shape after one row of each table changed.
LEMMA ShapeMoves ==
  ASSUME NEW B, 0 \in B, turns \in [Events -> Turns(B)], calls \in [Calls -> CallRows(B)],
         NEW c \in Calls, NEW k \in CallRows(B), mishaps' \in Nat,
         calls' = [calls EXCEPT ![c] = k], UNCHANGED turns
  PROVE  IntakeShape'
  BY DEF IntakeShape

LEMMA GatherKeeps ==
  ASSUME IntakeIInv, NEW c \in Calls, Gather(c)
  PROVE  IntakeIInv'
  <1>1. PICK B : /\ 0 \in B /\ turns \in [Events -> Turns(B)]
                 /\ calls \in [Calls -> CallRows(B)] /\ mishaps \in Nat
    BY DEF IntakeIInv, IntakeShape
  <1>2. PICK since \in 0..Cardinality(Events), short \in BOOLEAN :
          calls' = [calls EXCEPT ![c].step = "cancel",
                      ![c].siblings = Siblings(calls[c].event, since).wordy \cup
                                        IF short THEN {} ELSE Siblings(calls[c].event, since).pings]
    BY DEF Gather
  <1>3. PICK found : found = Siblings(calls[c].event, since).wordy \cup
                               IF short THEN {} ELSE Siblings(calls[c].event, since).pings
    OBVIOUS
  <1>4. found \in SUBSET Events
    BY <1>3 DEF Siblings, InState
  <1>5. PICK k \in CallRows(B) : k = [calls[c] EXCEPT !.step = "cancel", !.siblings = found]
    BY <1>1, <1>4 DEF CallRows, CallSteps
  <1>5a. /\ k.step = "cancel" /\ k.event = calls[c].event /\ k.texts = calls[c].texts
    BY <1>1, <1>4, <1>5 DEF CallRows
  <1>6. calls' = [calls EXCEPT ![c] = k] /\ UNCHANGED <<turns, busy, redelivered, mishaps>>
    BY <1>2, <1>3, <1>5 DEF Gather
  <1>7. IntakeShape'
    BY <1>1, <1>6, ShapeMoves
  <1>8. calls[c].event \in Addressed /\ calls[c].event # NoEvent
    BY IntakeAssumption DEF Gather, CallAt, IntakeIInv, CallsInOrder
  <1> QED BY <1>5a, <1>6, <1>7, <1>8, CallGoesOn

LEMMA CallStepKeeps ==
  ASSUME IntakeIInv, NEW c \in Calls, FoldDone(c) \/ EnterGate(c)
  PROVE  IntakeIInv'
  <1>1. PICK B : /\ 0 \in B /\ turns \in [Events -> Turns(B)]
                 /\ calls \in [Calls -> CallRows(B)] /\ mishaps \in Nat
    BY DEF IntakeIInv, IntakeShape
  <1>2. UNCHANGED <<turns, redelivered, mishaps>>
    BY DEF FoldDone, EnterGate
  <1>3. CASE FoldDone(c)
    <2>1. calls[c].event \in Addressed /\ calls[c].event \notin Unasked /\ calls[c].event # NoEvent
      BY <1>3, IntakeAssumption DEF FoldDone, CallAt, IntakeIInv, CallsInOrder
    <2>2. PICK k \in CallRows(B) : k = [calls[c] EXCEPT !.step = "stamp"]
      BY <1>1 DEF CallRows, CallSteps
    <2>2a. /\ k.step = "stamp" /\ k.event = calls[c].event /\ k.texts = calls[c].texts
      BY <1>1, <2>2 DEF CallRows
    <2>3. calls' = [calls EXCEPT ![c] = k] /\ busy' = busy
      BY <1>3, <2>1, <2>2 DEF FoldDone, Goes, Onward
    <2>4. IntakeShape'
      BY <1>1, <1>2, <2>3, ShapeMoves
    <2> QED BY <1>2, <2>1, <2>2a, <2>3, <2>4, CallGoesOn
  <1>4. CASE EnterGate(c)
    <2>1. calls[c].event \in Unasked /\ calls[c].event \notin Addressed /\ calls[c].event # NoEvent
      BY <1>4, IntakeAssumption DEF EnterGate, CallAt, IntakeIInv, CallsInOrder
    <2>2. calls[c].texts = {}
      BY <2>1 DEF IntakeIInv, CallsInOrder
    <2>3. PICK k \in CallRows(B) : k = [calls[c] EXCEPT !.step = "stamp"]
      BY <1>1 DEF CallRows, CallSteps
    <2>3a. /\ k.step = "stamp" /\ k.event = calls[c].event /\ k.texts = calls[c].texts
      BY <1>1, <2>3 DEF CallRows
    <2>4. calls' = [calls EXCEPT ![c] = k] /\ busy' = c /\ busy = NoCall /\ InFlight = {}
      BY <1>4, <2>3 DEF EnterGate, Goes, HeldGate
    <2>5. IntakeShape'
      BY <1>1, <1>2, <2>4, ShapeMoves
    <2>6. \A d \in Calls : busy # d
      BY <2>4, IntakeAssumption
    <2> QED BY <1>2, <2>1, <2>2, <2>3a, <2>4, <2>5, <2>6, CallGoesOn
  <1> QED BY <1>3, <1>4

LEMMA StampKeeps ==
  ASSUME IntakeIInv, NEW c \in Calls, Stamp(c)
  PROVE  IntakeIInv'
  <1>1. PICK B : /\ 0 \in B /\ turns \in [Events -> Turns(B)]
                 /\ calls \in [Calls -> CallRows(B)] /\ mishaps \in Nat
    BY DEF IntakeIInv, IntakeShape
  <1>2. PICK now : calls' = [calls EXCEPT ![c].step = "insert", ![c].born = now]
    BY DEF Stamp
  <1>3. PICK C : C = B \cup {now}
    OBVIOUS
  <1>4. /\ 0 \in C /\ now \in C
        /\ turns \in [Events -> Turns(C)] /\ calls \in [Calls -> CallRows(C)]
    <2>1. Turns(B) \subseteq Turns(C) /\ CallRows(B) \subseteq CallRows(C)
      BY <1>3 DEF Turns, CallRows
    <2> QED BY <1>1, <1>3, <2>1
  <1>5. PICK k \in CallRows(C) : k = [calls[c] EXCEPT !.step = "insert", !.born = now]
    BY <1>4 DEF CallRows, CallSteps
  <1>5a. /\ k.step = "insert" /\ k.event = calls[c].event /\ k.texts = calls[c].texts
    BY <1>4, <1>5 DEF CallRows
  <1>6. calls' = [calls EXCEPT ![c] = k] /\ UNCHANGED <<turns, busy, redelivered, mishaps>>
    BY <1>2, <1>5 DEF Stamp
  <1>7. IntakeShape'
    BY <1>1, <1>4, <1>6, ShapeMoves
  <1>8. /\ calls[c].step = "stamp" /\ calls[c].event # NoEvent
        /\ calls[c].texts # {} => calls[c].event \in Addressed
        /\ calls[c].event \in Unasked => busy = c
    BY DEF Stamp, CallAt, IntakeIInv, CallsInOrder, GateHeld
  <1> QED BY <1>5a, <1>6, <1>7, <1>8, CallGoesOn

\* A call that returns without having inserted a run.
LEMMA CallReturns ==
  ASSUME IntakeIInv, NEW c \in Calls, TurnedAway(c) \/ IntakeFails(c)
  PROVE  IntakeIInv'
  <1>1. PICK B : /\ 0 \in B /\ turns \in [Events -> Turns(B)]
                 /\ calls \in [Calls -> CallRows(B)] /\ mishaps \in Nat
    BY DEF IntakeIInv, IntakeShape
  <1>2. /\ Away \in CallRows(B) /\ Away.step = "idle" /\ Away.event = NoEvent
        /\ Away.texts = {}
    BY <1>1, AwayRow
  <1>3. calls' = [calls EXCEPT ![c] = Away] /\ UNCHANGED <<turns, redelivered>>
    BY DEF TurnedAway, IntakeFails, Returns
  <1>4. \A d \in Calls \ {c} : busy = d => busy' = d
    BY DEF TurnedAway, IntakeFails, Returns
  <1>5. mishaps' \in Nat /\ (mishaps' = 0 => mishaps = 0 /\ calls[c].texts = {})
    <2>1. CASE TurnedAway(c)
      <3>1. calls[c].event \in Unasked /\ calls[c].event \notin Addressed
        BY <2>1, IntakeAssumption DEF TurnedAway, CallAt, IntakeIInv, CallsInOrder
      <3>2. calls[c].texts = {}
        BY <3>1 DEF IntakeIInv, CallsInOrder
      <3> QED BY <1>1, <2>1, <3>2 DEF TurnedAway
    <2>2. CASE IntakeFails(c)
      BY <1>1, <2>2 DEF IntakeFails, Mishap
    <2> QED BY <2>1, <2>2
  <1>6. IntakeShape'
    BY <1>1, <1>2, <1>3, <1>5, ShapeMoves
  <1>7. Away.event \notin Addressed /\ Away.event \notin Unasked
    BY <1>2, IntakeAssumption
  <1> QED BY <1>2, <1>3, <1>4, <1>5, <1>6, <1>7, CallGoesOn

LEMMA ReceiveKeeps ==
  ASSUME IntakeIInv, NEW c \in Calls, NEW e \in Events, Receive(c, e)
  PROVE  IntakeIInv'
  <1>1. PICK B : /\ 0 \in B /\ turns \in [Events -> Turns(B)]
                 /\ calls \in [Calls -> CallRows(B)] /\ mishaps \in Nat
    BY DEF IntakeIInv, IntakeShape
  <1>2. /\ UNCHANGED <<turns, busy, mishaps>>
        /\ redelivered' = (redelivered \/ \E d \in Calls : calls[d].event = e)
        /\ calls[c].step = "idle"
    BY DEF Receive, CallAt
  <1>3. CASE UNCHANGED calls
    <2>1. IntakeShape'
      BY <1>1, <1>2, <1>3 DEF IntakeShape
    <2>2. CallsInOrder' /\ TextsKnown' /\ OnePlace'
      BY <1>2, <1>3 DEF IntakeIInv, CallsInOrder, TextsKnown, OnePlace, Alive
    <2>3. GateHeld'
      BY <1>2, <1>3 DEF IntakeIInv, GateHeld, InFlight, InState
    <2>4. NothingLost'
      BY <1>2, <1>3 DEF IntakeIInv, NothingLost, Carried, Alive
    <2> QED BY <2>1, <2>2, <2>3, <2>4 DEF IntakeIInv
  <1>4. CASE /\ turns[e].state = "absent"
             /\ \E first \in FirstSteps(e) :
                  calls' = [calls EXCEPT ![c] = [Away EXCEPT !.step = first, !.event = e]]
    <2>1. PICK first \in FirstSteps(e) :
            calls' = [calls EXCEPT ![c] = [Away EXCEPT !.step = first, !.event = e]]
      BY <1>4
    <2>2. /\ e # NoEvent
          /\ e \in Unasked => e \notin Addressed
          /\ first \in CallSteps \ {"idle", "cancel", "insert"}
          /\ first = "fold" => e \in Addressed
          /\ first = "gate" => e \in Unasked
          /\ first = "stamp" => e \notin Unasked
      BY IntakeAssumption DEF FirstSteps, Onward, CallSteps
    <2>3. PICK k \in CallRows(B) : k = [Away EXCEPT !.step = first, !.event = e]
      BY <1>1, <2>2, AwayRow DEF CallRows
    <2>4. k.step = first /\ k.event = e /\ k.texts = {}
      BY <2>3 DEF Away
    <2>5. calls' = [calls EXCEPT ![c] = k]
      BY <2>1, <2>3
    <2>6. calls'[c] = k /\ \A d \in Calls \ {c} : calls'[d] = calls[d]
      BY <1>1, <2>5
    <2>7. IntakeShape'
      BY <1>1, <1>2, <2>5, ShapeMoves
    <2>8. CallsInOrder'
      BY <2>2, <2>4, <2>6 DEF IntakeIInv, CallsInOrder
    <2>9. TextsKnown'
      BY <1>2, <2>4, <2>6 DEF IntakeIInv, TextsKnown
    <2>10. OnePlace'
      <3>1. \A d \in Calls : calls'[d].texts \subseteq calls[d].texts
        BY <2>4, <2>6
      <3> QED BY <1>2, <3>1 DEF IntakeIInv, OnePlace, Alive
    <2>11. GateHeld'
      <3>1. InFlight' = InFlight
        BY <1>2 DEF InFlight, InState
      <3>2. ASSUME NEW d \in Calls, calls'[d].step \in {"stamp", "insert"},
                   calls'[d].event \in Unasked
            PROVE  calls'[d] = calls[d]
        BY <2>2, <2>4, <2>6, <3>2
      <3> QED BY <1>2, <3>1, <3>2 DEF IntakeIInv, GateHeld
    <2>12. NothingLost'
      <3> SUFFICES ASSUME mishaps' = 0, ~ redelivered'
                   PROVE  /\ \A d \in Calls : calls'[d].event # NoEvent =>
                                turns[calls'[d].event].state = "absent"
                          /\ \A d, f \in Calls :
                               /\ calls'[d].event = calls'[f].event
                               /\ calls'[d].event # NoEvent
                               => d = f
                          /\ \A x \in Events \ Pings :
                               turns[x].state # "absent" => Carried(x)'
        BY <1>2 DEF NothingLost
      <3>1. /\ \A d \in Calls : calls[d].event # NoEvent =>
                 turns[calls[d].event].state = "absent"
            /\ \A d, f \in Calls :
                 calls[d].event = calls[f].event /\ calls[d].event # NoEvent => d = f
            /\ \A x \in Events \ Pings : turns[x].state # "absent" => Carried(x)
        BY <1>2 DEF IntakeIInv, NothingLost
      <3>2. \A d \in Calls : calls[d].event # e
        BY <1>2
      <3>3. ASSUME NEW x \in Events \ Pings, turns[x].state # "absent"
            PROVE  Carried(x)'
        <4>1. calls[c].texts = {}
          <5>1. calls[c].event = NoEvent
            BY <1>2 DEF IntakeIInv, CallsInOrder
          <5> QED BY <5>1, IntakeAssumption DEF IntakeIInv, CallsInOrder
        <4> QED BY <1>2, <2>6, <3>1, <3>3, <4>1 DEF Carried, Alive
      <3> QED BY <1>4, <2>4, <2>6, <3>1, <3>2, <3>3
    <2> QED BY <2>7, <2>8, <2>9, <2>10, <2>11, <2>12 DEF IntakeIInv
  <1> QED BY <1>3, <1>4 DEF Receive

-----------------------------------------------------------------------------
(* Steps that change the table.                                            *)

LEMMA FoldKeeps ==
  ASSUME IntakeIInv, NEW c \in Calls, Fold(c)
  PROVE  IntakeIInv'
  <1>1. PICK B : /\ 0 \in B /\ turns \in [Events -> Turns(B)]
                 /\ calls \in [Calls -> CallRows(B)] /\ mishaps \in Nat
    BY DEF IntakeIInv, IntakeShape
  <1>2. PICK s \in calls[c].siblings :
          /\ calls' = [calls EXCEPT ![c].siblings = @ \ {s},
                         ![c].texts = IF TakesOver(s) THEN @ \cup turns[s].texts ELSE @]
          /\ turns' = IF Foldable(s)
                      THEN [turns EXCEPT ![s].state = "folded", ![s].slow = FALSE] ELSE turns
    BY DEF Fold
  <1>3. /\ s \in Events /\ calls[c] \in CallRows(B) /\ turns[s] \in Turns(B)
        /\ UNCHANGED <<busy, redelivered, mishaps>> /\ calls[c].step = "cancel"
    BY <1>1 DEF CallRows, Fold, CallAt
  <1>4. PICK left \in SUBSET Events : left = calls[c].siblings \ {s}
    BY <1>3 DEF CallRows
  <1>5. PICK taken \in SUBSET Events :
          taken = IF TakesOver(s) THEN calls[c].texts \cup turns[s].texts ELSE calls[c].texts
    BY <1>3 DEF CallRows, Turns
  <1>6. PICK k \in CallRows(B) : k = [calls[c] EXCEPT !.siblings = left, !.texts = taken]
    BY <1>3 DEF CallRows
  <1>7. k.step = "cancel" /\ k.event = calls[c].event /\ k.texts = taken
    BY <1>3, <1>6 DEF CallRows
  <1>8. calls' = [calls EXCEPT ![c] = k]
    BY <1>2, <1>4, <1>5, <1>6
  <1>9. calls'[c] = k /\ \A d \in Calls \ {c} : calls'[d] = calls[d]
    BY <1>1, <1>8
  <1>10. calls[c].event \in Addressed /\ calls[c].event # NoEvent /\ calls[c].event \notin Unasked
    BY <1>3, IntakeAssumption DEF IntakeIInv, CallsInOrder
  <1>11. CASE ~ Foldable(s)
    <2>1. k.texts = calls[c].texts /\ turns' = turns
      BY <1>2, <1>5, <1>7, <1>11 DEF TakesOver
    <2>2. IntakeShape'
      BY <1>1, <1>3, <1>8, <2>1, ShapeMoves
    <2>3. \A d \in Calls \ {c} : busy = d => busy' = d
      BY <1>3
    <2> QED BY <1>3, <1>7, <1>8, <1>10, <2>1, <2>2, <2>3, CallGoesOn
  <1>12. CASE Foldable(s)
    <2>1. PICK t \in Turns(B) : t = [turns[s] EXCEPT !.state = "folded", !.slow = FALSE]
      BY <1>3 DEF Turns, TurnStates
    <2>2. /\ t.state = "folded" /\ t.texts = turns[s].texts /\ ~ t.slow
          /\ t.again = turns[s].again /\ t.late = turns[s].late
      BY <1>3, <2>1 DEF Turns
    <2>3. turns' = [turns EXCEPT ![s] = t]
      BY <1>2, <1>12, <2>1
    <2>4. turns'[s] = t /\ \A e \in Events \ {s} : turns'[e] = turns[e]
      BY <1>1, <1>3, <2>3
    <2>5. turns[s].state = "queued"
      BY <1>12 DEF Foldable
    <2>6. \A e \in Events : /\ turns'[e].texts = turns[e].texts
                            /\ turns'[e].state = "absent" <=> turns[e].state = "absent"
                            /\ turns'[e].again = turns[e].again /\ turns'[e].late = turns[e].late
                            /\ Alive(e)' <=> Alive(e) /\ e # s
      BY <2>2, <2>4, <2>5 DEF Alive
    <2>7. /\ taken \subseteq calls[c].texts \cup turns[s].texts
          /\ calls[c].texts \subseteq taken
          /\ turns[s].texts \subseteq taken \cup Pings
      BY <1>5, <1>12 DEF TakesOver, Trifling
    <2>8. IntakeShape'
      BY <1>1, <1>3, <1>8, <2>3 DEF IntakeShape
    <2>9. CallsInOrder'
      BY <1>7, <1>9, <1>10 DEF IntakeIInv, CallsInOrder
    <2>10. TextsKnown'
      <3>1. ASSUME NEW x \in Events, NEW d \in Calls, x \in calls'[d].texts
            PROVE  turns[x].state # "absent"
        BY <1>3, <1>7, <1>9, <2>7, <3>1 DEF IntakeIInv, TextsKnown
      <3> QED BY <2>6, <3>1 DEF IntakeIInv, TextsKnown
    <2>11. OnePlace'
      <3> SUFFICES ASSUME NEW x \in Events \ Pings,
                          ~ \E e \in Events : x \in turns[e].texts /\ turns[e].again
                   PROVE  /\ \A e, f \in Events : /\ Alive(e)' /\ Alive(f)'
                                                  /\ x \in turns'[e].texts /\ x \in turns'[f].texts
                                                  => e = f
                          /\ \A d, f \in Calls :
                               x \in calls'[d].texts /\ x \in calls'[f].texts => d = f
                          /\ \A e \in Events, d \in Calls :
                               ~ (Alive(e)' /\ x \in turns'[e].texts /\ x \in calls'[d].texts)
        BY <2>6 DEF OnePlace
      <3>1. /\ \A e, f \in Events :
                 Alive(e) /\ Alive(f) /\ x \in turns[e].texts /\ x \in turns[f].texts => e = f
            /\ \A d, f \in Calls : x \in calls[d].texts /\ x \in calls[f].texts => d = f
            /\ \A e \in Events, d \in Calls :
                 ~ (Alive(e) /\ x \in turns[e].texts /\ x \in calls[d].texts)
        BY DEF IntakeIInv, OnePlace
      <3>2. Alive(s)
        BY <2>5 DEF Alive
      <3> QED BY <1>3, <1>7, <1>9, <2>6, <2>7, <3>1, <3>2
    <2>12. GateHeld'
      <3>1. InFlight' \subseteq InFlight
        BY <1>3, <2>2, <2>4 DEF InFlight, InState
      <3>2. \A e \in Events : turns'[e].slow => turns'[e].late
        BY <2>2, <2>4 DEF IntakeIInv, GateHeld
      <3>3. ASSUME NEW d \in Calls, calls'[d].step \in {"stamp", "insert"},
                   calls'[d].event \in Unasked
            PROVE  calls'[d] = calls[d]
        BY <1>7, <1>9, <3>3
      <3> QED BY <1>3, <2>6, <3>1, <3>2, <3>3, IntakeAssumption DEF IntakeIInv, GateHeld
    <2>13. NothingLost'
      <3>1. ASSUME NEW x \in Events \ Pings, Carried(x)
            PROVE  Carried(x)'
        <4>1. CASE \E d \in Calls : x \in calls[d].texts
          BY <1>7, <1>9, <2>7, <4>1 DEF Carried
        <4>2. CASE \E e \in Events : Alive(e) /\ x \in turns[e].texts
          BY <1>7, <1>9, <2>6, <2>7, <4>2 DEF Carried
        <4> QED BY <3>1, <4>1, <4>2 DEF Carried
      <3>2. \A d \in Calls : calls'[d].event = calls[d].event
        BY <1>7, <1>9
      <3>3. \A e \in Events : turns'[e].state = "absent" <=> turns[e].state = "absent"
        BY <2>6
      <3>4. \A d \in Calls : calls[d].event # NoEvent => calls[d].event \in Events
        BY <1>1 DEF CallRows
      <3> QED BY <1>3, <3>1, <3>2, <3>3, <3>4 DEF IntakeIInv, NothingLost
    <2> QED BY <2>8, <2>9, <2>10, <2>11, <2>12, <2>13 DEF IntakeIInv
  <1> QED BY <1>11, <1>12

LEMMA InsertKeeps ==
  ASSUME IntakeIInv, NEW c \in Calls, Insert(c)
  PROVE  IntakeIInv'
  <1>1. PICK B : /\ 0 \in B /\ turns \in [Events -> Turns(B)]
                 /\ calls \in [Calls -> CallRows(B)] /\ mishaps \in Nat
    BY DEF IntakeIInv, IntakeShape
  <1>2. /\ calls' = [calls EXCEPT ![c] = Away] /\ UNCHANGED <<redelivered, mishaps>>
        /\ \A d \in Calls \ {c} : busy = d => busy' = d
        /\ calls[c].step = "insert"
    BY DEF Insert, Returns, CallAt
  <1>3. /\ Away \in CallRows(B) /\ Away.step = "idle" /\ Away.event = NoEvent
        /\ Away.texts = {}
    BY <1>1, AwayRow
  <1>4. calls'[c] = Away /\ \A d \in Calls \ {c} : calls'[d] = calls[d]
    BY <1>1, <1>2
  <1>5. PICK e \in Events : e = calls[c].event
    BY <1>1, <1>2 DEF CallRows, IntakeIInv, CallsInOrder
  <1>6. CASE turns[e].state # "absent"
    <2>1. turns' = turns
      BY <1>5, <1>6 DEF Insert
    <2>2. IntakeShape'
      BY <1>1, <1>2, <1>3, <2>1, ShapeMoves
    <2>3. ~ (mishaps' = 0 /\ ~ redelivered')
      BY <1>2, <1>5, <1>6, IntakeAssumption DEF IntakeIInv, NothingLost
    <2>4. Away.event \notin Addressed /\ Away.event \notin Unasked
      BY <1>3, IntakeAssumption
    <2> QED BY <1>2, <1>3, <2>1, <2>2, <2>3, <2>4, CallGoesOn
  <1>7. CASE turns[e].state = "absent"
    <2>1. calls[c].born \in B /\ calls[c].texts \in SUBSET Events
      BY <1>1 DEF CallRows
    <2>2. PICK t \in Turns(B) : t = [NoTurn EXCEPT !.state = "queued", !.born = calls[c].born,
                                                   !.texts = calls[c].texts \cup {e}]
      BY <2>1 DEF Turns, TurnStates, NoTurn
    <2>3. /\ t.state = "queued" /\ t.texts = calls[c].texts \cup {e}
          /\ ~ t.slow /\ ~ t.late /\ ~ t.again
      BY <2>2 DEF NoTurn
    <2>4. turns' = [turns EXCEPT ![e] = t]
      BY <1>5, <1>7, <2>2 DEF Insert
    <2>5. turns'[e] = t /\ \A f \in Events \ {e} : turns'[f] = turns[f]
      BY <1>1, <2>4
    <2>6. /\ \A f \in Events : Alive(f)' <=> Alive(f) \/ f = e
          /\ ~ Alive(e)
          /\ \A f \in Events : turns'[f].state = "absent" <=> turns[f].state = "absent" /\ f # e
      BY <1>7, <2>3, <2>5 DEF Alive
    <2>7. /\ \A f \in Events : e \notin turns[f].texts
          /\ \A d \in Calls : e \notin calls[d].texts
      BY <1>7 DEF IntakeIInv, TextsKnown
    <2>8. IntakeShape'
      BY <1>1, <1>2, <1>3, <2>4 DEF IntakeShape
    <2>9. CallsInOrder'
      BY <1>3, <1>4, IntakeAssumption DEF IntakeIInv, CallsInOrder
    <2>10. TextsKnown'
      <3>1. ASSUME NEW f \in Events, NEW x \in Events, x \in turns'[f].texts
            PROVE  turns'[x].state # "absent"
        BY <1>5, <2>3, <2>5, <2>6, <3>1 DEF IntakeIInv, TextsKnown
      <3>2. ASSUME NEW d \in Calls, NEW x \in Events, x \in calls'[d].texts
            PROVE  turns'[x].state # "absent"
        BY <1>3, <1>4, <2>6, <3>2 DEF IntakeIInv, TextsKnown
      <3>3. ASSUME NEW f \in Events
            PROVE  IF turns'[f].state = "absent" THEN turns'[f].texts = {} ELSE f \in turns'[f].texts
        BY <2>3, <2>5 DEF IntakeIInv, TextsKnown
      <3> QED BY <3>1, <3>2, <3>3 DEF TextsKnown
    <2>11. OnePlace'
      <3> SUFFICES ASSUME NEW x \in Events \ Pings,
                          ~ \E f \in Events : x \in turns'[f].texts /\ turns'[f].again
                   PROVE  /\ \A f, g \in Events : /\ Alive(f)' /\ Alive(g)'
                                                  /\ x \in turns'[f].texts /\ x \in turns'[g].texts
                                                  => f = g
                          /\ \A d, f \in Calls :
                               x \in calls'[d].texts /\ x \in calls'[f].texts => d = f
                          /\ \A f \in Events, d \in Calls :
                               ~ (Alive(f)' /\ x \in turns'[f].texts /\ x \in calls'[d].texts)
        BY DEF OnePlace
      <3>1. CASE x = e
        BY <1>3, <1>4, <2>3, <2>5, <2>7, <3>1
      <3>2. CASE x # e
        <4>1. ASSUME NEW f \in Events, x \in turns[f].texts, turns[f].again
              PROVE  FALSE
          <5>1. f # e
            BY <1>7, <4>1 DEF IntakeIInv, TextsKnown
          <5> QED BY <2>5, <4>1, <5>1
        <4>2. /\ \A f, g \in Events :
                   Alive(f) /\ Alive(g) /\ x \in turns[f].texts /\ x \in turns[g].texts => f = g
              /\ \A d, f \in Calls : x \in calls[d].texts /\ x \in calls[f].texts => d = f
              /\ \A f \in Events, d \in Calls :
                   ~ (Alive(f) /\ x \in turns[f].texts /\ x \in calls[d].texts)
          BY <4>1 DEF IntakeIInv, OnePlace
        <4> QED BY <1>3, <1>4, <2>3, <2>5, <2>6, <3>2, <4>2
      <3> QED BY <3>1, <3>2
    <2>12. GateHeld'
      <3>1. \A f \in Events : turns'[f].slow => turns'[f].late
        BY <2>3, <2>5 DEF IntakeIInv, GateHeld
      <3>2. ASSUME NEW d \in Calls, calls'[d].step \in {"stamp", "insert"},
                   calls'[d].event \in Unasked
            PROVE  /\ busy' = d
                   /\ \A f \in Unasked \cap InFlight' : turns'[f].again \/ turns'[f].late
        <4>1. d # c /\ calls'[d] = calls[d] /\ busy = d /\ busy' = d
          BY <1>2, <1>3, <1>4, <3>2, IntakeAssumption DEF IntakeIInv, GateHeld
        <4>2. e \notin Unasked
          BY <1>2, <1>5, <4>1 DEF IntakeIInv, GateHeld
        <4>3. ASSUME NEW f \in Unasked \cap InFlight' PROVE turns'[f].again \/ turns'[f].late
          <5>1. f \in Events \ {e} /\ turns'[f] = turns[f] /\ f \in InFlight
            BY <2>5, <4>2, <4>3, IntakeAssumption DEF InFlight, InState
          <5> QED BY <3>2, <4>1, <4>3, <5>1 DEF IntakeIInv, GateHeld
        <4> QED BY <4>1, <4>3
      <3> QED BY <3>1, <3>2 DEF GateHeld
    <2>13. NothingLost'
      <3> SUFFICES ASSUME mishaps' = 0, ~ redelivered'
                   PROVE  /\ \A d \in Calls : calls'[d].event # NoEvent =>
                                turns'[calls'[d].event].state = "absent"
                          /\ \A d, f \in Calls :
                               /\ calls'[d].event = calls'[f].event
                               /\ calls'[d].event # NoEvent
                               => d = f
                          /\ \A x \in Events \ Pings :
                               turns'[x].state # "absent" => Carried(x)'
        BY DEF NothingLost
      <3>1. /\ \A d \in Calls : calls[d].event # NoEvent =>
                 turns[calls[d].event].state = "absent"
            /\ \A d, f \in Calls :
                 calls[d].event = calls[f].event /\ calls[d].event # NoEvent => d = f
            /\ \A x \in Events \ Pings : turns[x].state # "absent" => Carried(x)
        BY <1>2 DEF IntakeIInv, NothingLost
      <3>2. ASSUME NEW d \in Calls, calls'[d].event # NoEvent
            PROVE  turns'[calls'[d].event].state = "absent"
        <4>1. d # c /\ calls'[d] = calls[d] /\ calls[d].event \in Events
          BY <1>1, <1>3, <1>4, <3>2 DEF CallRows
        <4>2. calls[d].event # e
          BY <1>5, <3>1, <3>2, <4>1
        <4> QED BY <2>6, <3>1, <3>2, <4>1, <4>2
      <3>3. ASSUME NEW x \in Events \ Pings, turns'[x].state # "absent"
            PROVE  Carried(x)'
        <4>1. CASE x = e
          BY <2>3, <2>5, <2>6, <4>1 DEF Carried
        <4>2. CASE x # e
          <5>1. Carried(x)
            BY <2>6, <3>1, <3>3, <4>2
          <5>2. CASE \E f \in Events : Alive(f) /\ x \in turns[f].texts
            BY <2>5, <2>6, <5>2 DEF Carried
          <5>3. CASE \E d \in Calls : x \in calls[d].texts
            BY <1>4, <2>3, <2>5, <2>6, <5>3 DEF Carried
          <5> QED BY <5>1, <5>2, <5>3 DEF Carried
        <4> QED BY <4>1, <4>2
      <3> QED BY <1>3, <1>4, <3>1, <3>2, <3>3
    <2> QED BY <2>8, <2>9, <2>10, <2>11, <2>12, <2>13 DEF IntakeIInv
  <1> QED BY <1>6, <1>7

-----------------------------------------------------------------------------
(* What happens to runs meanwhile.                                         *)

\* Runs go on or are queued again; nobody loses a text, nobody comes to life
\* who was not exempt already, and no call starts.
LEMMA TurnsGoOn ==
  ASSUME IntakeIInv, IntakeShape',
         \A e \in Events :
           /\ turns'[e].texts = turns[e].texts
           /\ turns'[e].state = "absent" <=> turns[e].state = "absent"
           /\ Alive(e)' => Alive(e) \/ turns'[e].again
           /\ Alive(e) => Alive(e)'
           /\ turns[e].again => turns'[e].again
           /\ turns[e].late => turns'[e].late
           /\ turns'[e].slow => turns'[e].late
           /\ e \in InFlight' => e \in InFlight \/ turns'[e].again \/ turns'[e].late,
         \/ UNCHANGED <<calls, busy>>
         \/ calls' = [c \in Calls |-> Away] /\ mishaps' # 0,
         UNCHANGED redelivered, mishaps' = 0 => mishaps = 0
  PROVE  IntakeIInv'
  <1>1. \A c \in Calls : \/ calls'[c] = calls[c] /\ busy' = busy /\ UNCHANGED calls
                         \/ calls'[c] = Away /\ mishaps' # 0
    OBVIOUS
  <1>2. Away.step = "idle" /\ Away.event = NoEvent /\ Away.texts = {}
    BY DEF Away
  <1>3. NoEvent \notin Addressed /\ NoEvent \notin Unasked
    BY IntakeAssumption
  <1>4. CallsInOrder'
    BY <1>1, <1>2, <1>3 DEF IntakeIInv, CallsInOrder
  <1>5. TextsKnown'
    BY <1>1, <1>2 DEF IntakeIInv, TextsKnown
  <1>6. OnePlace'
    <2> SUFFICES ASSUME NEW x \in Events \ Pings,
                        ~ \E e \in Events : x \in turns'[e].texts /\ turns'[e].again
                 PROVE  /\ \A e, f \in Events : /\ Alive(e)' /\ Alive(f)'
                                                /\ x \in turns'[e].texts /\ x \in turns'[f].texts
                                                => e = f
                        /\ \A d, f \in Calls :
                             x \in calls'[d].texts /\ x \in calls'[f].texts => d = f
                        /\ \A e \in Events, d \in Calls :
                             ~ (Alive(e)' /\ x \in turns'[e].texts /\ x \in calls'[d].texts)
      BY DEF OnePlace
    <2>1. /\ \A e, f \in Events :
               Alive(e) /\ Alive(f) /\ x \in turns[e].texts /\ x \in turns[f].texts => e = f
          /\ \A d, f \in Calls : x \in calls[d].texts /\ x \in calls[f].texts => d = f
          /\ \A e \in Events, d \in Calls :
               ~ (Alive(e) /\ x \in turns[e].texts /\ x \in calls[d].texts)
      BY DEF IntakeIInv, OnePlace
    <2>2. \A e \in Events : Alive(e)' /\ x \in turns'[e].texts =>
                              Alive(e) /\ x \in turns[e].texts
      OBVIOUS
    <2>3. \A d \in Calls : x \in calls'[d].texts => x \in calls[d].texts
      BY <1>1, <1>2
    <2> QED BY <2>1, <2>2, <2>3
  <1>7. GateHeld'
    <2>1. ASSUME NEW d \in Calls, calls'[d].step \in {"stamp", "insert"},
                 calls'[d].event \in Unasked
          PROVE  /\ busy' = d
                 /\ \A e \in Unasked \cap InFlight' : turns'[e].again \/ turns'[e].late
      <3>1. calls'[d] = calls[d] /\ busy' = busy
        BY <1>1, <1>2, <2>1
      <3>2. busy = d /\ \A e \in Unasked \cap InFlight : turns[e].again \/ turns[e].late
        BY <2>1, <3>1 DEF IntakeIInv, GateHeld
      <3>3. \A e \in Unasked : e \in Events
        BY IntakeAssumption
      <3> QED BY <3>1, <3>2, <3>3
    <2> QED BY <2>1 DEF GateHeld
  <1>8. NothingLost'
    <2> SUFFICES ASSUME mishaps' = 0, ~ redelivered'
                 PROVE  /\ \A d \in Calls : calls'[d].event # NoEvent =>
                              turns'[calls'[d].event].state = "absent"
                        /\ \A d, f \in Calls :
                             /\ calls'[d].event = calls'[f].event
                             /\ calls'[d].event # NoEvent
                             => d = f
                        /\ \A x \in Events \ Pings :
                             turns'[x].state # "absent" => Carried(x)'
      BY DEF NothingLost
    <2>1. /\ \A d \in Calls : calls[d].event # NoEvent =>
               turns[calls[d].event].state = "absent"
          /\ \A d, f \in Calls :
               calls[d].event = calls[f].event /\ calls[d].event # NoEvent => d = f
          /\ \A x \in Events \ Pings : turns[x].state # "absent" => Carried(x)
      BY DEF IntakeIInv, NothingLost
    <2>2. UNCHANGED calls
      OBVIOUS
    <2>3. \A d \in Calls : calls[d].event # NoEvent => calls[d].event \in Events
      BY DEF IntakeIInv, IntakeShape, CallRows
    <2>4. \A x \in Events : Carried(x) => Carried(x)'
      BY <2>2 DEF Carried
    <2> QED BY <2>1, <2>2, <2>3, <2>4
  <1> QED BY <1>4, <1>5, <1>6, <1>7, <1>8 DEF IntakeIInv

LEMMA RunStepKeeps ==
  ASSUME IntakeIInv, NEW s \in Events, RunStep(s)
  PROVE  IntakeIInv'
  <1>1. PICK B : /\ 0 \in B /\ turns \in [Events -> Turns(B)]
                 /\ calls \in [Calls -> CallRows(B)] /\ mishaps \in Nat
    BY DEF IntakeIInv, IntakeShape
  <1>2. UNCHANGED <<calls, busy, redelivered>> /\ mishaps' \in Nat /\ (mishaps' = 0 => mishaps = 0)
    BY <1>1 DEF RunStep, ClaimTurn, TurnsSlow, Requeue, SettleTurn, Mishap
  <1>3. /\ turns[s] \in Turns(B)
        /\ turns[s].slow => turns[s].late
        /\ turns[s].state # "absent" /\ turns[s].state # "dropped"
    BY <1>1 DEF RunStep, ClaimTurn, TurnsSlow, Requeue, SettleTurn, InFlight, InState,
                IntakeIInv, GateHeld
  <1>4. PICK t \in Turns(B) :
          /\ turns' = [turns EXCEPT ![s] = t]
          /\ t.texts = turns[s].texts /\ t.state # "absent" /\ t.state # "folded"
          /\ turns[s].again => t.again
          /\ turns[s].late => t.late
          /\ t.slow => t.late
          /\ turns[s].state = "folded" => t.again
          /\ \/ turns[s].state \in {"queued", "running", "responding"} /\ ~ turns[s].slow
             \/ t.again \/ t.late \/ t.state = "dropped"
    <2>1. CASE ClaimTurn(s)
      <3>1. PICK t \in Turns(B) : t = [turns[s] EXCEPT !.state = "running", !.slow = FALSE]
        BY <1>3 DEF Turns, TurnStates
      <3>2. /\ t.state = "running" /\ ~ t.slow /\ t.texts = turns[s].texts
            /\ t.again = turns[s].again /\ t.late = turns[s].late
        BY <1>3, <3>1 DEF Turns
      <3>3. turns[s].state = "queued" /\ turns' = [turns EXCEPT ![s] = t]
        BY <2>1, <3>1 DEF ClaimTurn
      <3> QED BY <1>3, <3>2, <3>3
    <2>2. CASE \E state \in {"responding", "dropped"} : SettleTurn(s, state)
      <3>1. PICK state \in {"responding", "dropped"} : SettleTurn(s, state)
        BY <2>2
      <3>2. PICK t \in Turns(B) : t = [turns[s] EXCEPT !.state = state, !.slow = FALSE]
        BY <1>3 DEF Turns, TurnStates
      <3>3. /\ t.state = state /\ ~ t.slow /\ t.texts = turns[s].texts
            /\ t.again = turns[s].again /\ t.late = turns[s].late
        BY <1>3, <3>2 DEF Turns
      <3>4. turns[s].state = "running" /\ turns' = [turns EXCEPT ![s] = t]
        BY <3>1, <3>2 DEF SettleTurn
      <3> QED BY <1>3, <3>3, <3>4
    <2>3. CASE TurnsSlow(s)
      <3>1. PICK t \in Turns(B) : t = [turns[s] EXCEPT !.slow = TRUE, !.late = TRUE]
        BY <1>3 DEF Turns
      <3>2. /\ t.state = turns[s].state /\ t.late /\ t.texts = turns[s].texts
            /\ t.again = turns[s].again
        BY <1>3, <3>1 DEF Turns
      <3>3. /\ turns[s].state \in {"queued", "running", "responding"}
            /\ turns' = [turns EXCEPT ![s] = t]
        BY <2>3, <3>1 DEF TurnsSlow, InFlight, InState
      <3> QED BY <3>2, <3>3
    <2>4. CASE Requeue(s)
      <3>1. PICK t \in Turns(B) : t = [turns[s] EXCEPT !.state = "queued", !.again = TRUE]
        BY <1>3 DEF Turns, TurnStates
      <3>2. /\ t.state = "queued" /\ t.again /\ t.texts = turns[s].texts
            /\ t.slow = turns[s].slow /\ t.late = turns[s].late
        BY <1>3, <3>1 DEF Turns
      <3>3. turns' = [turns EXCEPT ![s] = t]
        BY <2>4, <3>1 DEF Requeue
      <3> QED BY <1>3, <3>2, <3>3
    <2> QED BY <2>1, <2>2, <2>3, <2>4 DEF RunStep
  <1>5. turns'[s] = t /\ \A e \in Events \ {s} : turns'[e] = turns[e]
    BY <1>1, <1>4
  <1>6. IntakeShape'
    BY <1>1, <1>2, <1>4 DEF IntakeShape
  <1>7. ASSUME NEW e \in Events
        PROVE  /\ turns'[e].texts = turns[e].texts
               /\ turns'[e].state = "absent" <=> turns[e].state = "absent"
               /\ Alive(e)' => Alive(e) \/ turns'[e].again
               /\ Alive(e) => Alive(e)'
               /\ turns[e].again => turns'[e].again
               /\ turns[e].late => turns'[e].late
               /\ turns'[e].slow => turns'[e].late
               /\ e \in InFlight' => e \in InFlight \/ turns'[e].again \/ turns'[e].late
    <2>1. CASE e = s
      BY <1>3, <1>4, <1>5, <2>1 DEF Alive, InFlight, InState
    <2>2. CASE e # s
      BY <1>5, <2>2 DEF Alive, InFlight, InState, IntakeIInv, GateHeld
    <2> QED BY <2>1, <2>2
  <1> QED BY <1>2, <1>6, <1>7, TurnsGoOn

LEMMA RebootKeeps ==
  ASSUME IntakeIInv, Reboot
  PROVE  IntakeIInv'
  <1>1. PICK B : /\ 0 \in B /\ turns \in [Events -> Turns(B)]
                 /\ calls \in [Calls -> CallRows(B)] /\ mishaps \in Nat
    BY DEF IntakeIInv, IntakeShape
  <1>2. /\ calls' = [c \in Calls |-> Away] /\ UNCHANGED redelivered
        /\ mishaps' \in Nat /\ mishaps' # 0
    <2>1. mishaps' = mishaps + 1 /\ mishaps \in Nat
      BY <1>1 DEF Reboot, Mishap
    <2>2. mishaps' \in Nat /\ mishaps' # 0
      BY <2>1
    <2> QED BY <2>2 DEF Reboot
  <1>3. ASSUME NEW e \in Events
        PROVE  /\ turns'[e] \in Turns(B)
               /\ turns'[e].texts = turns[e].texts
               /\ turns'[e].again = turns[e].again /\ turns'[e].late = turns[e].late
               /\ \/ turns'[e].state = turns[e].state /\ turns'[e].slow = turns[e].slow
                  \/ turns[e].state = "running" /\ turns'[e].state = "queued" /\ ~ turns'[e].slow
    <2>1. CASE turns[e].state = "running"
      <3>1. turns[e] \in Turns(B)
        BY <1>1
      <3>2. PICK t \in Turns(B) : t = [turns[e] EXCEPT !.state = "queued", !.slow = FALSE]
        BY <3>1 DEF Turns, TurnStates
      <3>3. turns'[e] = t
        BY <2>1, <3>2 DEF Reboot
      <3> QED BY <2>1, <3>1, <3>2, <3>3 DEF Turns
    <2>2. CASE turns[e].state # "running"
      BY <1>1, <2>2 DEF Reboot
    <2> QED BY <2>1, <2>2
  <1>4. IntakeShape'
    <2>1. turns' \in [Events -> Turns(B)]
      BY <1>3 DEF Reboot
    <2>2. calls' \in [Calls -> CallRows(B)]
      BY <1>1, <1>2, AwayRow
    <2> QED BY <1>1, <1>2, <2>1, <2>2 DEF IntakeShape
  <1>5. ASSUME NEW e \in Events
        PROVE  /\ turns'[e].texts = turns[e].texts
               /\ turns'[e].state = "absent" <=> turns[e].state = "absent"
               /\ Alive(e)' => Alive(e) \/ turns'[e].again
               /\ Alive(e) => Alive(e)'
               /\ turns[e].again => turns'[e].again
               /\ turns[e].late => turns'[e].late
               /\ turns'[e].slow => turns'[e].late
               /\ e \in InFlight' => e \in InFlight \/ turns'[e].again \/ turns'[e].late
    <2>1. turns[e].slow => turns[e].late
      BY DEF IntakeIInv, GateHeld
    <2> QED BY <1>3, <2>1 DEF Alive, InFlight, InState
  <1> QED BY <1>2, <1>4, <1>5, TurnsGoOn

-----------------------------------------------------------------------------
(* The theorems.                                                           *)

LEMMA IntakeStepKeeps ==
  ASSUME IntakeIInv, [IntakeNext]_intakeVars
  PROVE  IntakeIInv'
  <1>1. ASSUME NEW c \in Calls, CallStep(c) PROVE IntakeIInv'
    BY <1>1, ReceiveKeeps, GatherKeeps, FoldKeeps, CallStepKeeps, CallReturns, StampKeeps,
       InsertKeeps DEF CallStep
  <1>2. CASE UNCHANGED intakeVars
    BY <1>2 DEF intakeVars, IntakeIInv, IntakeShape, CallsInOrder, TextsKnown, OnePlace, Alive,
                GateHeld, InFlight, InState, NothingLost, Carried
  <1> QED BY <1>1, <1>2, RunStepKeeps, RebootKeeps DEF IntakeNext

\* The inductive invariant of the calls and the runs they queue.
THEOREM IntakeInvariance == IntakeSpec => []IntakeIInv
  <1>1. IntakeInit => IntakeIInv
    <2> SUFFICES ASSUME IntakeInit PROVE IntakeIInv
      OBVIOUS
    <2>1. /\ turns = [e \in Events |-> NoTurn] /\ calls = [c \in Calls |-> Away] /\ mishaps = 0
      BY DEF IntakeInit, IntakeStart
    <2>2. Away.step = "idle" /\ Away.event = NoEvent /\ Away.texts = {}
      BY DEF Away
    <2>3. NoTurn.state = "absent" /\ NoTurn.texts = {} /\ ~ NoTurn.slow
      BY DEF NoTurn
    <2>4. IntakeShape
      <3>1. NoTurn \in Turns({0})
        BY DEF NoTurn, Turns, TurnStates
      <3>2. Away \in CallRows({0}) /\ 0 \in {0}
        BY AwayRow
      <3> QED BY <2>1, <3>1, <3>2 DEF IntakeShape
    <2>5. CallsInOrder
      BY <2>1, <2>2, IntakeAssumption DEF CallsInOrder
    <2>6. TextsKnown /\ OnePlace /\ GateHeld /\ NothingLost
      BY <2>1, <2>2, <2>3 DEF TextsKnown, OnePlace, GateHeld, NothingLost
    <2> QED BY <2>4, <2>5, <2>6 DEF IntakeIInv
  <1> QED BY <1>1, IntakeStepKeeps, PTL DEF IntakeSpec

\* What the steps of a call and of a run leave of the mutex and the counters.
LEMMA CountsMove ==
  ASSUME IntakeTypeOK, [IntakeNext]_intakeVars
  PROVE  /\ due' \in [Events -> 0..MaxCopies] /\ redelivered' \in BOOLEAN
         /\ mishaps' \in 0..MaxMishaps
  <1>1. due \in [Events -> 0..MaxCopies] /\ redelivered \in BOOLEAN /\ mishaps \in 0..MaxMishaps
    BY DEF IntakeTypeOK
  <1>2. due' \in [Events -> 0..MaxCopies]
    <2>1. ASSUME NEW c \in Calls, NEW e \in Events, Receive(c, e)
          PROVE  due' \in [Events -> 0..MaxCopies]
      <3>1. MaxCopies \in Nat /\ due[e] \in 0..MaxCopies /\ due[e] > 0
        BY <1>1, <2>1, IntakeAssumption DEF Receive
      <3>2. due[e] - 1 \in 0..MaxCopies
        BY <3>1
      <3> QED BY <1>1, <2>1, <3>2 DEF Receive
    <2>2. CASE UNCHANGED due
      BY <1>1, <2>2
    <2> QED BY <2>1, <2>2 DEF IntakeNext, CallStep, RunStep, Gather, Fold, FoldDone, EnterGate,
              TurnedAway, Stamp, Insert, IntakeFails, ClaimTurn, TurnsSlow, Requeue, SettleTurn,
              Reboot, intakeVars
  <1>3. redelivered' \in BOOLEAN
    BY <1>1 DEF IntakeNext, CallStep, RunStep, Receive, Gather, Fold, FoldDone, EnterGate,
              TurnedAway, Stamp, Insert, IntakeFails, ClaimTurn, TurnsSlow, Requeue, SettleTurn,
              Reboot, intakeVars
  <1>4. mishaps' \in 0..MaxMishaps
    <2>1. Mishap \/ UNCHANGED mishaps
      BY DEF IntakeNext, CallStep, RunStep, Receive, Gather, Fold, FoldDone, EnterGate,
              TurnedAway, Stamp, Insert, IntakeFails, ClaimTurn, TurnsSlow, Requeue, SettleTurn,
              Reboot, intakeVars
    <2>2. MaxMishaps \in Nat
      BY IntakeAssumption
    <2> QED BY <1>1, <2>1, <2>2 DEF Mishap
  <1> QED BY <1>2, <1>3, <1>4

\* The mutex is held by a call that is inside.
LEMMA MutexMoves ==
  ASSUME IntakeIInv, IntakeTypeOK, [IntakeNext]_intakeVars
  PROVE  busy' \in Calls \cup {NoCall} /\ (busy' # NoCall => calls'[busy'].step \in {"stamp", "insert"})
  <1>1. /\ busy \in Calls \cup {NoCall} /\ (busy # NoCall => calls[busy].step \in {"stamp", "insert"})
        /\ NoCall \notin Calls
    BY IntakeAssumption DEF IntakeTypeOK
  <1>2. PICK B : calls \in [Calls -> CallRows(B)]
    BY DEF IntakeIInv, IntakeShape
  <1>3. ASSUME NEW c \in Calls, CallStep(c)
        PROVE  /\ \/ busy' = NoCall
                  \/ busy' = c /\ calls'[c].step \in {"stamp", "insert"}
                  \/ busy' = busy /\ busy # c
    <2>0. calls[c] \in CallRows(B)
      BY <1>2
    <2>1. CASE \E e \in Events : Receive(c, e)
      BY <1>1, <2>1 DEF Receive, CallAt
    <2>2. CASE Gather(c) \/ Fold(c) \/ FoldDone(c)
      BY <1>1, <2>2 DEF Gather, Fold, FoldDone, CallAt
    <2>3. CASE EnterGate(c)
      <3>1. calls' = [calls EXCEPT ![c].step = "stamp"] /\ busy' = c
        BY <2>3 DEF EnterGate, HeldGate, Goes
      <3>2. calls'[c].step = "stamp"
        BY <1>2, <2>0, <3>1 DEF CallRows
      <3> QED BY <3>1, <3>2
    <2>4. CASE TurnedAway(c)
      BY <2>4 DEF TurnedAway
    <2>5. CASE Stamp(c)
      <3>1. PICK now : calls' = [calls EXCEPT ![c].step = "insert", ![c].born = now]
        BY <2>5 DEF Stamp
      <3>2. calls'[c].step = "insert" /\ busy' = busy
        BY <1>2, <2>0, <2>5, <3>1 DEF CallRows, Stamp
      <3> QED BY <3>2
    <2>6. CASE Insert(c) \/ IntakeFails(c)
      BY <2>6 DEF Insert, IntakeFails, Returns
    <2> QED BY <1>3, <2>1, <2>2, <2>3, <2>4, <2>5, <2>6 DEF CallStep
  <1>4. ASSUME NEW c \in Calls, CallStep(c), NEW d \in Calls \ {c}
        PROVE  calls'[d] = calls[d]
    BY <1>2, <1>4 DEF CallStep, Receive, Gather, Fold, FoldDone, EnterGate, Goes,
              TurnedAway, Stamp, Insert, IntakeFails, Returns
  <1>5. ASSUME NEW e \in Events, RunStep(e) PROVE UNCHANGED <<busy, calls>>
    BY <1>5 DEF RunStep, ClaimTurn, TurnsSlow, Requeue, SettleTurn
  <1>6. CASE Reboot
    BY <1>6 DEF Reboot
  <1>7. CASE UNCHANGED intakeVars
    BY <1>1, <1>7 DEF intakeVars
  <1> QED BY <1>1, <1>3, <1>4, <1>5, <1>6, <1>7 DEF IntakeNext

\* The clock of the rows: created_at is the next number.
LEMMA BornMoves ==
  ASSUME IntakeIInv, IntakeTypeOK, NEW c \in Calls
  PROVE  1 + Max({turns[e].born : e \in Events} \cup {calls[d].born : d \in Calls}) \in Nat
  <1> DEFINE T == {turns[e].born : e \in Events} \cup {calls[d].born : d \in Calls}
  <1>1. T \in SUBSET Nat /\ T # {}
    <2>1. calls[c].born \in T
      OBVIOUS
    <2>2. /\ \A e \in Events : turns[e].born \in Nat
          /\ \A d \in Calls : calls[d].born \in Nat
      BY DEF IntakeTypeOK
    <2> QED BY <2>1, <2>2
  <1>2. IsFiniteSet(T)
    <2>1. IsFiniteSet({turns[e].born : e \in Events})
      <3>1. [e \in Events |-> turns[e].born] \in Surjection(Events, {turns[e].born : e \in Events})
        BY DEF Surjection
      <3> QED BY <3>1, IntakeAssumption, FS_Surjection
    <2>2. IsFiniteSet({calls[d].born : d \in Calls})
      <3>1. [d \in Calls |-> calls[d].born] \in Surjection(Calls, {calls[d].born : d \in Calls})
        BY DEF Surjection
      <3> QED BY <3>1, IntakeAssumption, FS_Surjection
    <2> QED BY <2>1, <2>2, FS_Union
  <1>3. Max(T) \in Nat
    BY <1>1, <1>2, GreatestOfFinite
  <1> QED BY <1>3

\* Rows are stamped with numbers.
LEMMA ClockMoves ==
  ASSUME IntakeIInv, IntakeTypeOK, [IntakeNext]_intakeVars
  PROVE  /\ \A e \in Events : turns'[e].born \in Nat
         /\ \A c \in Calls : calls'[c].born \in Nat
  <1>1. PICK B : turns \in [Events -> Turns(B)] /\ calls \in [Calls -> CallRows(B)]
    BY DEF IntakeIInv, IntakeShape
  <1>2. /\ \A e \in Events : turns[e].born \in Nat
        /\ \A c \in Calls : calls[c].born \in Nat
    BY DEF IntakeTypeOK
  <1>3. Away.born = 0 /\ NoTurn.born = 0
    BY DEF Away, NoTurn
  <1>4. \A c \in Calls : calls[c] \in CallRows(B)
    BY <1>1
  <1>5. \A e \in Events : turns[e] \in Turns(B)
    BY <1>1
  <1>6. ASSUME NEW c \in Calls, CallStep(c), NEW d \in Calls
        PROVE  calls'[d].born \in Nat
    <2>1. CASE d # c
      BY <1>1, <1>2, <1>6, <2>1 DEF CallStep, Receive, Gather, Fold, FoldDone, EnterGate, Goes,
              TurnedAway, Stamp, Insert, IntakeFails, Returns
    <2>2. CASE d = c
      <3>1. CASE \E e \in Events : Receive(c, e)
        <4>1. PICK e \in Events : Receive(c, e)
          BY <3>1
        <4>2. CASE UNCHANGED calls
          BY <1>2, <4>2
        <4>3. CASE \E first \in FirstSteps(e) :
                     calls' = [calls EXCEPT ![c] = [Away EXCEPT !.step = first, !.event = e]]
          <5>1. PICK first : calls'[c] = [Away EXCEPT !.step = first, !.event = e]
            BY <1>1, <4>3
          <5> QED BY <2>2, <5>1 DEF Away
        <4> QED BY <4>1, <4>2, <4>3 DEF Receive
      <3>2. CASE Gather(c) \/ Fold(c) \/ FoldDone(c) \/ EnterGate(c)
        <4>1. calls'[c].born = calls[c].born
          BY <1>1, <1>4, <3>2 DEF Gather, Fold, FoldDone, EnterGate, Goes, CallRows
        <4> QED BY <1>2, <2>2, <4>1
      <3>3. CASE TurnedAway(c) \/ Insert(c) \/ IntakeFails(c)
        <4>1. calls'[c] = Away
          BY <1>1, <3>3 DEF TurnedAway, Insert, IntakeFails, Returns
        <4> QED BY <1>3, <2>2, <4>1
      <3>4. CASE Stamp(c)
        <4>1. PICK now \in Nat : calls' = [calls EXCEPT ![c].step = "insert", ![c].born = now]
          BY <3>4, BornMoves DEF Stamp
        <4>2. calls'[c].born = now
          BY <1>1, <1>4, <4>1 DEF CallRows
        <4> QED BY <2>2, <4>2
      <3> QED BY <1>6, <3>1, <3>2, <3>3, <3>4 DEF CallStep
    <2> QED BY <2>1, <2>2
  <1>7. ASSUME NEW c \in Calls, CallStep(c), NEW e \in Events
        PROVE  turns'[e].born \in Nat
    <2>1. CASE Fold(c)
      <3>1. PICK s \in calls[c].siblings :
              turns' = IF Foldable(s) THEN [turns EXCEPT ![s].state = "folded", ![s].slow = FALSE]
                       ELSE turns
        BY <2>1 DEF Fold
      <3>2. turns'[e].born = turns[e].born
        BY <1>1, <1>5, <3>1 DEF Turns
      <3> QED BY <1>2, <3>2
    <2>2. CASE Insert(c)
      <3>1. \/ turns'[e] = turns[e]
            \/ turns'[e] = [NoTurn EXCEPT !.state = "queued", !.born = calls[c].born,
                                          !.texts = calls[c].texts \cup {e}]
        BY <1>1, <2>2 DEF Insert
      <3> QED BY <1>2, <3>1 DEF NoTurn
    <2>3. CASE ~ Fold(c) /\ ~ Insert(c)
      BY <1>2, <1>7, <2>3 DEF CallStep, Receive, Gather, FoldDone, EnterGate, TurnedAway, Stamp,
                               IntakeFails
    <2> QED BY <2>1, <2>2, <2>3
  <1>8. ASSUME NEW s \in Events, RunStep(s), NEW e \in Events
        PROVE  turns'[e].born \in Nat
    <2>1. turns'[e].born = turns[e].born
      BY <1>1, <1>5, <1>8 DEF RunStep, ClaimTurn, TurnsSlow, Requeue, SettleTurn, Turns
    <2> QED BY <1>2, <2>1
  <1>9. ASSUME NEW s \in Events, RunStep(s) PROVE UNCHANGED calls
    BY <1>9 DEF RunStep, ClaimTurn, TurnsSlow, Requeue, SettleTurn
  <1>10. CASE Reboot
    <2>1. ASSUME NEW e \in Events PROVE turns'[e].born = turns[e].born
      <3>1. \/ turns'[e] = turns[e]
            \/ turns'[e] = [turns[e] EXCEPT !.state = "queued", !.slow = FALSE]
        BY <1>10 DEF Reboot
      <3> QED BY <1>5, <3>1 DEF Turns
    <2>2. \A c \in Calls : calls'[c] = Away
      BY <1>10 DEF Reboot
    <2> QED BY <1>2, <1>3, <2>1, <2>2
  <1>11. CASE UNCHANGED intakeVars
    BY <1>2, <1>11 DEF intakeVars
  <1> QED BY <1>2, <1>6, <1>7, <1>8, <1>9, <1>10, <1>11 DEF IntakeNext

\* The tables and the calls have their shape.
THEOREM IntakeTypes == IntakeSpec => []IntakeTypeOK
  <1>1. IntakeInit => IntakeTypeOK
    <2>1. NoTurn \in Turns(Nat) /\ Away \in CallRows(Nat) /\ Away.step = "idle" /\ Away.event = NoEvent
      BY AwayRow DEF NoTurn, Turns, TurnStates
    <2>2. 0 \in 0..MaxMishaps
      BY IntakeAssumption
    <2>3. ASSUME IntakeInit
          PROVE  /\ turns \in [Events -> Turns(Nat)] /\ calls \in [Calls -> CallRows(Nat)]
                 /\ \A c \in Calls : (calls[c].step = "idle") <=> (calls[c].event = NoEvent)
                 /\ busy = NoCall /\ due \in [Events -> 0..MaxCopies] /\ redelivered = FALSE
                 /\ mishaps \in 0..MaxMishaps
      BY <2>1, <2>2, <2>3 DEF IntakeInit, IntakeStart
    <2> QED BY <2>3 DEF IntakeTypeOK, Turns, TurnStates, CallRows, CallSteps
  <1>2. ASSUME IntakeIInv, IntakeIInv', IntakeTypeOK, [IntakeNext]_intakeVars
        PROVE  IntakeTypeOK'
    <2>1. turns' \in [Events -> Turns(Nat)] /\ calls' \in [Calls -> CallRows(Nat)]
      <3>1. PICK B : 0 \in B /\ turns' \in [Events -> Turns(B)] /\ calls' \in [Calls -> CallRows(B)]
        BY <1>2 DEF IntakeIInv, IntakeShape
      <3>2. ASSUME NEW e \in Events PROVE turns'[e] \in Turns(Nat)
        BY <1>2, <3>1, ClockMoves DEF Turns
      <3>3. ASSUME NEW c \in Calls PROVE calls'[c] \in CallRows(Nat)
        BY <1>2, <3>1, ClockMoves DEF CallRows
      <3> QED BY <3>1, <3>2, <3>3
    <2>2. \A c \in Calls : (calls'[c].step = "idle") <=> (calls'[c].event = NoEvent)
      BY <1>2 DEF IntakeIInv, CallsInOrder
    <2> QED BY <1>2, <2>1, <2>2, CountsMove, MutexMoves
            DEF IntakeTypeOK, Turns, TurnStates, CallRows, CallSteps
  <1> QED BY <1>1, <1>2, IntakeInvariance, PTL DEF IntakeSpec

\* A message that says something is answered by one run: however calls,
\* workers, retries and restarts interleave, at most one run or one call has
\* its text (coalesceQueuedWakeRuns and the claims of the workers).
THEOREM MessagesAnsweredOnce == IntakeSpec => []AnsweredByOneRun
  <1>1. ASSUME IntakeIInv PROVE AnsweredByOneRun
    <2> SUFFICES ASSUME NEW x \in Events \ Pings,
                        \A e \in Events : x \in turns[e].texts => ~ turns[e].again
                 PROVE  Cardinality(Carriers(x)) <= 1
      BY DEF AnsweredByOneRun
    <2>1. /\ \A e, f \in Events :
               Alive(e) /\ Alive(f) /\ x \in turns[e].texts /\ x \in turns[f].texts => e = f
          /\ \A d, f \in Calls : x \in calls[d].texts /\ x \in calls[f].texts => d = f
          /\ \A e \in Events, d \in Calls :
               ~ (Alive(e) /\ x \in turns[e].texts /\ x \in calls[d].texts)
      BY <1>1 DEF IntakeIInv, OnePlace
    <2>2. \A a, b \in Carriers(x) : a = b
      BY <2>1 DEF Carriers, Alive
    <2>3. CASE Carriers(x) = {}
      BY <2>3, FS_EmptySet
    <2>4. CASE Carriers(x) # {}
      <3>1. PICK a : Carriers(x) = {a}
        BY <2>2, <2>4
      <3> QED BY <3>1, FS_Singleton
    <2> QED BY <2>3, <2>4
  <1> QED BY <1>1, IntakeInvariance, PTL

\* A burst that is folded into one run loses none of its messages while no
\* transaction fails and no event comes again while it is being taken in.
THEOREM BurstsKeptWhole == IntakeSpec => []BurstKeptWhole
  <1>1. ASSUME IntakeIInv PROVE BurstKeptWhole
    <2>1. ASSUME mishaps = 0, ~ redelivered, NEW x \in Events, Lost(x)
          PROVE  FALSE
      <3>1. Carried(x)
        BY <1>1, <2>1 DEF IntakeIInv, NothingLost, Lost
      <3> QED BY <2>1, <3>1 DEF Carried, Alive, Lost, Carriers
    <2> QED BY <2>1 DEF BurstKeptWhole
  <1> QED BY <1>1, IntakeInvariance, PTL

\* No unasked run is inserted while another one is in flight: the mutex of the
\* gate is held from the count to the commit.
THEOREM UnaskedOneByOne == IntakeSpec => OneUnaskedAtATime
  <1>1. ASSUME IntakeIInv, [IntakeNext]_intakeVars
        PROVE  \A e \in Unasked : turns[e].state = "absent" /\ turns'[e].state = "queued"
                 => \A d \in Unasked \cap InFlight : turns[d].again \/ turns[d].late
    <2> SUFFICES ASSUME NEW e \in Unasked, turns[e].state = "absent",
                        turns'[e].state = "queued"
                 PROVE  \A d \in Unasked \cap InFlight : turns[d].again \/ turns[d].late
      OBVIOUS
    <2>1. e \in Events /\ turns # turns'
      BY IntakeAssumption
    <2>2. ASSUME NEW c \in Calls, Insert(c)
          PROVE  \A d \in Unasked \cap InFlight : turns[d].again \/ turns[d].late
      <3>1. calls[c].step = "insert" /\ calls[c].event = e
        BY <2>1, <2>2, <1>1 DEF Insert, CallAt, IntakeIInv, IntakeShape
      <3> QED BY <1>1, <3>1 DEF IntakeIInv, GateHeld
    <2>3. ASSUME NEW c \in Calls, CallStep(c), ~ Insert(c)
          PROVE  FALSE
      <3>1. Fold(c)
        BY <2>1, <2>3 DEF CallStep, Receive, Gather, FoldDone, EnterGate, TurnedAway, Stamp,
                          IntakeFails
      <3> QED BY <1>1, <2>1, <3>1 DEF Fold, IntakeIInv, IntakeShape, Foldable
    <2>4. ASSUME NEW s \in Events, RunStep(s)
          PROVE  FALSE
      BY <1>1, <2>1, <2>4 DEF RunStep, ClaimTurn, SettleTurn, TurnsSlow, Requeue, IntakeIInv,
                              IntakeShape, InFlight, InState
    <2>5. CASE Reboot
      BY <2>1, <2>5 DEF Reboot
    <2>6. CASE UNCHANGED intakeVars
      BY <2>1, <2>6 DEF intakeVars
    <2> QED BY <1>1, <2>2, <2>3, <2>4, <2>5, <2>6 DEF IntakeNext
  <1> QED BY <1>1, IntakeInvariance, PTL DEF IntakeSpec, OneUnaskedAtATime

-----------------------------------------------------------------------------
(* Media operations.                                                       *)

RunStates == {"queued", "running", "delivered", "failed", "cancelled"}
StepRows == [status : {"none", "pending", "running", "succeeded", "failed", "cancelled"},
             result : 0..2]
GenStates == {"started", "completed", "failed"}
CheckStates == {"pending", "check_started", "passed", "failed", "unverified"}
QualityRows == [op : Ops \cup {NoOp}, gens : Seq(GenStates), checks : Seq(CheckStates),
                results : 0..2, selected : 0..2]
VideoRows == [phase : Phases, route : Routes \cup {"none"}]
Answers == {"none", "artifact", "refused", "unavailable", "empty"}
Workers == [at : Places, op : Ops \cup {NoOp}, attempt : Tries, day : Days \cup {0},
            routes : SUBSET Routes, route : Routes \cup {"none"}, answer : Answers]

\* Every table and every worker has its type.
MediaShape ==
  /\ run \in [Runs -> RunStates]
  /\ step \in [Runs -> StepRows]
  /\ quality \in [Runs -> QualityRows]
  /\ video \in [Runs -> [Ops -> [Tries -> VideoRows]]]
  /\ holder \in [Runs -> Workers]
  /\ made \in [Runs -> [Tries -> {0, 1}]]

\* The books of the quota have their types.
Books == used \in [Days -> Nat] /\ reserved \in [Days -> Nat] /\ today \in Days

\* The receipt of r is in order: as many checks as generations, results are
\* those of generations of its operation, and a correction only follows a result.
InOrder(r) ==
  /\ Len(quality[r].checks) = Len(quality[r].gens)
  /\ Len(quality[r].gens) <= 2
  /\ quality[r].results <= Len(quality[r].gens)
  /\ quality[r].selected <= quality[r].results
  /\ Len(quality[r].gens) = 2 => quality[r].results >= 1
  /\ Len(quality[r].gens) # 0 => quality[r].op # NoOp

\* A worker is one of a run that was claimed, a step that succeeded is not
\* worked on, and only such a step has a result.
Settled(r) ==
  /\ holder[r].at # "idle" => run[r] \in {"running", "cancelled"} /\ holder[r].op \in Ops
  /\ step[r].status = "succeeded" => holder[r].at \in {"idle", "open", "done", "lost"}
  /\ step[r].result # 0 => step[r].status = "succeeded"

Unanswering == {"generate", "answer", "submit", "create", "accepted", "rejected", "poll"}
Checking == {"check", "assess"}

\* Where the loop stands in the receipt.
InLoop(r) ==
  /\ holder[r].at \in Unanswering \cup Checking \cup {"attempt"} =>
       quality[r].op \in {NoOp, holder[r].op}
  /\ holder[r].at \in Unanswering \cup Checking =>
       quality[r].op = holder[r].op /\ holder[r].attempt <= Len(quality[r].gens)
  /\ holder[r].at \in Unanswering => quality[r].results < holder[r].attempt
  /\ holder[r].at \in Checking => holder[r].attempt <= quality[r].results
  /\ holder[r].attempt = 2 => quality[r].results >= 1

\* The receipts of videos belong to the operation of the run, and tell what
\* the provider may have made.
OfVideos(r) ==
  /\ \A op \in Ops, a \in Tries :
       video[r][op][a].phase # "none" => quality[r].op = op
  /\ \A op \in Ops, a \in Tries :
       video[r][op][a].phase \in {"accepted", "completed"} => made[r][a] = 1
  /\ r \in Videos => \A a \in Tries : made[r][a] = 1 =>
       \E op \in Ops : video[r][op][a].phase \notin {"none", "rejected"}
  /\ holder[r].at \in {"create", "accepted", "rejected"} => Receipt(r).phase = "creating"

\* Before the provider is asked it has made nothing for the attempt.
Owed(r) ==
  /\ \A a \in Tries : made[r][a] = 1 => a <= Len(quality[r].gens)
  /\ \A a \in Tries : a <= quality[r].results => made[r][a] = 1
  /\ holder[r].at = "generate" /\ r \notin Videos => made[r][holder[r].attempt] = 0
  /\ holder[r].at \in {"submit", "create", "rejected"} => made[r][holder[r].attempt] = 0
  /\ holder[r].at \in {"accepted", "poll"} => made[r][holder[r].attempt] = 1
  /\ holder[r].at = "answer" /\ holder[r].answer = "artifact" => made[r][holder[r].attempt] = 1

Accountable(r) == InOrder(r) /\ Settled(r) /\ InLoop(r) /\ OfVideos(r) /\ Owed(r)

\* The inductive invariant of the refinement.
MediaIInv == MediaShape /\ \A r \in Runs : Accountable(r)

-----------------------------------------------------------------------------
(* The rows of the other runs, and the updates the steps are made of.      *)

\* The rows of r are as before.
RowsKept(r) ==
  /\ run'[r] = run[r] /\ step'[r] = step[r] /\ quality'[r] = quality[r]
  /\ video'[r] = video[r] /\ holder'[r] = holder[r] /\ made'[r] = made[r]

\* What is said of a run only depends on its rows.
LEMMA KeptRowsStayAccountable ==
  ASSUME NEW r \in Runs, Accountable(r), RowsKept(r)
  PROVE  Accountable(r)'
  BY DEF RowsKept, Accountable, InOrder, Settled, InLoop, OfVideos, Owed, Receipt

\* A step that touches the rows of one run has to account for that run only.
LEMMA OneRunMoves ==
  ASSUME MediaIInv, MediaShape', NEW r \in Runs, Accountable(r)',
         \A s \in Runs \ {r} : RowsKept(s)
  PROVE  MediaIInv'
  <1>1. ASSUME NEW s \in Runs \ {r} PROVE Accountable(s)'
    BY <1>1, KeptRowsStayAccountable DEF MediaIInv
  <1> QED BY <1>1 DEF MediaIInv

\* The worker of r goes to another place.
LEMMA GotoMoves ==
  ASSUME MediaShape, NEW r \in Runs, NEW place \in Places, Goto(r, place)
  PROVE  /\ holder' \in [Runs -> Workers]
         /\ \A s \in Runs \ {r} : holder'[s] = holder[s]
         /\ holder'[r].at = place /\ holder'[r].op = holder[r].op
         /\ holder'[r].attempt = holder[r].attempt /\ holder'[r].day = holder[r].day
         /\ holder'[r].answer = holder[r].answer
  <1>1. PICK h \in Workers : h = [holder[r] EXCEPT !.at = place]
    BY DEF MediaShape, Workers
  <1>2. holder' = [holder EXCEPT ![r] = h]
    BY <1>1 DEF Goto
  <1>3. h.at = place /\ h.op = holder[r].op /\ h.attempt = holder[r].attempt
        /\ h.day = holder[r].day /\ h.answer = holder[r].answer
    BY <1>1 DEF MediaShape, Workers
  <1> QED BY <1>2, <1>3 DEF MediaShape

\* The worker of r has an answer of the provider.
LEMMA AnswerMoves ==
  ASSUME MediaShape, NEW r \in Runs, NEW word \in Answers, Answer(r, word)
  PROVE  /\ holder' \in [Runs -> Workers]
         /\ \A s \in Runs \ {r} : holder'[s] = holder[s]
         /\ holder'[r].at = "answer" /\ holder'[r].op = holder[r].op
         /\ holder'[r].attempt = holder[r].attempt /\ holder'[r].day = holder[r].day
         /\ holder'[r].answer = word
  <1>0. "answer" \in Places
    BY DEF Places
  <1>1. PICK h \in Workers : h = [holder[r] EXCEPT !.at = "answer", !.answer = word]
    BY <1>0 DEF MediaShape, Workers
  <1>2. holder' = [holder EXCEPT ![r] = h]
    BY <1>1 DEF Answer
  <1>3. h.at = "answer" /\ h.op = holder[r].op /\ h.attempt = holder[r].attempt
        /\ h.day = holder[r].day /\ h.answer = word
    BY <1>1 DEF MediaShape, Workers
  <1> QED BY <1>2, <1>3 DEF MediaShape

\* A receipt is written; only its own row changes.
LEMMA QualityMoves ==
  ASSUME MediaShape, NEW r \in Runs, NEW q \in QualityRows, SaveQuality(r, q)
  PROVE  /\ quality' \in [Runs -> QualityRows] /\ quality'[r] = q
         /\ \A s \in Runs \ {r} : quality'[s] = quality[s]
  BY DEF SaveQuality, MediaShape

\* A receipt of a video is written.
LEMMA ReceiptMoves ==
  ASSUME MediaShape, NEW r \in Runs, NEW v \in VideoRows, SaveReceipt(r, v),
         holder[r].op \in Ops
  PROVE  /\ video' \in [Runs -> [Ops -> [Tries -> VideoRows]]]
         /\ \A s \in Runs \ {r} : video'[s] = video[s]
         /\ video'[r][holder[r].op][holder[r].attempt] = v
         /\ \A op \in Ops, a \in Tries :
              op # holder[r].op \/ a # holder[r].attempt => video'[r][op][a] = video[r][op][a]
  <1>1. holder[r].attempt \in Tries
    BY DEF MediaShape, Workers
  <1>2. PICK o \in Ops, a \in Tries : o = holder[r].op /\ a = holder[r].attempt
    BY <1>1
  <1>3. video' = [video EXCEPT ![r][o][a] = v]
    BY <1>2 DEF SaveReceipt
  <1>4. video[r] \in [Ops -> [Tries -> VideoRows]] /\ video[r][o] \in [Tries -> VideoRows]
    BY DEF MediaShape
  <1>5. PICK w \in [Tries -> VideoRows] : w = [video[r][o] EXCEPT ![a] = v]
    BY <1>4
  <1>6. PICK x \in [Ops -> [Tries -> VideoRows]] : x = [video[r] EXCEPT ![o] = w]
    BY <1>4
  <1>7. video' = [video EXCEPT ![r] = x]
    BY <1>3, <1>5, <1>6
  <1>8. x[o][a] = v /\ \A op \in Ops, b \in Tries : op # o \/ b # a => x[op][b] = video[r][op][b]
    BY <1>4, <1>5, <1>6
  <1> QED BY <1>2, <1>7, <1>8 DEF MediaShape

\* The provider made something for the attempt of r.
LEMMA MadeMoves ==
  ASSUME MediaShape, NEW r \in Runs, NEW a \in Tries, made[r][a] = 0,
         made' = [made EXCEPT ![r][a] = @ + 1]
  PROVE  /\ made' \in [Runs -> [Tries -> {0, 1}]]
         /\ \A s \in Runs \ {r} : made'[s] = made[s]
         /\ made'[r][a] = 1
         /\ \A b \in Tries \ {a} : made'[r][b] = made[r][b]
         /\ made' = [made EXCEPT ![r][a] = 1]
  <1>1. made[r] \in [Tries -> {0, 1}]
    BY DEF MediaShape
  <1>2. PICK m \in [Tries -> {0, 1}] : m = [made[r] EXCEPT ![a] = 1]
    BY <1>1
  <1>3. made' = [made EXCEPT ![r][a] = 1]
    <2>1. made[r][a] + 1 = 1
      OBVIOUS
    <2> QED BY <2>1
  <1>4. made' = [made EXCEPT ![r] = m]
    BY <1>2, <1>3
  <1>5. m[a] = 1 /\ \A b \in Tries \ {a} : m[b] = made[r][b]
    BY <1>1, <1>2
  <1> QED BY <1>3, <1>4, <1>5 DEF MediaShape

-----------------------------------------------------------------------------
(* Each step keeps the books of a task in order.                           *)

\* The worker of r only moves on.
LEMMA GotoKeeps ==
  ASSUME MediaIInv, NEW r \in Runs, NEW place \in Places \ {"idle"}, Goto(r, place),
         holder[r].at # "idle",
         UNCHANGED <<run, step, quality, video, made>>,
         step[r].status = "succeeded" => place \in {"open", "done", "lost"},
         place \in Unanswering \cup Checking \cup {"attempt"} =>
           quality[r].op \in {NoOp, holder[r].op},
         place \in Unanswering \cup Checking =>
           quality[r].op = holder[r].op /\ holder[r].attempt <= Len(quality[r].gens),
         place \in Unanswering => quality[r].results < holder[r].attempt,
         place \in Checking => holder[r].attempt <= quality[r].results,
         place \in {"create", "accepted", "rejected"} => Receipt(r).phase = "creating",
         place = "generate" /\ r \notin Videos => made[r][holder[r].attempt] = 0,
         place \in {"submit", "create", "rejected"} => made[r][holder[r].attempt] = 0,
         place \in {"accepted", "poll"} => made[r][holder[r].attempt] = 1,
         place # "answer"
  PROVE  MediaIInv'
  <1>0. MediaShape /\ Accountable(r) /\ place \in Places
    BY DEF MediaIInv
  <1>1. /\ holder' \in [Runs -> Workers]
        /\ \A s \in Runs \ {r} : holder'[s] = holder[s]
        /\ holder'[r].at = place /\ holder'[r].op = holder[r].op
        /\ holder'[r].attempt = holder[r].attempt
    BY <1>0, GotoMoves
  <1>2. MediaShape'
    BY <1>0, <1>1 DEF MediaShape
  <1>3. Accountable(r)'
    <2>1. InOrder(r)'
      BY <1>0 DEF Accountable, InOrder
    <2>2. Settled(r)'
      BY <1>0, <1>1 DEF Accountable, Settled
    <2>3. InLoop(r)'
      BY <1>0, <1>1 DEF Accountable, InLoop
    <2>4. OfVideos(r)'
      BY <1>0, <1>1 DEF Accountable, OfVideos, Receipt
    <2>5. Owed(r)'
      BY <1>0, <1>1 DEF Accountable, Owed
    <2> QED BY <2>1, <2>2, <2>3, <2>4, <2>5 DEF Accountable
  <1>4. \A s \in Runs \ {r} : RowsKept(s)
    BY <1>1 DEF RowsKept
  <1> QED BY <1>2, <1>3, <1>4, OneRunMoves

\* The worker of r gets an answer of the provider that is not an artifact, or
\* one that was made.
LEMMA AnswerKeeps ==
  ASSUME MediaIInv, NEW r \in Runs, NEW word \in Answers, Answer(r, word),
         holder[r].at \in Unanswering,
         UNCHANGED <<run, step, quality, video>>,
         made' = made \/ (/\ made[r][holder[r].attempt] = 0
                          /\ made' = [made EXCEPT ![r][holder[r].attempt] = @ + 1]
                          /\ r \in Videos => Receipt(r).phase = "creating"),
         word = "artifact" => made'[r][holder[r].attempt] = 1
  PROVE  MediaIInv'
  <1>0. MediaShape /\ Accountable(r) /\ holder[r].attempt \in Tries
    BY DEF MediaIInv, MediaShape, Workers
  <1>1. /\ holder' \in [Runs -> Workers]
        /\ \A s \in Runs \ {r} : holder'[s] = holder[s]
        /\ holder'[r].at = "answer" /\ holder'[r].op = holder[r].op
        /\ holder'[r].attempt = holder[r].attempt /\ holder'[r].answer = word
    BY <1>0, AnswerMoves
  <1>2. /\ made' \in [Runs -> [Tries -> {0, 1}]]
        /\ \A s \in Runs \ {r} : made'[s] = made[s]
        /\ \A b \in Tries \ {holder[r].attempt} : made'[r][b] = made[r][b]
        /\ \/ made'[r][holder[r].attempt] = made[r][holder[r].attempt]
           \/ /\ made'[r][holder[r].attempt] = 1
              /\ r \in Videos => Receipt(r).phase = "creating"
    <2>1. CASE made' = made
      <3>1. made \in [Runs -> [Tries -> {0, 1}]]
        BY <1>0 DEF MediaShape
      <3> QED BY <2>1, <3>1
    <2>2. CASE /\ made[r][holder[r].attempt] = 0
               /\ made' = [made EXCEPT ![r][holder[r].attempt] = @ + 1]
               /\ r \in Videos => Receipt(r).phase = "creating"
      BY <2>2, <1>0, MadeMoves
    <2> QED BY <2>1, <2>2
  <1>3. MediaShape'
    BY <1>0, <1>1, <1>2 DEF MediaShape
  <1>4. Accountable(r)'
    <2>1. InOrder(r)'
      BY <1>0 DEF Accountable, InOrder
    <2>2. Settled(r)'
      BY <1>0, <1>1 DEF Accountable, Settled, Unanswering
    <2>3. InLoop(r)'
      BY <1>0, <1>1 DEF Accountable, InLoop, Unanswering, Checking
    <2>4. OfVideos(r)'
      <3>1. holder[r].op \in Ops
        BY <1>0 DEF Accountable, Settled, Unanswering
      <3>2. \A op \in Ops, a \in Tries :
              video[r][op][a].phase \in {"accepted", "completed"} => made'[r][a] = 1
        BY <1>0, <1>2 DEF Accountable, OfVideos
      <3>3. ASSUME r \in Videos, NEW a \in Tries, made'[r][a] = 1
            PROVE  \E op \in Ops : video[r][op][a].phase \notin {"none", "rejected"}
        <4>1. CASE made[r][a] = 1
          BY <4>1, <3>3, <1>0 DEF Accountable, OfVideos
        <4>2. CASE made[r][a] # 1
          BY <4>2, <3>1, <3>3, <1>0, <1>2 DEF Receipt
        <4> QED BY <4>1, <4>2
      <3> QED BY <1>0, <1>1, <3>2, <3>3 DEF Accountable, OfVideos
    <2>5. Owed(r)'
      <3>1. \A a \in Tries : made'[r][a] = 1 => a <= Len(quality[r].gens)
        BY <1>0, <1>2 DEF Accountable, Owed, InLoop
      <3>2. \A a \in Tries : a <= quality[r].results => made'[r][a] = 1
        BY <1>0, <1>2 DEF Accountable, Owed
      <3> QED BY <1>0, <1>1, <3>1, <3>2 DEF Accountable, Owed
    <2> QED BY <2>1, <2>2, <2>3, <2>4, <2>5 DEF Accountable
  <1>5. \A s \in Runs \ {r} : RowsKept(s)
    BY <1>1, <1>2 DEF RowsKept
  <1> QED BY <1>3, <1>4, <1>5, OneRunMoves

LEMMA TakeKeeps ==
  ASSUME MediaIInv, NEW r \in Runs, NEW op \in Ops, Take(r, op)
  PROVE  MediaIInv'
  <1>0. MediaShape /\ Accountable(r)
    BY DEF MediaIInv
  <1>1. PICK h \in Workers : h = [Idle EXCEPT !.at = "open", !.op = op]
    BY DEF Workers, Idle, Places, Tries, Answers
  <1>2. h.at = "open" /\ h.op = op /\ h.attempt = 1
    BY <1>1 DEF Idle
  <1>3. holder' = [holder EXCEPT ![r] = h] /\ run' = [run EXCEPT ![r] = "running"]
        /\ UNCHANGED <<step, quality, video, made>>
    BY <1>1 DEF Take
  <1>4. MediaShape'
    BY <1>0, <1>3 DEF MediaShape, RunStates
  <1>5. holder'[r] = h /\ run'[r] = "running"
    BY <1>0, <1>3 DEF MediaShape
  <1>6. Accountable(r)'
    <2>1. InOrder(r)'
      BY <1>0, <1>3 DEF Accountable, InOrder
    <2>2. Settled(r)'
      BY <1>0, <1>2, <1>3, <1>5 DEF Accountable, Settled
    <2>3. InLoop(r)'
      BY <1>0, <1>2, <1>3, <1>5 DEF Accountable, InLoop, Unanswering, Checking
    <2>4. OfVideos(r)'
      BY <1>0, <1>2, <1>3, <1>5 DEF Accountable, OfVideos
    <2>5. Owed(r)'
      BY <1>0, <1>2, <1>3, <1>5 DEF Accountable, Owed
    <2> QED BY <2>1, <2>2, <2>3, <2>4, <2>5 DEF Accountable
  <1>7. \A s \in Runs \ {r} : RowsKept(s)
    BY <1>3 DEF RowsKept
  <1> QED BY <1>4, <1>6, <1>7, OneRunMoves

\* The step of r gets another row, and its worker goes to another place.
LEMMA StepKeeps ==
  ASSUME MediaIInv, NEW r \in Runs, NEW row \in StepRows,
         NEW place \in {"reserve", "done", "lost"}, Goto(r, place),
         step' = [step EXCEPT ![r] = row], holder[r].at # "idle",
         row.status = "succeeded" => place \in {"done", "lost"},
         row.result # 0 => row.status = "succeeded",
         UNCHANGED <<run, quality, video, made>>
  PROVE  MediaIInv'
  <1>0. MediaShape /\ Accountable(r) /\ place \in Places
    BY DEF MediaIInv, Places
  <1>1. /\ holder' \in [Runs -> Workers]
        /\ \A s \in Runs \ {r} : holder'[s] = holder[s]
        /\ holder'[r].at = place /\ holder'[r].op = holder[r].op
        /\ holder'[r].attempt = holder[r].attempt
    BY <1>0, GotoMoves
  <1>2. MediaShape' /\ step'[r] = row
    BY <1>0, <1>1 DEF MediaShape
  <1>3. Accountable(r)'
    <2>1. InOrder(r)'
      BY <1>0 DEF Accountable, InOrder
    <2>2. Settled(r)'
      BY <1>0, <1>1, <1>2 DEF Accountable, Settled
    <2>3. InLoop(r)'
      BY <1>0, <1>1 DEF Accountable, InLoop, Unanswering, Checking
    <2>4. OfVideos(r)'
      BY <1>0, <1>1 DEF Accountable, OfVideos
    <2>5. Owed(r)'
      BY <1>0, <1>1 DEF Accountable, Owed
    <2> QED BY <2>1, <2>2, <2>3, <2>4, <2>5 DEF Accountable
  <1>4. \A s \in Runs \ {r} : RowsKept(s)
    BY <1>1 DEF RowsKept
  <1> QED BY <1>2, <1>3, <1>4, OneRunMoves

LEMMA StepActionsKeep ==
  ASSUME MediaIInv, NEW r \in Runs, OpenStep(r) \/ FinishStep(r) \/ FailStep(r)
  PROVE  MediaIInv'
  <1>0. /\ MediaShape /\ Accountable(r) /\ step[r] \in StepRows
        /\ quality[r].selected \in 0..2
    BY DEF MediaIInv, MediaShape, QualityRows
  <1>1. CASE OpenStep(r)
    <2>1. holder[r].at = "open" /\ UNCHANGED <<run, quality, video, made>>
      BY <1>1 DEF OpenStep, At
    <2>2. CASE /\ step[r].status = "succeeded"
               /\ Goto(r, "done") /\ UNCHANGED step
      BY <2>1, <2>2, GotoKeeps DEF Places, Unanswering, Checking
    <2>3. CASE Uncertain(r) /\ Goto(r, "lost") /\ UNCHANGED step
      BY <2>1, <2>3, GotoKeeps DEF Places, Unanswering, Checking
    <2>4. CASE /\ step[r].status # "succeeded" /\ ~ Uncertain(r)
               /\ step' = [step EXCEPT ![r].status = "running"]
               /\ Goto(r, "reserve")
      <3>1. PICK row \in StepRows : row = [step[r] EXCEPT !.status = "running"]
        BY <1>0 DEF StepRows
      <3>2. row.status = "running" /\ row.result = 0
        BY <1>0, <2>4, <3>1 DEF Accountable, Settled, StepRows
      <3>3. step' = [step EXCEPT ![r] = row]
        BY <2>4, <3>1
      <3> QED BY <2>1, <2>4, <3>2, <3>3, StepKeeps
    <2> QED BY <1>1, <2>2, <2>3, <2>4 DEF OpenStep
  <1>2. CASE FinishStep(r)
    <2>1. PICK row \in StepRows :
            row = [status |-> "succeeded", result |-> quality[r].selected]
      BY <1>0 DEF StepRows
    <2>2. row.status = "succeeded" /\ step' = [step EXCEPT ![r] = row]
      BY <1>2, <2>1 DEF FinishStep
    <2> QED BY <1>2, <2>2, StepKeeps DEF FinishStep, At
  <1>3. CASE FailStep(r)
    <2>1. PICK row \in StepRows : row = [status |-> "failed", result |-> 0]
      <3>1. 0 \in 0..2
        OBVIOUS
      <3> QED BY <3>1 DEF StepRows
    <2>2. row.status = "failed" /\ row.result = 0 /\ step' = [step EXCEPT ![r] = row]
      BY <1>3, <2>1 DEF FailStep
    <2> QED BY <1>3, <2>2, StepKeeps DEF FailStep, At
  <1> QED BY <1>1, <1>2, <1>3

Quiet == {"idle", "open", "reserve", "resume", "charge", "finish", "release", "failed",
          "done", "lost"}

\* Outside the loop the worker only has to belong to a claimed run.
LEMMA QuietKeeps ==
  ASSUME MediaIInv, MediaShape', NEW r \in Runs,
         holder'[r].at \in Quiet, holder'[r].attempt \in {1, holder[r].attempt},
         Settled(r)', InOrder(r)',
         UNCHANGED <<video, made>>,
         \A s \in Runs \ {r} :
           /\ run'[s] = run[s] /\ step'[s] = step[s] /\ quality'[s] = quality[s]
           /\ holder'[s] = holder[s],
         quality'[r].op = quality[r].op, quality'[r].results = quality[r].results,
         Len(quality'[r].gens) = Len(quality[r].gens)
  PROVE  MediaIInv'
  <1>0. MediaShape /\ Accountable(r)
    BY DEF MediaIInv
  <1>1. InLoop(r)'
    BY <1>0 DEF Accountable, InLoop, Quiet, Unanswering, Checking
  <1>2. OfVideos(r)'
    BY <1>0 DEF Accountable, OfVideos, Quiet
  <1>3. Owed(r)'
    BY <1>0 DEF Accountable, Owed, Quiet
  <1>4. \A s \in Runs \ {r} : RowsKept(s)
    BY DEF RowsKept
  <1> QED BY <1>1, <1>2, <1>3, <1>4, OneRunMoves DEF Accountable

LEMMA EndRunKeeps ==
  ASSUME MediaIInv, NEW r \in Runs, EndRun(r)
  PROVE  MediaIInv'
  <1>0. MediaShape /\ Accountable(r)
    BY DEF MediaIInv
  <1>1. Idle \in Workers /\ Idle.at = "idle" /\ Idle.attempt = 1
    BY DEF Workers, Idle, Places, Tries, Answers
  <1>2. PICK end \in {"delivered", "failed"} :
          run' = [run EXCEPT ![r] = IF @ = "running" THEN end ELSE @]
    BY DEF EndRun
  <1>3. holder' = [holder EXCEPT ![r] = Idle] /\ UNCHANGED <<step, quality, video, made>>
    BY DEF EndRun
  <1>4. run' \in [Runs -> RunStates] /\ \A s \in Runs \ {r} : run'[s] = run[s]
    BY <1>0, <1>2 DEF MediaShape, RunStates
  <1>5. MediaShape' /\ holder'[r] = Idle /\ \A s \in Runs \ {r} : holder'[s] = holder[s]
    BY <1>0, <1>1, <1>3, <1>4 DEF MediaShape
  <1>6. Settled(r)' /\ InOrder(r)'
    BY <1>0, <1>1, <1>3, <1>5 DEF Accountable, Settled, InOrder
  <1> QED BY <1>1, <1>3, <1>4, <1>5, <1>6, QuietKeeps DEF Quiet

LEMMA RetryMediaKeeps ==
  ASSUME MediaIInv, NEW r \in Runs, RetryMedia(r)
  PROVE  MediaIInv'
  <1>0. MediaShape /\ Accountable(r) /\ step[r] \in StepRows
    BY DEF MediaIInv, MediaShape
  <1>1. /\ run[r] = "failed" /\ run' = [run EXCEPT ![r] = "queued"]
        /\ UNCHANGED <<quality, video, holder, made>>
    BY DEF RetryMedia
  <1>2. holder[r].at = "idle"
    BY <1>0, <1>1 DEF Accountable, Settled
  <1>3. PICK row \in StepRows : row = [status |-> "pending", result |-> 0]
    <2>1. 0 \in 0..2
      OBVIOUS
    <2> QED BY <2>1 DEF StepRows
  <1>4. row.status = "pending" /\ row.result = 0
    BY <1>3
  <1>5. step' = step \/ step' = [step EXCEPT ![r] = row]
    BY <1>3 DEF RetryMedia
  <1>6. /\ step' \in [Runs -> StepRows] /\ step'[r] \in {step[r], row}
        /\ \A s \in Runs \ {r} : step'[s] = step[s]
    BY <1>0, <1>5 DEF MediaShape
  <1>7. run' \in [Runs -> RunStates] /\ \A s \in Runs \ {r} : run'[s] = run[s]
    BY <1>0, <1>1 DEF MediaShape, RunStates
  <1>8. MediaShape'
    BY <1>0, <1>1, <1>6, <1>7 DEF MediaShape
  <1>9. Settled(r)' /\ InOrder(r)'
    BY <1>0, <1>1, <1>2, <1>4, <1>6 DEF Accountable, Settled, InOrder
  <1> QED BY <1>1, <1>2, <1>6, <1>7, <1>8, <1>9, QuietKeeps DEF Quiet

LEMMA CancelMediaKeeps ==
  ASSUME MediaIInv, NEW r \in Runs, CancelMedia(r)
  PROVE  MediaIInv'
  <1>0. MediaShape /\ Accountable(r) /\ step[r] \in StepRows /\ holder[r] \in Workers
    BY DEF MediaIInv, MediaShape
  <1>1. run' = [run EXCEPT ![r] = "cancelled"] /\ UNCHANGED <<quality, video, made>>
    BY DEF CancelMedia
  <1>2. PICK row \in StepRows :
          row = IF step[r].status \in {"pending", "running"}
                THEN [step[r] EXCEPT !.status = "cancelled"] ELSE step[r]
    BY <1>0 DEF StepRows
  <1>3. /\ row.result = step[r].result
        /\ \/ row.status = step[r].status
           \/ row.status = "cancelled" /\ step[r].status # "succeeded"
    BY <1>0, <1>2 DEF StepRows
  <1>4. \/ step' = step /\ row = step[r]
        \/ step' = [step EXCEPT ![r] = row]
    BY <1>2 DEF CancelMedia
  <1>5. /\ step' \in [Runs -> StepRows] /\ step'[r] = row
        /\ \A s \in Runs \ {r} : step'[s] = step[s]
    BY <1>0, <1>4 DEF MediaShape
  <1>6. PICK h \in Workers : h = IF holder[r].at \in Cancellable
                                 THEN [holder[r] EXCEPT !.at = "release"] ELSE holder[r]
    BY <1>0 DEF Workers, Places
  <1>7. /\ h.attempt = holder[r].attempt /\ h.op = holder[r].op
        /\ \/ h.at = holder[r].at /\ h.at \notin Cancellable
           \/ h.at = "release" /\ holder[r].at \in Cancellable
    BY <1>0, <1>6 DEF Workers
  <1>8. \/ holder' = holder /\ h = holder[r]
        \/ holder' = [holder EXCEPT ![r] = h]
    BY <1>6 DEF CancelMedia
  <1>9. /\ holder' \in [Runs -> Workers] /\ holder'[r] = h
        /\ \A s \in Runs \ {r} : holder'[s] = holder[s]
    BY <1>0, <1>8 DEF MediaShape
  <1>10. h.at \in Quiet
    BY <1>7 DEF Workers, Places, Quiet, Cancellable
  <1>11. /\ run' \in [Runs -> RunStates] /\ run'[r] = "cancelled"
         /\ \A s \in Runs \ {r} : run'[s] = run[s]
    BY <1>0, <1>1 DEF MediaShape, RunStates
  <1>12. MediaShape'
    BY <1>0, <1>1, <1>5, <1>9, <1>11 DEF MediaShape
  <1>13. Settled(r)' /\ InOrder(r)'
    BY <1>0, <1>1, <1>3, <1>5, <1>7, <1>9, <1>11
       DEF Accountable, Settled, InOrder, Cancellable
  <1> QED BY <1>1, <1>5, <1>7, <1>9, <1>10, <1>11, <1>12, <1>13, QuietKeeps

\* What only concerns the quota: the worker goes to a quiet place.
LEMMA QuotaMoveKeeps ==
  ASSUME MediaIInv, NEW r \in Runs, NEW h \in Workers,
         holder' = [holder EXCEPT ![r] = h], holder[r].at # "idle",
         h.at \in {"resume", "finish", "failed", "release", "charge"},
         h.op = holder[r].op, h.attempt = holder[r].attempt,
         holder[r].at \notin {"open", "done", "lost"},
         UNCHANGED <<run, step, quality, video, made>>
  PROVE  MediaIInv'
  <1>0. MediaShape /\ Accountable(r)
    BY DEF MediaIInv
  <1>1. MediaShape' /\ holder'[r] = h /\ \A s \in Runs \ {r} : holder'[s] = holder[s]
    BY <1>0 DEF MediaShape
  <1>2. Settled(r)' /\ InOrder(r)'
    BY <1>0, <1>1 DEF Accountable, Settled, InOrder
  <1> QED BY <1>1, <1>2, QuietKeeps DEF Quiet

LEMMA QuotaActionsKeep ==
  ASSUME MediaIInv, Books, NEW r \in Runs,
         Reserve(r) \/ ChargeExempt(r) \/ Commit(r) \/ Release(r) \/ LoseRelease(r)
  PROVE  MediaIInv'
  <1>0. MediaShape /\ Accountable(r) /\ holder[r] \in Workers
    BY DEF MediaIInv, MediaShape
  <1>1. UNCHANGED <<run, step, quality, video, made>>
    BY DEF Reserve, ChargeExempt, Commit, Release, LoseRelease, ReleaseTo, tables
  <1>2. holder[r].at \in {"reserve", "charge", "release"}
    BY DEF Reserve, ChargeExempt, Commit, Release, LoseRelease, ReleaseTo, At
  <1>3. ASSUME NEW place \in {"resume", "failed", "finish"}, Goto(r, place)
        PROVE  MediaIInv'
    <2>1. PICK h \in Workers : h = [holder[r] EXCEPT !.at = place]
      BY <1>0 DEF Workers, Places
    <2>2. h.at = place /\ h.op = holder[r].op /\ h.attempt = holder[r].attempt
      BY <1>0, <2>1 DEF Workers
    <2>3. holder' = [holder EXCEPT ![r] = h]
      BY <1>3, <2>1 DEF Goto
    <2> QED BY <1>1, <1>2, <2>2, <2>3, QuotaMoveKeeps
  <1>4. ASSUME NEW place \in {"resume", "failed", "finish"}, NEW day \in Days \cup {0},
               holder' = [holder EXCEPT ![r].at = place, ![r].day = day]
        PROVE  MediaIInv'
    <2>1. PICK h \in Workers : h = [holder[r] EXCEPT !.at = place, !.day = day]
      BY <1>0 DEF Workers, Places
    <2>2. h.at = place /\ h.op = holder[r].op /\ h.attempt = holder[r].attempt
      BY <1>0, <2>1 DEF Workers
    <2>3. holder' = [holder EXCEPT ![r] = h]
      BY <1>4, <2>1
    <2> QED BY <1>1, <1>2, <2>2, <2>3, QuotaMoveKeeps
  <1>5. CASE Reserve(r)
    <2>1. \/ Goto(r, "resume") \/ Goto(r, "failed")
          \/ holder' = [holder EXCEPT ![r].at = "resume", ![r].day = today]
      BY <1>5 DEF Reserve
    <2>2. today \in Days \cup {0}
      BY DEF Books
    <2> QED BY <2>1, <2>2, <1>3, <1>4
  <1>6. CASE ChargeExempt(r)
    BY <1>3, <1>6 DEF ChargeExempt
  <1>7. CASE Commit(r)
    BY <1>4, <1>7 DEF Commit
  <1>8. CASE Release(r) \/ LoseRelease(r)
    BY <1>4, <1>8 DEF Release, LoseRelease, ReleaseTo
  <1> QED BY <1>5, <1>6, <1>7, <1>8

\* An entry of a sequence is overwritten.
LEMMA Overwritten ==
  ASSUME NEW S, NEW s \in Seq(S), NEW x \in S, NEW a \in Nat
  PROVE  [s EXCEPT ![a] = x] \in Seq(S) /\ Len([s EXCEPT ![a] = x]) = Len(s)
  <1>1. CASE a \in 1..Len(s)
    BY <1>1, ExceptSeq
  <1>2. CASE a \notin 1..Len(s)
    <2>1. s = [i \in 1..Len(s) |-> s[i]]
      OBVIOUS
    <2>2. [s EXCEPT ![a] = x] = s
      BY <1>2, <2>1
    <2> QED BY <2>2
  <1> QED BY <1>1, <1>2

LEMMA ResumeQualityKeeps ==
  ASSUME MediaIInv, NEW r \in Runs, ResumeQuality(r)
  PROVE  MediaIInv'
  <1>0. /\ holder[r].at = "resume" /\ UNCHANGED <<run, step, quality, video, made>>
        /\ step[r].status # "succeeded"
    BY DEF ResumeQuality, At, tables, MediaIInv, Accountable, Settled
  <1>1. CASE Goto(r, "charge") \/ Goto(r, "release")
    BY <1>0, <1>1, GotoKeeps DEF Places, Unanswering, Checking
  <1>2. CASE ~ OtherOperation(r) /\ Goto(r, "attempt")
    BY <1>0, <1>2, GotoKeeps DEF Places, Unanswering, Checking, OtherOperation
  <1> QED BY <1>1, <1>2 DEF ResumeQuality

LEMMA StartAttemptKeeps ==
  ASSUME MediaIInv, NEW r \in Runs, StartAttempt(r)
  PROVE  MediaIInv'
  <1>0. /\ MediaShape /\ Accountable(r) /\ quality[r] \in QualityRows
        /\ holder[r].at = "attempt" /\ holder[r].attempt \in Tries
        /\ Len(quality[r].gens) < holder[r].attempt
        /\ Goto(r, "generate") /\ UNCHANGED <<run, step, video, made>>
    BY DEF MediaIInv, MediaShape, StartAttempt, Fresh, At, Workers
  <1>1. /\ holder[r].op \in Ops /\ quality[r].op \in {NoOp, holder[r].op}
        /\ step[r].status # "succeeded"
    BY <1>0 DEF Accountable, Settled, InLoop
  <1>2. PICK gens \in Seq(GenStates) : /\ gens = Append(quality[r].gens, "started")
                                       /\ Len(gens) = Len(quality[r].gens) + 1
    <2>1. quality[r].gens \in Seq(GenStates) /\ "started" \in GenStates
      BY <1>0 DEF QualityRows, GenStates
    <2> QED BY <2>1, AppendProperties
  <1>3. PICK checks \in Seq(CheckStates) : /\ checks = Append(quality[r].checks, "pending")
                                           /\ Len(checks) = Len(quality[r].checks) + 1
    <2>1. quality[r].checks \in Seq(CheckStates) /\ "pending" \in CheckStates
      BY <1>0 DEF QualityRows, CheckStates
    <2> QED BY <2>1, AppendProperties
  <1>4. PICK q \in QualityRows :
          q = [quality[r] EXCEPT !.op = holder[r].op, !.gens = gens, !.checks = checks]
    BY <1>0, <1>1 DEF QualityRows
  <1>5. /\ q.op = holder[r].op /\ q.gens = gens /\ q.checks = checks
        /\ q.results = quality[r].results /\ q.selected = quality[r].selected
    BY <1>0, <1>4 DEF QualityRows
  <1>6. SaveQuality(r, q)
    BY <1>2, <1>3, <1>4 DEF StartAttempt
  <1>7. /\ quality' \in [Runs -> QualityRows] /\ quality'[r] = q
        /\ \A s \in Runs \ {r} : quality'[s] = quality[s]
    BY <1>0, <1>6, QualityMoves
  <1>8. /\ holder' \in [Runs -> Workers]
        /\ \A s \in Runs \ {r} : holder'[s] = holder[s]
        /\ holder'[r].at = "generate" /\ holder'[r].op = holder[r].op
        /\ holder'[r].attempt = holder[r].attempt
    <2>1. "generate" \in Places
      BY DEF Places
    <2> QED BY <1>0, <2>1, GotoMoves
  <1>9. MediaShape'
    BY <1>0, <1>7, <1>8 DEF MediaShape
  <1>10. /\ Len(quality[r].gens) \in Nat /\ quality[r].results \in 0..2
         /\ quality[r].results <= Len(quality[r].gens)
         /\ Len(gens) = holder[r].attempt
         /\ quality[r].results < holder[r].attempt
         /\ holder[r].attempt = 2 => quality[r].results >= 1
    BY <1>0, <1>2 DEF QualityRows, Tries, Accountable, InOrder, InLoop
  <1>11. Accountable(r)'
    <2>1. InOrder(r)'
      <3>1. /\ Len(checks) = Len(gens) /\ Len(gens) <= 2
            /\ q.results <= Len(gens) /\ q.selected <= q.results
            /\ Len(gens) = 2 => q.results >= 1
        BY <1>0, <1>2, <1>3, <1>5, <1>10 DEF Accountable, InOrder, Tries
      <3>2. q.op # NoOp
        BY <1>1, <1>5, MediaAssumption
      <3> QED BY <1>5, <1>7, <3>1, <3>2 DEF InOrder
    <2>2. Settled(r)'
      BY <1>0, <1>1, <1>8 DEF Accountable, Settled
    <2>3. InLoop(r)'
      BY <1>5, <1>7, <1>8, <1>10 DEF InLoop, Unanswering, Checking, Tries
    <2>4. OfVideos(r)'
      BY <1>0, <1>1, <1>5, <1>7, <1>8, MediaAssumption DEF Accountable, OfVideos
    <2>5. Owed(r)'
      <3>1. \A a \in Tries : made[r][a] \in {0, 1}
        BY <1>0 DEF MediaShape
      <3> QED BY <1>0, <1>5, <1>7, <1>8, <1>10, <3>1 DEF Accountable, Owed, Tries
    <2> QED BY <2>1, <2>2, <2>3, <2>4, <2>5 DEF Accountable
  <1>12. \A s \in Runs \ {r} : RowsKept(s)
    BY <1>0, <1>7, <1>8 DEF RowsKept
  <1> QED BY <1>9, <1>11, <1>12, OneRunMoves

LEMMA ReopenAttemptKeeps ==
  ASSUME MediaIInv, NEW r \in Runs, ReopenAttempt(r)
  PROVE  MediaIInv'
  <1>0. /\ MediaShape /\ Accountable(r) /\ quality[r] \in QualityRows
        /\ holder[r].at = "attempt" /\ holder[r].attempt \in Tries
        /\ ~ (Len(quality[r].gens) < holder[r].attempt)
        /\ UNCHANGED <<run, step, quality, video, made>>
    BY DEF MediaIInv, MediaShape, ReopenAttempt, Fresh, At, Workers, tables
  <1>1. /\ holder[r].op \in Ops /\ quality[r].op = holder[r].op
        /\ step[r].status # "succeeded"
        /\ holder[r].attempt <= Len(quality[r].gens)
    BY <1>0 DEF Accountable, Settled, InLoop, InOrder, QualityRows, Tries
  <1>2. \/ Goto(r, "release")
        \/ Goto(r, "check") /\ quality[r].results >= holder[r].attempt
        \/ Goto(r, "generate") /\ quality[r].results < holder[r].attempt /\ r \in Videos
    <2>1. quality[r].results >= holder[r].attempt \/ quality[r].results < holder[r].attempt
      BY <1>0 DEF QualityRows, Tries
    <2> QED BY <2>1 DEF ReopenAttempt, Resumable
  <1>3. CASE Goto(r, "release")
    BY <1>0, <1>1, <1>3, GotoKeeps DEF Places, Unanswering, Checking
  <1>4. CASE Goto(r, "check") /\ quality[r].results >= holder[r].attempt
    BY <1>0, <1>1, <1>4, GotoKeeps DEF Places, Unanswering, Checking, QualityRows, Tries
  <1>5. CASE Goto(r, "generate") /\ quality[r].results < holder[r].attempt /\ r \in Videos
    BY <1>0, <1>1, <1>5, GotoKeeps DEF Places, Unanswering, Checking
  <1> QED BY <1>2, <1>3, <1>4, <1>5

LEMMA GenerateImageKeeps ==
  ASSUME MediaIInv, NEW r \in Runs, GenerateImage(r)
  PROVE  /\ MediaIInv' /\ UNCHANGED step
         /\ made' = made \/ (/\ made[r][holder[r].attempt] = 0
                             /\ made' = [made EXCEPT ![r][holder[r].attempt] = @ + 1])
  <1>0. /\ holder[r].at = "generate" /\ r \notin Videos /\ holder[r].attempt \in Tries
        /\ UNCHANGED <<run, step, quality, video>>
        /\ made[r][holder[r].attempt] = 0 /\ holder \in [Runs -> Workers]
        /\ made[r] \in [Tries -> {0, 1}] /\ made \in [Runs -> [Tries -> {0, 1}]]
    BY DEF MediaIInv, MediaShape, Workers, GenerateImage, At, tables, Accountable, Owed
  <1>1. ASSUME NEW word \in Answers, Answer(r, word),
               \/ made' = [made EXCEPT ![r][holder[r].attempt] = @ + 1]
               \/ made' = made /\ word # "artifact"
        PROVE  MediaIInv'
    <2>1. made' = [made EXCEPT ![r][holder[r].attempt] = @ + 1]
            => made'[r][holder[r].attempt] = 1
      BY <1>0
    <2> QED BY <1>0, <1>1, <2>1, AnswerKeeps DEF Unanswering
  <1>2. \/ /\ Answer(r, "artifact") /\ made' = [made EXCEPT ![r][holder[r].attempt] = @ + 1]
        \/ \E word \in {"refused", "unavailable", "empty"} :
             /\ Answer(r, word)
             /\ made' \in {made, [made EXCEPT ![r][holder[r].attempt] = @ + 1]}
    BY DEF GenerateImage, Errors
  <1>3. MediaIInv'
    BY <1>1, <1>2 DEF Answers
  <1> QED BY <1>0, <1>2, <1>3

LEMMA AppearanceChangedKeeps ==
  ASSUME MediaIInv, NEW r \in Runs, AppearanceChanged(r)
  PROVE  MediaIInv'
  <1>0. UNCHANGED <<run, step, quality, video, made>>
    BY DEF AppearanceChanged, tables
  <1>1. CASE At(r, "generate") /\ Answer(r, "refused")
    BY <1>0, <1>1, AnswerKeeps DEF At, Unanswering, Answers
  <1>2. CASE At(r, "charge") /\ Goto(r, "release")
    <2>1. step[r].status # "succeeded"
      BY <1>2 DEF MediaIInv, Accountable, Settled, At
    <2> QED BY <1>0, <1>2, <2>1, GotoKeeps DEF At, Places, Unanswering, Checking
  <1> QED BY <1>1, <1>2 DEF AppearanceChanged

\* An answer or a check is written down.
LEMMA ReceiptKeeps ==
  ASSUME MediaIInv, NEW r \in Runs, NEW q \in QualityRows,
         NEW place \in {"check", "assess", "release", "charge"},
         SaveQuality(r, q), Goto(r, place),
         holder[r].at \in Checking \cup {"answer"},
         q.op = quality[r].op, Len(q.gens) = Len(quality[r].gens),
         Len(q.checks) = Len(quality[r].checks),
         q.results >= quality[r].results, q.results <= Len(q.gens), q.selected <= q.results,
         \A a \in Tries : a <= q.results => made[r][a] = 1,
         place \in Checking => holder[r].attempt <= q.results,
         UNCHANGED <<run, step, video, made>>
  PROVE  MediaIInv'
  <1>0. /\ MediaShape /\ Accountable(r) /\ quality[r] \in QualityRows
        /\ holder[r].at \notin {"idle", "open", "done", "lost"}
        /\ place \in Places
    BY DEF MediaIInv, MediaShape, Checking, Places
  <1>1. /\ quality' \in [Runs -> QualityRows] /\ quality'[r] = q
        /\ \A s \in Runs \ {r} : quality'[s] = quality[s]
    BY <1>0, QualityMoves
  <1>2. /\ holder' \in [Runs -> Workers]
        /\ \A s \in Runs \ {r} : holder'[s] = holder[s]
        /\ holder'[r].at = place /\ holder'[r].op = holder[r].op
        /\ holder'[r].attempt = holder[r].attempt
    BY <1>0, GotoMoves
  <1>3. MediaShape'
    BY <1>0, <1>1, <1>2 DEF MediaShape
  <1>4. q.results >= 1 <=> q.results # 0
    BY DEF QualityRows
  <1>5. Accountable(r)'
    <2>1. InOrder(r)'
      BY <1>0, <1>1 DEF Accountable, InOrder, QualityRows
    <2>2. Settled(r)'
      BY <1>0, <1>2 DEF Accountable, Settled
    <2>3. InLoop(r)'
      <3>1. holder[r].attempt = 2 => q.results >= 1
        BY <1>0 DEF Accountable, InLoop, QualityRows
      <3>2. /\ quality[r].op = holder[r].op
            /\ holder[r].attempt <= Len(quality[r].gens)
        BY <1>0 DEF Accountable, InLoop, Unanswering
      <3> QED BY <1>1, <1>2, <3>1, <3>2 DEF InLoop, Unanswering, Checking
    <2>4. OfVideos(r)'
      BY <1>0, <1>1, <1>2 DEF Accountable, OfVideos
    <2>5. Owed(r)'
      BY <1>0, <1>1, <1>2 DEF Accountable, Owed
    <2> QED BY <2>1, <2>2, <2>3, <2>4, <2>5 DEF Accountable
  <1>6. \A s \in Runs \ {r} : RowsKept(s)
    BY <1>1, <1>2 DEF RowsKept
  <1> QED BY <1>3, <1>5, <1>6, OneRunMoves

LEMMA HandleAnswerKeeps ==
  ASSUME MediaIInv, NEW r \in Runs, HandleAnswer(r)
  PROVE  MediaIInv'
  <1> DEFINE a == holder[r].attempt
             gensAs(word) == [quality[r].gens EXCEPT ![a] = word]
             checksAs(word) == [quality[r].checks EXCEPT ![a] = word]
  <1>0. /\ MediaShape /\ Accountable(r) /\ quality[r] \in QualityRows
        /\ holder[r].at = "answer" /\ a \in Tries /\ a \in Nat
        /\ UNCHANGED <<run, step, video, made>>
        /\ step[r].status # "succeeded"
    <2>1. MediaShape /\ Accountable(r) /\ holder[r].at = "answer"
      BY DEF MediaIInv, HandleAnswer, At
    <2>2. quality[r] \in QualityRows /\ a \in Tries /\ a \in Nat
      BY <2>1 DEF MediaShape, Workers, Tries
    <2>3. UNCHANGED <<run, step, video, made>>
      BY DEF HandleAnswer
    <2>4. step[r].status # "succeeded"
      BY <2>1 DEF Accountable, Settled
    <2> QED BY <2>1, <2>2, <2>3, <2>4
  <1>1. /\ quality[r].op = holder[r].op /\ a <= Len(quality[r].gens)
        /\ quality[r].results < a /\ quality[r].results + 1 \in 0..2
        /\ quality[r].results + 1 = a
        /\ quality[r].results <= Len(quality[r].gens)
        /\ quality[r].selected <= quality[r].results
        /\ \A b \in Tries : b <= quality[r].results => made[r][b] = 1
    BY <1>0 DEF Accountable, InOrder, InLoop, Owed, Unanswering, Tries, QualityRows
  <1>2. \A word \in GenStates : /\ gensAs(word) \in Seq(GenStates)
                                /\ Len(gensAs(word)) = Len(quality[r].gens)
    BY <1>0, Overwritten DEF QualityRows
  <1>3. \A word \in CheckStates : /\ checksAs(word) \in Seq(CheckStates)
                                  /\ Len(checksAs(word)) = Len(quality[r].checks)
    BY <1>0, Overwritten DEF QualityRows
  <1>4. CASE /\ holder[r].answer = "artifact"
             /\ SaveQuality(r, [quality[r] EXCEPT !.gens[a] = "completed", !.results = @ + 1])
             /\ Goto(r, "check")
    <2>1. PICK gens \in Seq(GenStates) : /\ gens = gensAs("completed")
                                         /\ Len(gens) = Len(quality[r].gens)
      BY <1>2 DEF GenStates
    <2>2. PICK n \in 0..2 : n = quality[r].results + 1
      BY <1>1
    <2>3. PICK q \in QualityRows : q = [quality[r] EXCEPT !.gens = gens, !.results = n]
      BY <1>0 DEF QualityRows
    <2>4. /\ q.op = quality[r].op /\ q.gens = gens /\ q.checks = quality[r].checks
          /\ q.results = n /\ q.selected = quality[r].selected
      BY <1>0, <2>3 DEF QualityRows
    <2>5. SaveQuality(r, q)
      BY <1>4, <2>1, <2>2, <2>3
    <2>6. made[r][a] = 1
      BY <1>0, <1>4 DEF Accountable, Owed
    <2>7. \A b \in Tries : b <= n => made[r][b] = 1
      <3>1. quality[r].results \in Nat
        BY <1>0 DEF QualityRows
      <3> QED BY <1>1, <2>2, <2>6, <3>1 DEF Tries
    <2>8. /\ n >= quality[r].results /\ n <= Len(gens) /\ quality[r].selected <= n
          /\ a <= n
      BY <1>0, <1>1, <2>1, <2>2 DEF QualityRows, Tries
    <2> QED BY <1>0, <1>4, <2>1, <2>4, <2>5, <2>7, <2>8, ReceiptKeeps
  <1>5. PICK g \in Seq(GenStates) : /\ g = gensAs("failed")
                                    /\ Len(g) = Len(quality[r].gens)
    BY <1>2 DEF GenStates
  <1>6. PICK failed \in QualityRows : failed = [quality[r] EXCEPT !.gens = g]
    BY <1>0 DEF QualityRows
  <1>7. /\ failed.op = quality[r].op /\ failed.gens = g /\ failed.checks = quality[r].checks
        /\ failed.results = quality[r].results /\ failed.selected = quality[r].selected
    BY <1>0, <1>6 DEF QualityRows
  <1>8. failed = [quality[r] EXCEPT !.gens[a] = "failed"]
    BY <1>5, <1>6
  <1>9. CASE /\ KeepsFirst(r)
             /\ SaveQuality(r, [failed EXCEPT !.checks[a] = "unverified", !.selected = 1])
             /\ Goto(r, "charge")
    <2>1. PICK checks \in Seq(CheckStates) : /\ checks = checksAs("unverified")
                                             /\ Len(checks) = Len(quality[r].checks)
      BY <1>3 DEF CheckStates
    <2>2. PICK q \in QualityRows : q = [failed EXCEPT !.checks = checks, !.selected = 1]
      <3>1. 1 \in 0..2
        OBVIOUS
      <3> QED BY <3>1 DEF QualityRows
    <2>3. /\ q.op = quality[r].op /\ q.gens = g /\ q.checks = checks
          /\ q.results = quality[r].results /\ q.selected = 1
      BY <1>7, <2>2 DEF QualityRows
    <2>4. SaveQuality(r, q)
      BY <1>7, <1>9, <2>1, <2>2
    <2>5. quality[r].results = 1
      BY <1>9 DEF KeepsFirst
    <2> QED BY <1>0, <1>1, <1>5, <1>9, <2>1, <2>3, <2>4, <2>5, ReceiptKeeps DEF Checking
  <1>10. CASE SaveQuality(r, failed) /\ Goto(r, "release")
    <2>1. "release" \notin Checking
      BY DEF Checking
    <2>2. quality[r].results >= quality[r].results
      BY <1>0 DEF QualityRows
    <2> QED BY <1>0, <1>1, <1>5, <1>7, <1>10, <2>1, <2>2, ReceiptKeeps
  <1>11. CASE quality' = quality /\ Goto(r, "release")
    BY <1>0, <1>11, GotoKeeps DEF Places, Unanswering, Checking
  <1>12. SaveQuality(r, quality[r]) => quality' = quality
    BY <1>0 DEF SaveQuality, MediaShape
  <1>13. \/ /\ holder[r].answer = "artifact"
            /\ SaveQuality(r, [quality[r] EXCEPT !.gens[a] = "completed", !.results = @ + 1])
            /\ Goto(r, "check")
         \/ /\ KeepsFirst(r)
            /\ SaveQuality(r, [failed EXCEPT !.checks[a] = "unverified", !.selected = 1])
            /\ Goto(r, "charge")
         \/ SaveQuality(r, failed) /\ Goto(r, "release")
         \/ SaveQuality(r, quality[r]) /\ Goto(r, "release")
         \/ quality' = quality /\ Goto(r, "release")
    BY <1>8 DEF HandleAnswer
  <1> QED BY <1>4, <1>9, <1>10, <1>11, <1>12, <1>13

\* What holds at the check of an attempt.
LEMMA AtCheck ==
  ASSUME MediaIInv, NEW r \in Runs, holder[r].at \in Checking
  PROVE  /\ MediaShape /\ Accountable(r) /\ quality[r] \in QualityRows
         /\ holder[r].attempt \in Tries /\ holder[r].attempt \in Nat
         /\ step[r].status # "succeeded"
         /\ quality[r].op = holder[r].op
         /\ holder[r].attempt <= quality[r].results
         /\ quality[r].results \in Nat /\ quality[r].results <= Len(quality[r].gens)
         /\ quality[r].results >= quality[r].results
         /\ quality[r].selected <= quality[r].results
         /\ \A b \in Tries : b <= quality[r].results => made[r][b] = 1
  <1>1. MediaShape /\ Accountable(r)
    BY DEF MediaIInv
  <1>2. quality[r] \in QualityRows /\ holder[r].attempt \in Tries
    BY <1>1 DEF MediaShape, Workers
  <1>3. step[r].status # "succeeded"
    BY <1>1 DEF Accountable, Settled, Checking
  <1> QED BY <1>1, <1>2, <1>3
          DEF Accountable, InOrder, InLoop, Owed, Checking, QualityRows, Tries

\* A check is written down, and whether the artifact was valid.
LEMMA CheckWritten ==
  ASSUME MediaIInv, NEW r \in Runs, holder[r].at \in Checking,
         NEW word \in CheckStates, NEW place \in {"check", "assess", "release"},
         \/ SaveQuality(r, [quality[r] EXCEPT !.checks[holder[r].attempt] = word])
         \/ SaveQuality(r, [quality[r] EXCEPT !.gens[holder[r].attempt] = "failed",
                                              !.checks[holder[r].attempt] = word]),
         Goto(r, place), UNCHANGED <<run, step, video, made>>
  PROVE  MediaIInv'
  <1> DEFINE a == holder[r].attempt
  <1>1. PICK checks \in Seq(CheckStates) : /\ checks = [quality[r].checks EXCEPT ![a] = word]
                                           /\ Len(checks) = Len(quality[r].checks)
    BY AtCheck, Overwritten DEF QualityRows
  <1>2. PICK gens \in Seq(GenStates) : /\ gens = [quality[r].gens EXCEPT ![a] = "failed"]
                                       /\ Len(gens) = Len(quality[r].gens)
    <2>1. "failed" \in GenStates
      BY DEF GenStates
    <2> QED BY <2>1, AtCheck, Overwritten DEF QualityRows
  <1>3. PICK p \in QualityRows : p = [quality[r] EXCEPT !.checks = checks]
    BY AtCheck DEF QualityRows
  <1>4. PICK q \in QualityRows : q = [quality[r] EXCEPT !.gens = gens, !.checks = checks]
    BY AtCheck DEF QualityRows
  <1>5. /\ p.op = quality[r].op /\ p.gens = quality[r].gens /\ p.checks = checks
        /\ p.results = quality[r].results /\ p.selected = quality[r].selected
    BY AtCheck, <1>3 DEF QualityRows
  <1>6. /\ q.op = quality[r].op /\ q.gens = gens /\ q.checks = checks
        /\ q.results = quality[r].results /\ q.selected = quality[r].selected
    BY AtCheck, <1>4 DEF QualityRows
  <1>7. SaveQuality(r, p) \/ SaveQuality(r, q)
    BY <1>1, <1>2, <1>3, <1>4
  <1>8. CASE SaveQuality(r, p)
    BY AtCheck, <1>1, <1>5, <1>8, ReceiptKeeps
  <1>9. CASE SaveQuality(r, q)
    BY AtCheck, <1>1, <1>2, <1>6, <1>9, ReceiptKeeps
  <1> QED BY <1>7, <1>8, <1>9

LEMMA CheckActionsKeep ==
  ASSUME MediaIInv, NEW r \in Runs, StartCheck(r) \/ Assess(r)
  PROVE  MediaIInv'
  <1>1. holder[r].at \in Checking /\ UNCHANGED <<run, step, video, made>>
    BY DEF StartCheck, Assess, At, Checking
  <1>2. CASE StartCheck(r)
    BY <1>1, <1>2, CheckWritten DEF StartCheck, CheckStates
  <1>3. CASE Assess(r)
    <2>1. Verdicts(r) \subseteq CheckStates
      BY DEF Verdicts, CheckStates
    <2>2. CASE \E verdict \in Verdicts(r) :
                 /\ SaveQuality(r, [quality[r] EXCEPT !.checks[holder[r].attempt] = verdict])
                 /\ Goto(r, "check")
      BY <1>1, <2>1, <2>2, CheckWritten
    <2>3. CASE /\ SaveQuality(r, [quality[r] EXCEPT !.gens[holder[r].attempt] = "failed",
                                             !.checks[holder[r].attempt] = "unverified"])
               /\ Goto(r, "release")
      BY <1>1, <2>3, CheckWritten DEF CheckStates
    <2> QED BY <1>3, <2>2, <2>3 DEF Assess
  <1> QED BY <1>2, <1>3

LEMMA SelectKeeps ==
  ASSUME MediaIInv, NEW r \in Runs, Select(r)
  PROVE  MediaIInv'
  <1>0. /\ holder[r].at \in Checking /\ holder[r].at = "check"
        /\ UNCHANGED <<run, step, video, made>>
    BY DEF Select, At, Checking
  <1>1. CASE /\ holder[r].attempt = 1 /\ quality' = quality
             /\ holder' = [holder EXCEPT ![r].at = "attempt", ![r].attempt = 2]
    <2>1. PICK h \in Workers : h = [holder[r] EXCEPT !.at = "attempt", !.attempt = 2]
      <3>1. holder[r] \in Workers /\ 2 \in Tries
        BY AtCheck, <1>0 DEF MediaShape, Tries
      <3> QED BY <3>1 DEF Workers, Places
    <2>2. h.at = "attempt" /\ h.attempt = 2 /\ h.op = holder[r].op
      BY AtCheck, <1>0, <2>1 DEF MediaShape, Workers
    <2>3. holder' = [holder EXCEPT ![r] = h]
      BY <1>1, <2>1
    <2>4. MediaShape' /\ holder'[r] = h /\ \A s \in Runs \ {r} : holder'[s] = holder[s]
      BY AtCheck, <1>0, <1>1, <2>3 DEF MediaShape
    <2>5. Accountable(r)'
      <3>1. InOrder(r)'
        BY AtCheck, <1>0, <1>1 DEF Accountable, InOrder
      <3>2. Settled(r)'
        BY AtCheck, <1>0, <2>2, <2>4 DEF Accountable, Settled
      <3>3. InLoop(r)'
        BY AtCheck, <1>0, <1>1, <2>2, <2>4 DEF InLoop, Unanswering, Checking
      <3>4. OfVideos(r)'
        BY AtCheck, <1>0, <1>1, <2>2, <2>4 DEF Accountable, OfVideos
      <3>5. Owed(r)'
        BY AtCheck, <1>0, <1>1, <2>2, <2>4 DEF Accountable, Owed
      <3> QED BY <3>1, <3>2, <3>3, <3>4, <3>5 DEF Accountable
    <2>6. \A s \in Runs \ {r} : RowsKept(s)
      BY <1>0, <1>1, <2>4 DEF RowsKept
    <2> QED BY <2>4, <2>5, <2>6, OneRunMoves
  <1>2. CASE /\ \E a \in Selectable(r) :
                  SaveQuality(r, [quality[r] EXCEPT !.selected = a])
             /\ Goto(r, "charge")
    <2>1. PICK a \in Selectable(r) : SaveQuality(r, [quality[r] EXCEPT !.selected = a])
      BY <1>2
    <2>2. a \in 0..2 /\ a <= quality[r].results
      BY AtCheck, <1>0 DEF Selectable, Tries
    <2>3. PICK q \in QualityRows : q = [quality[r] EXCEPT !.selected = a]
      BY AtCheck, <1>0, <2>2 DEF QualityRows
    <2>4. /\ q.op = quality[r].op /\ q.gens = quality[r].gens /\ q.checks = quality[r].checks
          /\ q.results = quality[r].results /\ q.selected = a
      BY AtCheck, <1>0, <2>3 DEF QualityRows
    <2>5. "charge" \notin Checking
      BY DEF Checking
    <2> QED BY AtCheck, <1>0, <1>2, <2>1, <2>2, <2>3, <2>4, <2>5, ReceiptKeeps
  <1> QED BY <1>1, <1>2 DEF Select

\* What holds while an attempt is made.
LEMMA AtAttempt ==
  ASSUME MediaIInv, NEW r \in Runs, holder[r].at \in Unanswering
  PROVE  /\ MediaShape /\ Accountable(r) /\ holder[r] \in Workers
         /\ holder[r].attempt \in Tries /\ holder[r].op \in Ops
         /\ step[r].status # "succeeded" /\ step[r].result = 0
         /\ quality[r].op = holder[r].op
         /\ holder[r].attempt <= Len(quality[r].gens)
         /\ quality[r].results < holder[r].attempt
         /\ made[r] \in [Tries -> {0, 1}]
         /\ Receipt(r) \in VideoRows
         /\ holder[r].attempt = 2 => made[r][1] = 1
  <1>1. MediaShape /\ Accountable(r)
    BY DEF MediaIInv
  <1>2. holder[r] \in Workers /\ holder[r].attempt \in Tries /\ made[r] \in [Tries -> {0, 1}]
    BY <1>1 DEF MediaShape, Workers
  <1>3. holder[r].op \in Ops /\ step[r].status # "succeeded" /\ step[r].result = 0
    BY <1>1 DEF Accountable, Settled, Unanswering
  <1>4. Receipt(r) \in VideoRows
    BY <1>1, <1>2, <1>3 DEF MediaShape, Receipt
  <1>5. holder[r].attempt = 2 => made[r][1] = 1
    BY <1>1 DEF Accountable, InLoop, Owed, Tries
  <1> QED BY <1>1, <1>2, <1>3, <1>4, <1>5 DEF Accountable, InLoop

\* A receipt of a video is written.
LEMMA VideoKeeps ==
  ASSUME MediaIInv, NEW r \in Runs, NEW v \in VideoRows, NEW h \in Workers,
         SaveReceipt(r, v), holder' = [holder EXCEPT ![r] = h],
         holder[r].at \in Unanswering, h.at \in {"create", "poll", "submit", "answer"},
         h.op = holder[r].op, h.attempt = holder[r].attempt,
         v.phase # "none",
         v.phase \in {"accepted", "completed"} => made[r][holder[r].attempt] = 1,
         v.phase = "rejected" => made[r][holder[r].attempt] = 0,
         h.at = "create" => v.phase = "creating",
         h.at \in {"create", "submit"} => made[r][holder[r].attempt] = 0,
         h.at = "poll" => made[r][holder[r].attempt] = 1,
         h.at = "answer" /\ h.answer = "artifact" => made[r][holder[r].attempt] = 1,
         UNCHANGED <<run, step, quality, made>>
  PROVE  MediaIInv'
  <1> DEFINE o == holder[r].op
             a == holder[r].attempt
  <1>1. /\ video' \in [Runs -> [Ops -> [Tries -> VideoRows]]]
        /\ \A s \in Runs \ {r} : video'[s] = video[s]
        /\ video'[r][o][a] = v
        /\ \A op \in Ops, b \in Tries : op # o \/ b # a => video'[r][op][b] = video[r][op][b]
    BY AtAttempt, ReceiptMoves
  <1>2. /\ holder' \in [Runs -> Workers] /\ holder'[r] = h
        /\ \A s \in Runs \ {r} : holder'[s] = holder[s]
    BY AtAttempt DEF MediaShape
  <1>3. MediaShape'
    BY AtAttempt, <1>1, <1>2 DEF MediaShape
  <1>4. Accountable(r)'
    <2>1. InOrder(r)'
      BY AtAttempt DEF Accountable, InOrder
    <2>2. Settled(r)'
      BY AtAttempt, <1>2 DEF Accountable, Settled, Unanswering
    <2>3. InLoop(r)'
      BY AtAttempt, <1>2 DEF Accountable, InLoop, Unanswering, Checking
    <2>4. OfVideos(r)'
      <3> USE AtAttempt
      <3>0. OfVideos(r) /\ quality[r].op = o
        BY DEF Accountable
      <3>1. ASSUME NEW op \in Ops, NEW b \in Tries, video'[r][op][b].phase # "none"
            PROVE  quality[r].op = op
        <4>1. CASE op = o
          BY <3>0, <4>1
        <4>2. CASE op # o
          <5>1. video'[r][op][b] = video[r][op][b]
            BY <4>2, <1>1
          <5> QED BY <3>0, <3>1, <5>1 DEF OfVideos
        <4> QED BY <4>1, <4>2
      <3>2. \A op \in Ops, b \in Tries :
              video'[r][op][b].phase \in {"accepted", "completed"} => made[r][b] = 1
        BY <1>1 DEF Accountable, OfVideos
      <3>3. ASSUME r \in Videos, NEW b \in Tries, made[r][b] = 1
            PROVE  \E op \in Ops : video'[r][op][b].phase \notin {"none", "rejected"}
        <4>1. CASE b = a
          BY <3>3, <4>1, <1>1
        <4>2. CASE b # a
          BY <3>3, <4>2, <1>1 DEF Accountable, OfVideos
        <4> QED BY <4>1, <4>2
      <3>4. holder'[r].at \in {"create", "accepted", "rejected"} => Receipt(r)'.phase = "creating"
        BY <1>1, <1>2 DEF Receipt
      <3> QED BY <3>1, <3>2, <3>3, <3>4 DEF OfVideos
    <2>5. Owed(r)'
      BY AtAttempt, <1>2 DEF Accountable, Owed
    <2> QED BY <2>1, <2>2, <2>3, <2>4, <2>5 DEF Accountable
  <1>5. \A s \in Runs \ {r} : RowsKept(s)
    BY <1>1, <1>2 DEF RowsKept
  <1> QED BY <1>3, <1>4, <1>5, OneRunMoves

LEMMA OpenVideoKeeps ==
  ASSUME MediaIInv, NEW r \in Runs, OpenVideo(r)
  PROVE  MediaIInv'
  <1>0. /\ holder[r].at = "generate" /\ holder[r].at \in Unanswering /\ r \in Videos
        /\ UNCHANGED <<run, step, quality, video, made>>
    BY DEF OpenVideo, At, Unanswering, tables
  <1> DEFINE a == holder[r].attempt
  <1>1. PICK enabled \in SUBSET Routes :
          \/ Receipt(r).phase = "completed" /\ Answer(r, "artifact")
          \/ Answer(r, "refused")
          \/ Receipt(r).phase = "accepted" /\ Goto(r, "poll")
          \/ /\ Receipt(r).phase \in {"none", "rejected"}
             /\ holder' = [holder EXCEPT ![r].at = "submit", ![r].routes = enabled]
    BY DEF OpenVideo
  <1>2. Receipt(r).phase \in {"accepted", "completed"} => made[r][a] = 1
    BY AtAttempt, <1>0 DEF Accountable, OfVideos, Receipt
  <1>3. CASE Receipt(r).phase = "completed" /\ Answer(r, "artifact")
    BY <1>0, <1>2, <1>3, AnswerKeeps DEF Answers
  <1>4. CASE Answer(r, "refused")
    BY <1>0, <1>4, AnswerKeeps DEF Answers
  <1>5. CASE Receipt(r).phase = "accepted" /\ Goto(r, "poll")
    BY AtAttempt, <1>0, <1>2, <1>5, GotoKeeps DEF Places, Unanswering, Checking
  <1>6. CASE /\ Receipt(r).phase \in {"none", "rejected"}
             /\ holder' = [holder EXCEPT ![r].at = "submit", ![r].routes = enabled]
    <2>1. made[r][a] = 0
      <3>1. ASSUME made[r][a] = 1 PROVE FALSE
        <4>1. PICK op \in Ops : video[r][op][a].phase \notin {"none", "rejected"}
          BY AtAttempt, <1>0, <3>1 DEF Accountable, OfVideos
        <4>2. op = holder[r].op
          BY AtAttempt, <1>0, <4>1 DEF Accountable, OfVideos
        <4> QED BY <1>6, <4>1, <4>2 DEF Receipt
      <3> QED BY AtAttempt, <1>0, <3>1
    <2>2. PICK h \in Workers : h = [holder[r] EXCEPT !.at = "submit", !.routes = enabled]
      BY AtAttempt, <1>0 DEF Workers, Places
    <2>3. h.at = "submit" /\ h.op = holder[r].op /\ h.attempt = a
      BY AtAttempt, <1>0, <2>2 DEF Workers
    <2>4. holder' = [holder EXCEPT ![r] = h]
      BY <1>6, <2>2
    <2>5. MediaShape' /\ holder'[r] = h /\ \A s \in Runs \ {r} : holder'[s] = holder[s]
      BY AtAttempt, <1>0, <2>4 DEF MediaShape
    <2>6. Accountable(r)'
      <3>1. InOrder(r)'
        BY AtAttempt, <1>0 DEF Accountable, InOrder
      <3>2. Settled(r)'
        BY AtAttempt, <1>0, <2>3, <2>5 DEF Accountable, Settled
      <3>3. InLoop(r)'
        BY AtAttempt, <1>0, <2>3, <2>5 DEF Accountable, InLoop, Unanswering, Checking
      <3>4. OfVideos(r)'
        BY AtAttempt, <1>0, <2>3, <2>5 DEF Accountable, OfVideos
      <3>5. Owed(r)'
        BY AtAttempt, <1>0, <2>1, <2>3, <2>5 DEF Accountable, Owed
      <3> QED BY <3>1, <3>2, <3>3, <3>4, <3>5 DEF Accountable
    <2>7. \A s \in Runs \ {r} : RowsKept(s)
      BY <1>0, <2>5 DEF RowsKept
    <2> QED BY <2>5, <2>6, <2>7, OneRunMoves
  <1> QED BY <1>1, <1>3, <1>4, <1>5, <1>6

LEMMA SubmitVideoKeeps ==
  ASSUME MediaIInv, NEW r \in Runs, SubmitVideo(r)
  PROVE  MediaIInv'
  <1>0. /\ holder[r].at = "submit" /\ holder[r].at \in Unanswering
        /\ UNCHANGED <<run, step, quality, made>>
    BY DEF SubmitVideo, At, Unanswering
  <1>1. CASE \E word \in Errors(r) : Answer(r, word) /\ UNCHANGED video
    BY <1>0, <1>1, AnswerKeeps DEF Errors, Answers
  <1>2. ASSUME NEW route \in holder[r].routes,
               SaveReceipt(r, [phase |-> "creating", route |-> route]),
               holder' = [holder EXCEPT ![r].at = "create", ![r].route = route,
                                        ![r].routes = @ \ {route}]
        PROVE  MediaIInv'
    <2>1. route \in Routes /\ holder[r].routes \subseteq Routes
      BY AtAttempt, <1>0 DEF Workers
    <2>2. PICK v \in VideoRows : v = [phase |-> "creating", route |-> route]
      BY <2>1 DEF VideoRows, Phases
    <2>3. PICK left \in SUBSET Routes : left = holder[r].routes \ {route}
      BY <2>1
    <2>4. PICK h \in Workers : h = [holder[r] EXCEPT !.at = "create", !.route = route,
                                                     !.routes = left]
      BY AtAttempt, <1>0, <2>1 DEF Workers, Places
    <2>5. h.at = "create" /\ h.op = holder[r].op /\ h.attempt = holder[r].attempt
      BY AtAttempt, <1>0, <2>4 DEF Workers
    <2>6. holder' = [holder EXCEPT ![r] = h]
      BY <1>2, <2>3, <2>4
    <2>7. made[r][holder[r].attempt] = 0
      BY AtAttempt, <1>0 DEF Accountable, Owed
    <2> QED BY <1>0, <1>2, <2>2, <2>5, <2>6, <2>7, VideoKeeps
  <1> QED BY <1>1, <1>2 DEF SubmitVideo

LEMMA CreateVideoKeeps ==
  ASSUME MediaIInv, NEW r \in Runs, CreateVideo(r)
  PROVE  /\ MediaIInv' /\ UNCHANGED step
         /\ made' = made \/ (/\ made[r][holder[r].attempt] = 0
                             /\ made' = [made EXCEPT ![r][holder[r].attempt] = @ + 1])
  <1>0. /\ holder[r].at = "create" /\ holder[r].at \in Unanswering
        /\ UNCHANGED <<run, step, quality, video>>
    BY DEF CreateVideo, At, Unanswering, tables
  <1> DEFINE a == holder[r].attempt
             more == [made EXCEPT ![r][a] = @ + 1]
  <1>1. made[r][a] = 0 /\ Receipt(r).phase = "creating"
    BY AtAttempt, <1>0 DEF Accountable, Owed, OfVideos
  <1>2. made' = more => made'[r][a] = 1
    BY AtAttempt, <1>0, <1>1 DEF MediaShape
  <1>3. \/ Goto(r, "accepted") /\ made' = more
        \/ Goto(r, "rejected") /\ UNCHANGED made
        \/ \E word \in {"refused", "unavailable"} : Answer(r, word) /\ made' \in {made, more}
    BY DEF CreateVideo, Errors
  <1>4. CASE \E word \in {"refused", "unavailable"} : Answer(r, word) /\ made' \in {made, more}
    BY <1>0, <1>1, <1>4, AnswerKeeps DEF Answers
  <1>5. CASE Goto(r, "rejected") /\ UNCHANGED made
    BY AtAttempt, <1>0, <1>1, <1>5, GotoKeeps DEF Places, Unanswering, Checking
  <1>6. CASE Goto(r, "accepted") /\ made' = more
    <2>1. "accepted" \in Places
      BY DEF Places
    <2>2. /\ holder' \in [Runs -> Workers]
          /\ \A s \in Runs \ {r} : holder'[s] = holder[s]
          /\ holder'[r].at = "accepted" /\ holder'[r].op = holder[r].op
          /\ holder'[r].attempt = a
      BY AtAttempt, <1>0, <1>6, <2>1, GotoMoves
    <2>3. /\ made' \in [Runs -> [Tries -> {0, 1}]]
          /\ \A s \in Runs \ {r} : made'[s] = made[s]
          /\ made'[r][a] = 1 /\ \A b \in Tries \ {a} : made'[r][b] = made[r][b]
      <3>1. PICK b \in Tries : b = a
        BY AtAttempt, <1>0
      <3>2. MediaShape /\ made[r][b] = 0 /\ made' = [made EXCEPT ![r][b] = @ + 1]
        BY AtAttempt, <1>0, <1>1, <1>6, <3>1
      <3>3. /\ made' \in [Runs -> [Tries -> {0, 1}]]
            /\ \A s \in Runs \ {r} : made'[s] = made[s]
            /\ made'[r][b] = 1 /\ \A c \in Tries \ {b} : made'[r][c] = made[r][c]
        BY <3>2, MadeMoves
      <3> QED BY <3>1, <3>3
    <2>4. MediaShape'
      BY AtAttempt, <1>0, <2>2, <2>3 DEF MediaShape
    <2>5. Accountable(r)'
      <3>1. InOrder(r)'
        BY AtAttempt, <1>0 DEF Accountable, InOrder
      <3>2. Settled(r)'
        BY AtAttempt, <1>0, <2>2 DEF Accountable, Settled
      <3>3. InLoop(r)'
        BY AtAttempt, <1>0, <2>2 DEF Accountable, InLoop, Unanswering, Checking
      <3>4. OfVideos(r)'
        <4> USE AtAttempt, <1>0, <1>1, <2>2, <2>3
        <4>1. \A op \in Ops, b \in Tries :
                video[r][op][b].phase \in {"accepted", "completed"} => made'[r][b] = 1
          BY DEF Accountable, OfVideos
        <4>2. ASSUME r \in Videos, NEW b \in Tries, made'[r][b] = 1
              PROVE  \E op \in Ops : video[r][op][b].phase \notin {"none", "rejected"}
          <5>1. CASE b = a
            BY <5>1 DEF Receipt
          <5>2. CASE b # a
            BY <4>2, <5>2 DEF Accountable, OfVideos
          <5> QED BY <5>1, <5>2
        <4>3. Receipt(r)'.phase = "creating"
          BY DEF Receipt
        <4>4. \A op \in Ops, b \in Tries : video[r][op][b].phase # "none" => quality[r].op = op
          BY DEF Accountable, OfVideos
        <4> QED BY <4>1, <4>2, <4>3, <4>4 DEF OfVideos
      <3>5. Owed(r)'
        <4>1. \A b \in Tries : made'[r][b] = 1 => b <= Len(quality[r].gens)
          BY AtAttempt, <1>0, <2>3 DEF Accountable, Owed
        <4>2. \A b \in Tries : b <= quality[r].results => made'[r][b] = 1
          BY AtAttempt, <1>0, <2>3 DEF Accountable, Owed
        <4> QED BY <1>0, <2>2, <2>3, <4>1, <4>2 DEF Owed
      <3> QED BY <3>1, <3>2, <3>3, <3>4, <3>5 DEF Accountable
    <2>6. \A s \in Runs \ {r} : RowsKept(s)
      BY <1>0, <2>2, <2>3 DEF RowsKept
    <2>7. MediaIInv'
      BY <2>4, <2>5, <2>6, OneRunMoves
    <2> QED BY <1>0, <1>1, <1>6, <2>7
  <1> QED BY <1>0, <1>1, <1>3, <1>4, <1>5, <1>6

LEMMA KeepCreatedKeeps ==
  ASSUME MediaIInv, NEW r \in Runs, KeepCreated(r)
  PROVE  MediaIInv'
  <1>0. /\ holder[r].at \in {"accepted", "rejected"} /\ holder[r].at \in Unanswering
        /\ UNCHANGED <<run, step, quality, made>>
    BY DEF KeepCreated, Unanswering
  <1>1. PICK v \in VideoRows : v = [phase |-> holder[r].at, route |-> holder[r].route]
    <2>1. holder[r].route \in Routes \cup {"none"}
      BY AtAttempt, <1>0 DEF Workers
    <2> QED BY <1>0, <2>1 DEF VideoRows, Phases
  <1>2. PICK place \in {"poll", "submit"} :
          place = IF holder[r].at = "accepted" THEN "poll" ELSE "submit"
    OBVIOUS
  <1>3. PICK h \in Workers : h = [holder[r] EXCEPT !.at = place]
    BY AtAttempt, <1>0 DEF Workers, Places
  <1>4. h.at = place /\ h.op = holder[r].op /\ h.attempt = holder[r].attempt
    BY AtAttempt, <1>0, <1>3 DEF Workers
  <1>5. holder' = [holder EXCEPT ![r] = h] /\ SaveReceipt(r, v)
    BY <1>1, <1>2, <1>3 DEF KeepCreated, Goto, At
  <1>6. v.phase = holder[r].at
    BY <1>1
  <1>7. /\ holder[r].at = "accepted" => made[r][holder[r].attempt] = 1
        /\ holder[r].at = "rejected" => made[r][holder[r].attempt] = 0
    BY AtAttempt, <1>0 DEF Accountable, Owed
  <1> QED BY <1>0, <1>2, <1>4, <1>5, <1>6, <1>7, VideoKeeps

LEMMA PollVideoKeeps ==
  ASSUME MediaIInv, NEW r \in Runs, PollVideo(r)
  PROVE  MediaIInv'
  <1>0. /\ holder[r].at = "poll" /\ holder[r].at \in Unanswering
        /\ UNCHANGED <<run, step, quality, made>>
    BY DEF PollVideo, At, Unanswering
  <1>1. CASE \E word \in Errors(r) : Answer(r, word) /\ UNCHANGED video
    BY <1>0, <1>1, AnswerKeeps DEF Errors, Answers
  <1>2. ASSUME NEW phase \in {"failed", "completed"}, NEW word \in {"refused", "artifact"},
               SaveReceipt(r, [Receipt(r) EXCEPT !.phase = phase]), Answer(r, word)
        PROVE  MediaIInv'
    <2>1. PICK v \in VideoRows : v = [Receipt(r) EXCEPT !.phase = phase]
      BY AtAttempt, <1>0 DEF VideoRows, Phases
    <2>2. v.phase = phase
      BY AtAttempt, <1>0, <2>1 DEF VideoRows
    <2>3. PICK h \in Workers : h = [holder[r] EXCEPT !.at = "answer", !.answer = word]
      BY AtAttempt, <1>0 DEF Workers, Places, Answers
    <2>4. h.at = "answer" /\ h.op = holder[r].op /\ h.attempt = holder[r].attempt
      BY AtAttempt, <1>0, <2>3 DEF Workers
    <2>5. holder' = [holder EXCEPT ![r] = h]
      BY <1>2, <2>3 DEF Answer
    <2>6. made[r][holder[r].attempt] = 1
      BY AtAttempt, <1>0 DEF Accountable, Owed
    <2> QED BY <1>0, <1>2, <2>1, <2>2, <2>4, <2>5, <2>6, VideoKeeps
  <1> QED BY <1>1, <1>2 DEF PollVideo

LEMMA WriteFailsKeeps ==
  ASSUME MediaIInv, NEW r \in Runs, WriteFails(r)
  PROVE  MediaIInv'
  <1>0. UNCHANGED <<run, step, quality, video, made>> /\ Accountable(r)
    BY DEF WriteFails, tables, MediaIInv
  <1>1. CASE holder[r].at \in Writing \cup {"charge"} /\ Goto(r, "release")
    <2>1. step[r].status # "succeeded" /\ holder[r].at # "idle"
      BY <1>0, <1>1 DEF Accountable, Settled, Writing
    <2> QED BY <1>0, <1>1, <2>1, GotoKeeps DEF Places, Unanswering, Checking
  <1>2. CASE holder[r].at \in {"open", "finish", "failed"} /\ Goto(r, "lost")
    BY <1>0, <1>2, GotoKeeps DEF Places, Unanswering, Checking
  <1> QED BY <1>1, <1>2 DEF WriteFails

LEMMA RestartMediaKeeps ==
  ASSUME MediaIInv, RestartMedia
  PROVE  MediaIInv'
  <1>1. Idle \in Workers /\ Idle.at = "idle" /\ Idle.attempt = 1
    BY DEF Workers, Idle, Places, Tries, Answers
  <1>2. holder' \in [Runs -> Workers] /\ \A r \in Runs : holder'[r] = Idle
    BY <1>1 DEF RestartMedia
  <1>3. UNCHANGED <<step, quality, video, made>>
    BY DEF RestartMedia
  <1>4. run' \in [Runs -> RunStates]
    BY DEF RestartMedia, MediaIInv, MediaShape, RunStates
  <1>5. MediaShape'
    BY <1>2, <1>3, <1>4 DEF MediaIInv, MediaShape
  <1>6. ASSUME NEW r \in Runs PROVE Accountable(r)'
    <2>0. Accountable(r) /\ holder'[r] = Idle
      BY <1>2 DEF MediaIInv
    <2>1. InOrder(r)'
      BY <2>0, <1>3 DEF Accountable, InOrder
    <2>2. Settled(r)'
      BY <2>0, <1>1, <1>3 DEF Accountable, Settled
    <2>3. InLoop(r)'
      BY <2>0, <1>1, <1>3 DEF InLoop, Unanswering, Checking
    <2>4. OfVideos(r)'
      BY <2>0, <1>1, <1>3 DEF Accountable, OfVideos
    <2>5. Owed(r)'
      BY <2>0, <1>1, <1>3 DEF Accountable, Owed
    <2> QED BY <2>1, <2>2, <2>3, <2>4, <2>5 DEF Accountable
  <1> QED BY <1>5, <1>6 DEF MediaIInv

LEMMA InitMedia == MediaInit => MediaIInv /\ Books
  <1> SUFFICES ASSUME MediaInit PROVE MediaIInv /\ Books
    OBVIOUS
  <1>1. Idle \in Workers /\ Idle.at = "idle" /\ Idle.attempt = 1
    BY DEF Workers, Idle, Places, Tries, Answers
  <1>2. NoVideo \in VideoRows /\ NoVideo.phase = "none"
    BY DEF NoVideo, VideoRows, Phases
  <1>3. [status |-> "none", result |-> 0] \in StepRows
    <2>1. 0 \in 0..2
      OBVIOUS
    <2> QED BY <2>1 DEF StepRows
  <1>4. /\ NoQuality \in QualityRows /\ NoQuality.results = 0 /\ NoQuality.selected = 0
        /\ Len(NoQuality.gens) = 0 /\ Len(NoQuality.checks) = 0
    <2>1. <<>> \in Seq(GenStates) /\ <<>> \in Seq(CheckStates) /\ Len(<<>>) = 0 /\ 0 \in 0..2
      OBVIOUS
    <2> QED BY <2>1 DEF NoQuality, QualityRows
  <1>5. MediaShape
    BY <1>1, <1>2, <1>3, <1>4 DEF MediaInit, MediaStart, MediaShape, RunStates
  <1>6. ASSUME NEW r \in Runs PROVE Accountable(r)
    <2>1. /\ holder[r] = Idle /\ quality[r] = NoQuality
          /\ step[r].status = "none" /\ step[r].result = 0
          /\ \A op \in Ops, a \in Tries : video[r][op][a] = NoVideo
          /\ \A a \in Tries : made[r][a] = 0
      BY DEF MediaInit, MediaStart
    <2>2. InOrder(r)
      <3>1. /\ Len(quality[r].gens) = 0 /\ Len(quality[r].checks) = 0
            /\ quality[r].results = 0 /\ quality[r].selected = 0
        BY <1>4, <2>1
      <3> QED BY <3>1 DEF InOrder
    <2>3. Settled(r)
      BY <1>1, <2>1 DEF Settled
    <2>4. InLoop(r)
      BY <1>1, <2>1 DEF InLoop, Unanswering, Checking
    <2>5. OfVideos(r)
      BY <1>1, <1>2, <2>1 DEF OfVideos
    <2>6. Owed(r)
      BY <1>1, <1>4, <2>1 DEF Owed, Tries
    <2> QED BY <2>2, <2>3, <2>4, <2>5, <2>6 DEF Accountable
  <1>7. Books
    BY MediaAssumption DEF MediaInit, MediaStart, Books
  <1> QED BY <1>5, <1>6, <1>7 DEF MediaIInv

\* One step of one run.
LEMMA MediaStepKeeps ==
  ASSUME MediaIInv, Books, NEW r \in Runs, MediaStep(r)
  PROVE  MediaIInv'
  <1>1. CASE \E op \in Ops : Take(r, op)
    BY <1>1, TakeKeeps
  <1>2. CASE OpenStep(r) \/ FinishStep(r) \/ FailStep(r)
    BY <1>2, StepActionsKeep
  <1>3. CASE EndRun(r)
    BY <1>3, EndRunKeeps
  <1>4. CASE RetryMedia(r)
    BY <1>4, RetryMediaKeeps
  <1>5. CASE CancelMedia(r)
    BY <1>5, CancelMediaKeeps
  <1>6. CASE Reserve(r) \/ ChargeExempt(r) \/ Commit(r) \/ Release(r) \/ LoseRelease(r)
    BY <1>6, QuotaActionsKeep
  <1>7. CASE ResumeQuality(r)
    BY <1>7, ResumeQualityKeeps
  <1>8. CASE StartAttempt(r)
    BY <1>8, StartAttemptKeeps
  <1>9. CASE ReopenAttempt(r)
    BY <1>9, ReopenAttemptKeeps
  <1>10. CASE GenerateImage(r)
    BY <1>10, GenerateImageKeeps
  <1>11. CASE AppearanceChanged(r)
    BY <1>11, AppearanceChangedKeeps
  <1>12. CASE HandleAnswer(r)
    BY <1>12, HandleAnswerKeeps
  <1>13. CASE StartCheck(r) \/ Assess(r)
    BY <1>13, CheckActionsKeep
  <1>14. CASE Select(r)
    BY <1>14, SelectKeeps
  <1>15. CASE OpenVideo(r)
    BY <1>15, OpenVideoKeeps
  <1>16. CASE SubmitVideo(r)
    BY <1>16, SubmitVideoKeeps
  <1>17. CASE CreateVideo(r)
    BY <1>17, CreateVideoKeeps
  <1>18. CASE KeepCreated(r)
    BY <1>18, KeepCreatedKeeps
  <1>19. CASE PollVideo(r)
    BY <1>19, PollVideoKeeps
  <1>20. CASE WriteFails(r)
    BY <1>20, WriteFailsKeeps
  <1> QED BY <1>1, <1>2, <1>3, <1>4, <1>5, <1>6, <1>7, <1>8, <1>9, <1>10, <1>11, <1>12,
             <1>13, <1>14, <1>15, <1>16, <1>17, <1>18, <1>19, <1>20 DEF MediaStep

\* A step without any, and a new day, touch no row.
LEMMA RowsUntouched ==
  ASSUME MediaIInv, UNCHANGED <<run, step, quality, video, holder, made>>
  PROVE  MediaIInv'
  <1>1. MediaShape'
    BY DEF MediaIInv, MediaShape
  <1>2. ASSUME NEW r \in Runs PROVE Accountable(r)'
    BY KeptRowsStayAccountable DEF MediaIInv, RowsKept
  <1> QED BY <1>1, <1>2 DEF MediaIInv

-----------------------------------------------------------------------------
(* The quota.                                                              *)

HoldersOf(day) == {r \in Runs : holder[r].day = day}

\* The reservations of a day that somebody works on are in the table, and the
\* pieces of a day stay below a limit.
DayInOrder(d) ==
  /\ IsFiniteSet(HoldersOf(d)) /\ Cardinality(HoldersOf(d)) <= reserved[d]
  /\ \E limit \in Limits : used[d] + reserved[d] <= limit

MediaInvariant == MediaIInv /\ Books /\ \A d \in Days : DayInOrder(d)

\* Nobody gets hold of a reservation, and the table only loses what nobody
\* works on.
LEMMA HoldersLeave ==
  ASSUME Books, NEW d \in Days, DayInOrder(d), HoldersOf(d)' \subseteq HoldersOf(d),
         UNCHANGED <<used, reserved>>
  PROVE  DayInOrder(d)'
  <1>1. /\ IsFiniteSet(HoldersOf(d)')
        /\ Cardinality(HoldersOf(d)') <= Cardinality(HoldersOf(d))
        /\ Cardinality(HoldersOf(d)') \in Nat /\ Cardinality(HoldersOf(d)) \in Nat
    BY FS_Subset, FS_CardinalityType DEF DayInOrder
  <1>2. reserved[d] \in Nat
    BY DEF Books
  <1> QED BY <1>1, <1>2 DEF DayInOrder

\* A worker that does not take a reservation leaves the quota as it is.
LEMMA KeepsDays ==
  ASSUME MediaInvariant, UNCHANGED <<used, reserved>>,
         \A s \in Runs : holder'[s].day \in {0, holder[s].day}
  PROVE  \A d \in Days : DayInOrder(d)'
  <1> SUFFICES ASSUME NEW d \in Days PROVE DayInOrder(d)'
    OBVIOUS
  <1>1. d # 0
    BY MediaAssumption
  <1>2. HoldersOf(d)' \subseteq HoldersOf(d)
    BY <1>1 DEF HoldersOf
  <1> QED BY <1>2, HoldersLeave DEF MediaInvariant

\* The worker of r takes a piece of the day.
LEMMA ReservesDay ==
  ASSUME MediaInvariant, NEW r \in Runs, NEW limit \in Limits, HasQuota(today, limit),
         reserved' = [reserved EXCEPT ![today] = @ + 1], UNCHANGED used,
         holder'[r].day = today, \A s \in Runs \ {r} : holder'[s].day = holder[s].day
  PROVE  /\ \A d \in Days : DayInOrder(d)'
         /\ reserved' \in [Days -> Nat]
  <1>1. /\ used \in [Days -> Nat] /\ reserved \in [Days -> Nat] /\ today \in Days
        /\ limit \in Nat
    BY MediaAssumption DEF MediaInvariant, Books
  <1>2. reserved' \in [Days -> Nat]
    BY <1>1
  <1>3. ASSUME NEW d \in Days \ {today} PROVE DayInOrder(d)'
    <2>1. HoldersOf(d)' \subseteq HoldersOf(d)
      BY <1>3 DEF HoldersOf
    <2>2. DayInOrder(d)
      BY DEF MediaInvariant
    <2>3. /\ IsFiniteSet(HoldersOf(d)')
          /\ Cardinality(HoldersOf(d)') <= Cardinality(HoldersOf(d))
          /\ Cardinality(HoldersOf(d)') \in Nat /\ Cardinality(HoldersOf(d)) \in Nat
      BY <2>1, <2>2, FS_Subset, FS_CardinalityType DEF DayInOrder
    <2>4. reserved'[d] = reserved[d] /\ used'[d] = used[d] /\ reserved[d] \in Nat
      BY <1>1
    <2> QED BY <2>2, <2>3, <2>4 DEF DayInOrder
  <1>4. ASSUME NEW d \in Days, d = today PROVE DayInOrder(d)'
    <2>1. DayInOrder(d) /\ HoldersOf(d)' \subseteq HoldersOf(d) \cup {r}
      BY DEF MediaInvariant, HoldersOf
    <2>2. /\ IsFiniteSet(HoldersOf(d) \cup {r})
          /\ Cardinality(HoldersOf(d) \cup {r}) <= Cardinality(HoldersOf(d)) + 1
          /\ Cardinality(HoldersOf(d) \cup {r}) \in Nat /\ Cardinality(HoldersOf(d)) \in Nat
      <3>1. IsFiniteSet(HoldersOf(d)) /\ Cardinality(HoldersOf(d)) \in Nat
        BY <2>1, FS_CardinalityType DEF DayInOrder
      <3>2. /\ IsFiniteSet(HoldersOf(d) \cup {r})
            /\ \/ Cardinality(HoldersOf(d) \cup {r}) = Cardinality(HoldersOf(d))
               \/ Cardinality(HoldersOf(d) \cup {r}) = Cardinality(HoldersOf(d)) + 1
        BY <3>1, FS_AddElement
      <3> QED BY <3>1, <3>2
    <2>3. /\ IsFiniteSet(HoldersOf(d)')
          /\ Cardinality(HoldersOf(d)') <= Cardinality(HoldersOf(d) \cup {r})
          /\ Cardinality(HoldersOf(d)') \in Nat
      BY <2>1, <2>2, FS_Subset, FS_CardinalityType
    <2>4. reserved'[d] = reserved[d] + 1 /\ used'[d] = used[d] /\ reserved[d] \in Nat /\ used[d] \in Nat
      BY <1>1, <1>4
    <2>5. Cardinality(HoldersOf(d)') <= reserved'[d]
      BY <2>1, <2>2, <2>3, <2>4 DEF DayInOrder
    <2>6. used'[d] + reserved'[d] <= limit
      BY <1>1, <1>4, <2>4 DEF HasQuota
    <2> QED BY <2>3, <2>5, <2>6 DEF DayInOrder
  <1> QED BY <1>2, <1>3, <1>4

\* The worker of r gives up its reservation, and its piece of that day with it.
LEMMA LeavesDay ==
  ASSUME MediaInvariant, NEW r \in Runs, NEW day \in Days, holder[r].day = day,
         reserved[day] > 0, reserved' = [reserved EXCEPT ![day] = @ - 1],
         used' \in {used, [used EXCEPT ![day] = @ + 1]},
         holder'[r].day = 0, \A s \in Runs \ {r} : holder'[s].day = holder[s].day
  PROVE  /\ \A d \in Days : DayInOrder(d)'
         /\ reserved' \in [Days -> Nat] /\ used' \in [Days -> Nat]
  <1>1. /\ used \in [Days -> Nat] /\ reserved \in [Days -> Nat]
        /\ \A d \in Days : d # 0
    BY MediaAssumption DEF MediaInvariant, Books
  <1>2. reserved' \in [Days -> Nat] /\ used' \in [Days -> Nat]
    BY <1>1
  <1>3. ASSUME NEW d \in Days PROVE DayInOrder(d)'
    <2>1. DayInOrder(d) /\ Limits \subseteq Nat
      BY MediaAssumption DEF MediaInvariant
    <2>2. IsFiniteSet(HoldersOf(d)) /\ Cardinality(HoldersOf(d)) \in Nat
      BY <2>1, FS_CardinalityType DEF DayInOrder
    <2>3. CASE d # day
      <3>1. HoldersOf(d)' = HoldersOf(d)
        BY <1>1, <2>3 DEF HoldersOf
      <3>2. reserved'[d] = reserved[d] /\ used'[d] = used[d]
        BY <1>1, <2>3
      <3> QED BY <2>1, <3>1, <3>2 DEF DayInOrder
    <2>4. CASE d = day
      <3>1. HoldersOf(d)' = HoldersOf(d) \ {r} /\ r \in HoldersOf(d)
        BY <1>1, <2>4 DEF HoldersOf
      <3>2. /\ IsFiniteSet(HoldersOf(d)')
            /\ Cardinality(HoldersOf(d)') = Cardinality(HoldersOf(d)) - 1
        BY <2>2, <3>1, FS_RemoveElement
      <3>3. /\ reserved'[d] = reserved[d] - 1 /\ used'[d] \in {used[d], used[d] + 1}
            /\ reserved[d] \in Nat /\ used[d] \in Nat
        BY <1>1, <2>4
      <3>4. PICK limit \in Limits : used[d] + reserved[d] <= limit
        BY <2>1 DEF DayInOrder
      <3>5. used'[d] + reserved'[d] <= limit
        BY <2>1, <3>3, <3>4
      <3>6. Cardinality(HoldersOf(d)') <= reserved'[d]
        BY <2>1, <2>2, <3>2, <3>3 DEF DayInOrder
      <3> QED BY <3>2, <3>5, <3>6 DEF DayInOrder
    <2> QED BY <2>3, <2>4
  <1> QED BY <1>2, <1>3

\* One step of one run keeps the quota.
LEMMA QuotaStep ==
  ASSUME MediaInvariant, NEW r \in Runs, MediaStep(r)
  PROVE  Books' /\ \A d \in Days : DayInOrder(d)'
  <1>0. /\ MediaShape /\ Books /\ holder \in [Runs -> Workers] /\ holder[r] \in Workers
        /\ Idle.day = 0
    BY DEF MediaInvariant, MediaIInv, MediaShape, Idle
  <1>1. ASSUME UNCHANGED <<used, reserved, today>>,
               \A s \in Runs : holder'[s].day \in {0, holder[s].day}
        PROVE  Books' /\ \A d \in Days : DayInOrder(d)'
    BY <1>1, KeepsDays DEF MediaInvariant, Books
  <1>2. ASSUME NEW place, Goto(r, place)
        PROVE  \A s \in Runs : holder'[s].day = holder[s].day
    BY <1>0, <1>2 DEF Goto, Workers
  <1>3. ASSUME NEW word, Answer(r, word)
        PROVE  \A s \in Runs : holder'[s].day = holder[s].day
    BY <1>0, <1>3 DEF Answer, Workers
  <1>4. CASE \E op \in Ops : Take(r, op)
    <2>1. PICK op \in Ops : Take(r, op)
      BY <1>4
    <2>2. PICK h : h = [Idle EXCEPT !.at = "open", !.op = op]
      OBVIOUS
    <2>3. h.day = 0 /\ holder' = [holder EXCEPT ![r] = h] /\ UNCHANGED <<used, reserved, today>>
      BY <2>1, <2>2 DEF Take, quota, Idle
    <2> QED BY <1>0, <1>1, <2>3
  <1>5. CASE EndRun(r)
    BY <1>0, <1>1, <1>5 DEF EndRun, quota
  <1>6. CASE CancelMedia(r)
    BY <1>0, <1>1, <1>6 DEF CancelMedia, quota, Workers
  <1>7. CASE RetryMedia(r)
    BY <1>0, <1>1, <1>7 DEF RetryMedia, quota
  <1>8. CASE OpenStep(r) \/ FinishStep(r) \/ FailStep(r) \/ ResumeQuality(r) \/ StartAttempt(r)
             \/ ReopenAttempt(r) \/ StartCheck(r) \/ Assess(r) \/ KeepCreated(r)
             \/ WriteFails(r) \/ ChargeExempt(r)
    <2>1. UNCHANGED <<used, reserved, today>>
      BY <1>8 DEF OpenStep, FinishStep, FailStep, ResumeQuality, StartAttempt, ReopenAttempt,
                  StartCheck, Assess, KeepCreated, WriteFails, ChargeExempt, quota
    <2>2. \E place : Goto(r, place)
      BY <1>8 DEF OpenStep, FinishStep, FailStep, ResumeQuality, StartAttempt, ReopenAttempt,
                  StartCheck, Assess, KeepCreated, WriteFails, ChargeExempt
    <2> QED BY <1>1, <1>2, <2>1, <2>2
  <1>9. CASE GenerateImage(r) \/ AppearanceChanged(r) \/ HandleAnswer(r) \/ CreateVideo(r)
             \/ PollVideo(r)
    <2>1. UNCHANGED <<used, reserved, today>>
      BY <1>9 DEF GenerateImage, AppearanceChanged, HandleAnswer, CreateVideo, PollVideo, quota
    <2>2. (\E place : Goto(r, place)) \/ (\E word : Answer(r, word))
      BY <1>9 DEF GenerateImage, AppearanceChanged, HandleAnswer, CreateVideo, PollVideo
    <2> QED BY <1>1, <1>2, <1>3, <2>1, <2>2
  <1>10. CASE Select(r)
    <2>1. UNCHANGED <<used, reserved, today>>
      BY <1>10 DEF Select, quota
    <2>2. Goto(r, "charge") \/ holder' = [holder EXCEPT ![r].at = "attempt", ![r].attempt = 2]
      BY <1>10 DEF Select
    <2>3. ASSUME holder' = [holder EXCEPT ![r].at = "attempt", ![r].attempt = 2]
          PROVE  \A s \in Runs : holder'[s].day = holder[s].day
      BY <1>0, <2>3 DEF Workers
    <2> QED BY <1>1, <1>2, <2>1, <2>2, <2>3
  <1>11. CASE OpenVideo(r)
    <2>1. UNCHANGED <<used, reserved, today>>
      BY <1>11 DEF OpenVideo, quota
    <2>2. \/ \E place : Goto(r, place)
          \/ \E word : Answer(r, word)
          \/ \E enabled : holder' = [holder EXCEPT ![r].at = "submit", ![r].routes = enabled]
      BY <1>11 DEF OpenVideo
    <2>3. ASSUME NEW enabled, holder' = [holder EXCEPT ![r].at = "submit", ![r].routes = enabled]
          PROVE  \A s \in Runs : holder'[s].day = holder[s].day
      BY <1>0, <2>3 DEF Workers
    <2> QED BY <1>1, <1>2, <1>3, <2>1, <2>2, <2>3
  <1>12. CASE SubmitVideo(r)
    <2>1. UNCHANGED <<used, reserved, today>>
      BY <1>12 DEF SubmitVideo, quota
    <2>2. \/ \E word : Answer(r, word)
          \/ \E route : holder' = [holder EXCEPT ![r].at = "create", ![r].route = route,
                                                 ![r].routes = @ \ {route}]
      BY <1>12 DEF SubmitVideo
    <2>3. ASSUME NEW route, holder' = [holder EXCEPT ![r].at = "create", ![r].route = route,
                                                     ![r].routes = @ \ {route}]
          PROVE  \A s \in Runs : holder'[s].day = holder[s].day
      BY <1>0, <2>3 DEF Workers
    <2> QED BY <1>1, <1>3, <2>1, <2>2, <2>3
  <1>13. CASE Reserve(r)
    <2>1. UNCHANGED <<used, today>>
      BY <1>13 DEF Reserve
    <2>2. CASE \E place : Goto(r, place) /\ UNCHANGED reserved
      BY <1>1, <1>2, <2>1, <2>2
    <2>3. CASE /\ \E limit \in Limits : HasQuota(today, limit)
               /\ reserved' = [reserved EXCEPT ![today] = @ + 1]
               /\ holder' = [holder EXCEPT ![r].at = "resume", ![r].day = today]
      <3>1. holder'[r].day = today /\ \A s \in Runs \ {r} : holder'[s].day = holder[s].day
        BY <1>0, <2>3 DEF Workers
      <3>2. /\ \A d \in Days : DayInOrder(d)'
            /\ reserved' \in [Days -> Nat]
        BY <2>1, <2>3, <3>1, ReservesDay
      <3> QED BY <1>0, <2>1, <3>2 DEF Books
    <2> QED BY <1>13, <2>2, <2>3 DEF Reserve
  <1>14. CASE Commit(r)
    <2>1. PICK day \in Days : day = holder[r].day
      BY <1>0, <1>14 DEF Commit, Reserved, Workers
    <2>2. reserved[day] > 0 /\ reserved' = [reserved EXCEPT ![day] = @ - 1]
          /\ used' = [used EXCEPT ![day] = @ + 1] /\ today' = today
      BY <1>14, <2>1 DEF Commit, Reserved, DayOf
    <2>3. holder'[r].day = 0 /\ \A s \in Runs \ {r} : holder'[s].day = holder[s].day
      BY <1>0, <1>14 DEF Commit, Workers
    <2>4. /\ \A d \in Days : DayInOrder(d)'
          /\ reserved' \in [Days -> Nat] /\ used' \in [Days -> Nat]
      BY <2>1, <2>2, <2>3, LeavesDay
    <2> QED BY <1>0, <2>2, <2>4 DEF Books
  <1>15. CASE Release(r) \/ LoseRelease(r)
    <2>1. UNCHANGED <<used, today>>
      BY <1>15 DEF Release, LoseRelease, ReleaseTo
    <2>2. holder'[r].day = 0 /\ \A s \in Runs \ {r} : holder'[s].day = holder[s].day
      BY <1>0, <1>15 DEF Release, LoseRelease, ReleaseTo, Workers
    <2>3. CASE reserved' = reserved
      BY <1>1, <2>1, <2>2, <2>3
    <2>4. CASE Reserved(r) /\ reserved' = [reserved EXCEPT ![DayOf(r)] = @ - 1]
      <3>1. PICK day \in Days : day = holder[r].day
        BY <1>0, <2>4 DEF Reserved, Workers
      <3>2. reserved[day] > 0 /\ reserved' = [reserved EXCEPT ![day] = @ - 1]
        BY <2>4, <3>1 DEF Reserved, DayOf
      <3>3. /\ \A d \in Days : DayInOrder(d)'
            /\ reserved' \in [Days -> Nat] /\ used' \in [Days -> Nat]
        BY <2>1, <2>2, <3>1, <3>2, LeavesDay
      <3> QED BY <1>0, <2>1, <3>3 DEF Books
    <2> QED BY <1>15, <2>3, <2>4 DEF Release, LoseRelease, ReleaseTo
  <1> QED BY <1>4, <1>5, <1>6, <1>7, <1>8, <1>9, <1>10, <1>11, <1>12, <1>13, <1>14, <1>15
          DEF MediaStep

\* A restart drops all reservations, and with them everybody who held one.
LEMMA RestartKeepsDays ==
  ASSUME MediaInvariant, RestartMedia
  PROVE  Books' /\ \A d \in Days : DayInOrder(d)'
  <1>1. Books'
    BY DEF MediaInvariant, Books, RestartMedia
  <1>2. ASSUME NEW d \in Days PROVE DayInOrder(d)'
    <2>1. d # 0 /\ Limits \subseteq Nat /\ Idle.day = 0
      BY MediaAssumption DEF Idle
    <2>2. HoldersOf(d)' = {}
      BY <2>1 DEF HoldersOf, RestartMedia
    <2>3. IsFiniteSet(HoldersOf(d)') /\ Cardinality(HoldersOf(d)') = 0
      BY <2>2, FS_EmptySet
    <2>4. used'[d] = used[d] /\ used[d] \in Nat /\ reserved[d] \in Nat /\ reserved'[d] = 0
      BY DEF RestartMedia, MediaInvariant, Books
    <2>5. PICK limit \in Limits : used[d] + reserved[d] <= limit
      BY DEF MediaInvariant, DayInOrder
    <2> QED BY <2>1, <2>3, <2>4, <2>5 DEF DayInOrder
  <1> QED BY <1>1, <1>2

LEMMA MediaInvariantInit == MediaInit => MediaInvariant
  <1> SUFFICES ASSUME MediaInit PROVE MediaInvariant
    OBVIOUS
  <1>1. ASSUME NEW d \in Days PROVE DayInOrder(d)
    <2>1. d # 0 /\ Limits \subseteq Nat /\ Limits # {} /\ Idle.day = 0
      BY MediaAssumption DEF Idle
    <2>2. HoldersOf(d) = {}
      BY <2>1 DEF HoldersOf, MediaInit, MediaStart
    <2>3. IsFiniteSet(HoldersOf(d)) /\ Cardinality(HoldersOf(d)) = 0
      BY <2>2, FS_EmptySet
    <2>4. used[d] = 0 /\ reserved[d] = 0
      BY DEF MediaInit, MediaStart
    <2>5. \E limit \in Limits : used[d] + reserved[d] <= limit
      <3>1. PICK limit \in Limits : limit \in Nat
        BY <2>1
      <3> QED BY <2>4, <3>1
    <2> QED BY <2>3, <2>4, <2>5 DEF DayInOrder
  <1> QED BY <1>1, InitMedia DEF MediaInvariant

LEMMA MediaInvariantNext == MediaInvariant /\ [MediaNext]_mediaVars => MediaInvariant'
  <1> SUFFICES ASSUME MediaInvariant, [MediaNext]_mediaVars PROVE MediaInvariant'
    OBVIOUS
  <1>0. MediaIInv /\ Books
    BY DEF MediaInvariant
  <1>1. CASE \E r \in Runs : MediaStep(r)
    BY <1>0, <1>1, MediaStepKeeps, QuotaStep DEF MediaInvariant
  <1>2. CASE RestartMedia
    BY <1>0, <1>2, RestartMediaKeeps, RestartKeepsDays DEF MediaInvariant
  <1>3. CASE NextDay
    <2>1. /\ UNCHANGED <<run, step, quality, video, holder, made, used, reserved>>
          /\ today' \in Days
      BY <1>3 DEF NextDay, tables, quota
    <2>2. MediaIInv'
      BY <1>0, <2>1, RowsUntouched
    <2>3. Books'
      BY <1>0, <2>1 DEF Books
    <2>4. \A d \in Days : DayInOrder(d)'
      BY <2>1 DEF MediaInvariant, DayInOrder, HoldersOf
    <2> QED BY <2>2, <2>3, <2>4 DEF MediaInvariant
  <1>4. CASE UNCHANGED mediaVars
    <2>1. UNCHANGED <<run, step, quality, video, holder, made, used, reserved, today>>
      BY <1>4 DEF mediaVars
    <2>2. MediaIInv'
      BY <1>0, <2>1, RowsUntouched
    <2>3. Books' /\ \A d \in Days : DayInOrder(d)'
      BY <2>1 DEF MediaInvariant, Books, DayInOrder, HoldersOf
    <2> QED BY <2>2, <2>3 DEF MediaInvariant
  <1> QED BY <1>1, <1>2, <1>3, <1>4 DEF MediaNext

\* The inductive invariant of a task: its rows are accountable and its quota
\* is in order, at every point where a worker may stop (media_quality.go,
\* video_runtime.go, media_quota.go).
THEOREM MediaInvariance == MediaSpec => []MediaInvariant
  BY MediaInvariantInit, MediaInvariantNext, PTL DEF MediaSpec

\* Tables, workers and receipts have their types.
THEOREM MediaTypes == MediaSpec => []MediaTypeOK
  <1>1. MediaInvariant => MediaTypeOK
    <2> SUFFICES ASSUME MediaInvariant PROVE MediaTypeOK
      OBVIOUS
    <2>0. MediaShape
      BY DEF MediaInvariant, MediaIInv
    <2>1. ASSUME NEW r \in Runs
          PROVE  /\ step[r].status \in
                      {"none", "pending", "running", "succeeded", "failed", "cancelled"}
                 /\ step[r].result \in 0..2
                 /\ quality[r].op \in Ops \cup {NoOp}
                 /\ Len(quality[r].gens) \in 0..2
                 /\ Len(quality[r].checks) = Len(quality[r].gens)
                 /\ quality[r].results \in 0..Len(quality[r].gens)
                 /\ quality[r].selected \in 0..quality[r].results
      <3>1. step[r] \in StepRows /\ quality[r] \in QualityRows /\ InOrder(r)
        BY <2>0 DEF MediaShape, MediaInvariant, MediaIInv, Accountable
      <3>2. Len(quality[r].gens) \in Nat
        BY <3>1 DEF QualityRows
      <3>3. /\ quality[r].op \in Ops \cup {NoOp}
            /\ quality[r].results \in 0..2 /\ quality[r].selected \in 0..2
        BY <3>1 DEF QualityRows
      <3>4. /\ step[r].status \in
                 {"none", "pending", "running", "succeeded", "failed", "cancelled"}
            /\ step[r].result \in 0..2
        BY <3>1 DEF StepRows
      <3>5. /\ Len(quality[r].gens) <= 2 /\ Len(quality[r].checks) = Len(quality[r].gens)
            /\ quality[r].results <= Len(quality[r].gens)
            /\ quality[r].selected <= quality[r].results
        BY <3>1 DEF InOrder
      <3>6. /\ Len(quality[r].gens) \in 0..2
            /\ quality[r].results \in 0..Len(quality[r].gens)
            /\ quality[r].selected \in 0..quality[r].results
        <4>1. \A n \in Nat, x, y \in 0..2 : n <= 2 /\ x <= n /\ y <= x
                => n \in 0..2 /\ x \in 0..n /\ y \in 0..x
          OBVIOUS
        <4> QED BY <3>2, <3>3, <3>5, <4>1
      <3> QED BY <3>3, <3>4, <3>5, <3>6
    <2>2. ASSUME NEW r \in Runs
          PROVE  /\ \A op \in Ops, a \in Tries :
                      /\ video[r][op][a].phase \in Phases
                      /\ video[r][op][a].route \in Routes \cup {"none"}
                 /\ holder[r].at \in Places /\ holder[r].day \in Days \cup {0}
                 /\ holder[r].routes \subseteq Routes
      BY <2>0 DEF MediaShape, VideoRows, Workers
    <2> QED BY <2>0, <2>1, <2>2 DEF MediaTypeOK, MediaShape, RunStates
  <1> QED BY <1>1, MediaInvariance, PTL

\* Whoever works on a reservation of a day has it in the table, restarts and
\* failing writes included, and no day exceeds the highest limit (reserveSubject,
\* commit and release of media_quota.go).
THEOREM QuotaIsKept == MediaSpec => []QuotaKept
  <1>1. MediaInvariant => QuotaKept
    BY DEF MediaInvariant, DayInOrder, QuotaKept, HoldersOf
  <1> QED BY <1>1, MediaInvariance, PTL

-----------------------------------------------------------------------------
(* MediaTask implements MediaPromise.                                      *)

LEMMA PromiseStart == MediaInit => Promise!PromiseInit
  <1> SUFFICES ASSUME MediaInit PROVE Promise!PromiseInit
    OBVIOUS
  <1>1. made = [r \in Runs |-> [a \in Tries |-> 0]]
    BY DEF MediaInit, MediaStart
  <1>2. \A r \in Runs : step[r].result = 0
    BY DEF MediaInit, MediaStart
  <1> QED BY <1>1, <1>2 DEF Promise!PromiseInit, Promise!Attempts, Tries

\* Steps that neither ask the provider nor finish leave what was promised.
LEMMA PromiseStutters ==
  ASSUME MediaIInv, UNCHANGED made, \A r \in Runs : step'[r].result = step[r].result
  PROVE  UNCHANGED Promise!promiseVars
  <1>1. [r \in Runs |-> step[r].result]' = [r \in Runs |-> step[r].result]
    OBVIOUS
  <1> QED BY <1>1 DEF Promise!promiseVars

\* A worker that asks the provider makes it generate what it owes.
LEMMA PromiseGenerates ==
  ASSUME MediaIInv, NEW r \in Runs, holder[r].at \in Unanswering, UNCHANGED step,
         \/ made' = made
         \/ /\ made[r][holder[r].attempt] = 0
            /\ made' = [made EXCEPT ![r][holder[r].attempt] = @ + 1]
  PROVE  [Promise!PromiseNext]_(Promise!promiseVars)
  <1>1. CASE made' = made
    BY <1>1, PromiseStutters
  <1>2. CASE /\ made[r][holder[r].attempt] = 0
             /\ made' = [made EXCEPT ![r][holder[r].attempt] = @ + 1]
    <2>1. PICK a \in Tries : a = holder[r].attempt
      BY AtAttempt
    <2>2. MediaShape /\ made[r][a] = 0 /\ made' = [made EXCEPT ![r][a] = @ + 1]
      BY AtAttempt, <1>2, <2>1
    <2>3. made' = [made EXCEPT ![r][a] = 1]
      BY <2>2, MadeMoves
    <2>4. step[r].result = 0 /\ (a = 2 => made[r][1] = 1)
      BY AtAttempt, <2>1
    <2>5. Promise!Generate(r, a)
      BY <2>2, <2>3, <2>4 DEF Promise!Generate
    <2> QED BY <2>5 DEF Promise!PromiseNext, Promise!Attempts, Tries
  <1> QED BY <1>1, <1>2

\* The step that finishes hands over a result that the provider made.
LEMMA PromiseFinishes ==
  ASSUME MediaIInv, NEW r \in Runs, FinishStep(r)
  PROVE  [Promise!PromiseNext]_(Promise!promiseVars)
  <1>0. /\ MediaShape /\ Accountable(r) /\ step \in [Runs -> StepRows]
        /\ holder[r].at = "finish" /\ quality[r] \in QualityRows
    BY DEF MediaIInv, MediaShape, FinishStep, At
  <1>1. step[r].result = 0
    BY <1>0 DEF Accountable, Settled
  <1>2. PICK a \in 0..2 : a = quality[r].selected
    BY <1>0 DEF QualityRows
  <1>3. PICK row : row = [status |-> "succeeded", result |-> a]
    OBVIOUS
  <1>4. row.result = a /\ step' = [step EXCEPT ![r] = row] /\ UNCHANGED made
    BY <1>2, <1>3 DEF FinishStep
  <1>5. CASE a = 0
    <2>1. \A s \in Runs : step'[s].result = step[s].result
      BY <1>0, <1>1, <1>4, <1>5
    <2> QED BY <1>4, <2>1, PromiseStutters
  <1>6. CASE a # 0
    <2>1. a \in Tries /\ a <= quality[r].results
      BY <1>0, <1>2, <1>6 DEF Accountable, InOrder, Tries
    <2>2. made[r][a] = 1
      BY <1>0, <2>1 DEF Accountable, Owed
    <2>3. [s \in Runs |-> step[s].result]' = [[s \in Runs |-> step[s].result] EXCEPT ![r] = a]
      BY <1>0, <1>4
    <2>4. Promise!HandOver(r, a)
      BY <1>1, <1>4, <2>2, <2>3 DEF Promise!HandOver
    <2> QED BY <2>1, <2>4 DEF Promise!PromiseNext, Promise!Attempts, Tries
  <1> QED BY <1>5, <1>6

\* Every step of a task is a step of its promise, or none.
LEMMA PromiseStep == MediaIInv /\ [MediaNext]_mediaVars => [Promise!PromiseNext]_(Promise!promiseVars)
  <1> SUFFICES ASSUME MediaIInv, [MediaNext]_mediaVars
               PROVE  [Promise!PromiseNext]_(Promise!promiseVars)
    OBVIOUS
  <1>1. ASSUME UNCHANGED <<step, made>>
        PROVE  [Promise!PromiseNext]_(Promise!promiseVars)
    BY <1>1, PromiseStutters
  <1>2. ASSUME NEW r \in Runs, MediaStep(r)
        PROVE  [Promise!PromiseNext]_(Promise!promiseVars)
    <2>0. /\ MediaShape /\ Accountable(r) /\ step \in [Runs -> StepRows] /\ step[r] \in StepRows
      BY DEF MediaIInv, MediaShape
    <2>1. ASSUME NEW row, row.result = step[r].result, UNCHANGED made,
                 step' = [step EXCEPT ![r] = row]
          PROVE  [Promise!PromiseNext]_(Promise!promiseVars)
      <3>1. \A s \in Runs : step'[s].result = step[s].result
        BY <2>0, <2>1
      <3> QED BY <2>1, <3>1, PromiseStutters
    <2>2. CASE OpenStep(r)
      <3>1. UNCHANGED made /\ (step' = step \/ step' = [step EXCEPT ![r].status = "running"])
        BY <2>2 DEF OpenStep
      <3>2. PICK row : row = [step[r] EXCEPT !.status = "running"]
        OBVIOUS
      <3>3. row.result = step[r].result
        BY <2>0, <3>2 DEF StepRows
      <3> QED BY <1>1, <2>1, <3>1, <3>2, <3>3
    <2>3. CASE FailStep(r)
      <3>1. step[r].result = 0
        BY <2>0, <2>3 DEF Accountable, Settled, FailStep, At
      <3>2. PICK row : row = [status |-> "failed", result |-> 0]
        OBVIOUS
      <3>3. row.result = 0 /\ step' = [step EXCEPT ![r] = row] /\ UNCHANGED made
        BY <2>3, <3>2 DEF FailStep
      <3> QED BY <2>1, <3>1, <3>3
    <2>4. CASE RetryMedia(r)
      <3>1. CASE step' = step
        BY <1>1, <2>4, <3>1 DEF RetryMedia
      <3>2. CASE step[r].status \in {"failed", "running"}
        <4>1. step[r].result = 0
          BY <2>0, <3>2 DEF Accountable, Settled
        <4>2. PICK row : row = [status |-> "pending", result |-> 0]
          OBVIOUS
        <4>3. row.result = 0 /\ step' = [step EXCEPT ![r] = row] /\ UNCHANGED made
          BY <2>4, <3>2, <4>2 DEF RetryMedia
        <4> QED BY <2>1, <4>1, <4>3
      <3> QED BY <2>4, <3>1, <3>2 DEF RetryMedia
    <2>5. CASE CancelMedia(r)
      <3>1. UNCHANGED made /\ (step' = step \/ step' = [step EXCEPT ![r].status = "cancelled"])
        BY <2>5 DEF CancelMedia
      <3>2. PICK row : row = [step[r] EXCEPT !.status = "cancelled"]
        OBVIOUS
      <3>3. row.result = step[r].result
        BY <2>0, <3>2 DEF StepRows
      <3> QED BY <1>1, <2>1, <3>1, <3>2, <3>3
    <2>6. CASE FinishStep(r)
      BY <2>6, PromiseFinishes
    <2>7. CASE GenerateImage(r)
      BY <2>7, GenerateImageKeeps, PromiseGenerates DEF GenerateImage, At, Unanswering
    <2>8. CASE CreateVideo(r)
      BY <2>8, CreateVideoKeeps, PromiseGenerates DEF CreateVideo, At, Unanswering
    <2>9. CASE \/ \E op \in Ops : Take(r, op)
               \/ EndRun(r) \/ Reserve(r) \/ ChargeExempt(r) \/ Commit(r) \/ Release(r)
               \/ LoseRelease(r) \/ ResumeQuality(r) \/ StartAttempt(r) \/ ReopenAttempt(r)
      BY <1>1, <2>9 DEF Take, EndRun, Reserve, ChargeExempt, Commit, Release, LoseRelease,
                        ReleaseTo, ResumeQuality, StartAttempt, ReopenAttempt, tables
    <2>10. CASE \/ AppearanceChanged(r) \/ HandleAnswer(r) \/ StartCheck(r) \/ Assess(r)
                \/ Select(r) \/ OpenVideo(r) \/ SubmitVideo(r) \/ KeepCreated(r)
                \/ PollVideo(r) \/ WriteFails(r)
      BY <1>1, <2>10 DEF AppearanceChanged, HandleAnswer, StartCheck, Assess, Select, OpenVideo,
                         SubmitVideo, KeepCreated, PollVideo, WriteFails, tables
    <2> QED BY <1>2, <2>2, <2>3, <2>4, <2>5, <2>6, <2>7, <2>8, <2>9, <2>10 DEF MediaStep
  <1>3. CASE RestartMedia \/ NextDay \/ UNCHANGED mediaVars
    BY <1>1, <1>3 DEF RestartMedia, NextDay, tables, mediaVars
  <1> QED BY <1>2, <1>3 DEF MediaNext

\* Through restarts, failing writes, retries and cancellations, the provider
\* generates at most once for a request and once more to correct it, and what
\* was handed over stays: the receipts that saveMediaReceipt writes before and
\* after every call of the provider implement the promise.
THEOREM PromiseIsKept == MediaSpec => KeepsPromise
  <1>1. MediaInvariant /\ [MediaNext]_mediaVars => [Promise!PromiseNext]_(Promise!promiseVars)
    BY PromiseStep DEF MediaInvariant
  <1> QED BY <1>1, PromiseStart, MediaInvariance, PTL
          DEF MediaSpec, KeepsPromise, Promise!PromiseSpec

-----------------------------------------------------------------------------
(* MCTasks: its behaviours are those of the parts.                         *)

LEMMA TasksBegin == TasksInit => IntakeInit /\ MediaInit
  <1>1. ASSUME NEW S PROVE Once(S) \in [Events -> 0..MaxCopies]
                          /\ \A e : [Once(S) EXCEPT ![e] = 2] \in [Events -> 0..MaxCopies]
    <2>1. 0 \in 0..MaxCopies /\ 1 \in 0..MaxCopies /\ 2 \in 0..MaxCopies
      BY TasksAssumption, IntakeAssumption
    <2> QED BY <2>1 DEF Once
  <1>2. Deliveries \subseteq [Events -> 0..MaxCopies]
    BY <1>1 DEF Deliveries
  <1>3. \A r \in Single : {r} \in SUBSET Runs
    BY TasksAssumption
  <1>4. {} \in SUBSET Runs /\ Pair \in SUBSET Runs /\ 0 \in 0..MaxFaults /\ MaxFaults \in 0..MaxFaults
    BY TasksAssumption, MediaAssumption
  <1>5. ASSUME NEW deliveries \in [Events -> 0..MaxCopies], NEW cast \in SUBSET Runs,
               NEW spent \in 0..MaxFaults, Begin(deliveries, cast, spent)
        PROVE  IntakeInit /\ MediaInit
    BY <1>5 DEF Begin, IntakeInit, MediaInit
  <1> QED BY <1>1, <1>2, <1>3, <1>4, <1>5 DEF TasksInit

LEMMA TasksStep == [TasksNext]_tasksVars => [IntakeNext]_intakeVars /\ [MediaNext]_mediaVars
  <1> SUFFICES ASSUME [TasksNext]_tasksVars PROVE [IntakeNext]_intakeVars /\ [MediaNext]_mediaVars
    OBVIOUS
  <1>1. CASE IntakeOnly
    BY <1>1 DEF IntakeOnly
  <1>2. CASE MediaOnly
    BY <1>2 DEF MediaOnly
  <1>3. CASE UNCHANGED tasksVars
    BY <1>3 DEF tasksVars
  <1> QED BY <1>1, <1>2, <1>3 DEF TasksNext

\* What is proved of the two parts holds of what the run Tasks explores.
THEOREM TasksImplementParts == TasksSpec => IntakeSpec /\ MediaSpec
  BY TasksBegin, TasksStep, PTL DEF TasksSpec, IntakeSpec, MediaSpec

\* The part of MCTasks that moves keeps its types.
THEOREM TasksTypes == TasksSpec => []TasksTypeOK
  <1>1. IntakeTypeOK /\ MediaTypeOK => TasksTypeOK
    BY DEF TasksTypeOK
  <1> QED BY <1>1, TasksImplementParts, IntakeTypes, MediaTypes, PTL

\* Everything the run Tasks checks, for any number of messages, calls, runs and
\* operations, and any failures and restarts.
THEOREM TasksAreCorrect ==
  TasksSpec => [](AnsweredByOneRun /\ BurstKeptWhole /\ QuotaKept)
               /\ OneUnaskedAtATime /\ KeepsPromise
  BY TasksImplementParts, MessagesAnsweredOnce, BurstsKeptWhole, QuotaIsKept, UnaskedOneByOne,
     PromiseIsKept, PTL
=============================================================================
