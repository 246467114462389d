-------------------------- MODULE ConversationFeed --------------------------
(***************************************************************************)
(* What the outbox promises the members of a conversation: messages are    *)
(* posted in an order, each is shown at most once or dropped, and in one   *)
(* conversation (a lane) none is shown while an earlier one may still be.   *)
(***************************************************************************)
EXTENDS Integers

CONSTANTS MaxRows, Lanes, NoLane

VARIABLES posted,  \* messages posted so far
          lane,    \* message -> its conversation
          fate     \* message -> unposted, open, shown or dropped

Messages == 1..MaxRows

Init == /\ posted = 0
        /\ lane = [m \in Messages |-> NoLane]
        /\ fate = [m \in Messages |-> "unposted"]

\* Some open messages are dropped while others are posted at the end.
PostAndDrop(last, dropped) ==
  /\ last \in posted..MaxRows
  /\ \A m \in dropped : fate[m] = "open"
  /\ posted' = last
  /\ fate' = [m \in Messages |-> IF m \in dropped THEN "dropped"
                                 ELSE IF m \in posted + 1 .. last THEN "open"
                                 ELSE fate[m]]
  /\ \E l \in Lanes :
       lane' = [m \in Messages |-> IF m \in posted + 1 .. last THEN l ELSE lane[m]]

\* A message is shown when none before it in its conversation is open.
Show(m) ==
  /\ fate[m] = "open"
  /\ \A e \in Messages : e < m /\ lane[e] = lane[m] => fate[e] # "open"
  /\ fate' = [fate EXCEPT ![m] = "shown"]
  /\ UNCHANGED <<posted, lane>>

Next == \/ \E last \in posted..MaxRows, dropped \in SUBSET Messages :
             PostAndDrop(last, dropped)
        \/ \E m \in Messages : Show(m)

vars == <<posted, lane, fate>>
Spec == Init /\ [][Next]_vars
=============================================================================
