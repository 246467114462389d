------------------------------ MODULE MCOutbox ------------------------------
(* Small instances of Outbox for TLC: two runs of one member with short     *)
(* replies, or one run with longer ones, held back, that is sent more often. *)
EXTENDS Outbox, TLC

VARIABLE question

\* The shape of failTransportDelivery's 1, 2, 4, ... seconds.
MCBackoff == [a \in 1..LeaseCap |-> IF a = 1 THEN 1 ELSE 2]

\* Every run in one group, from one member.
OneConversation == [r \in Runs |-> "c1"]
OneMember == [r \in Runs |-> "m1"]

TwoRuns ==
  /\ nrows' <= 2
  /\ \A d \in RowIds : /\ outbox'[d].attempts <= 2
                       /\ d > nrows => outbox'[d].wait < d

OneRun == runs'[2].state = "absent"

OutboxInit == Init /\ question \in {"tasks", "segments"}

OutboxNext ==
  /\ Next /\ UNCHANGED question
  /\ question = "tasks" => TwoRuns
  /\ question = "segments" => OneRun

OutboxSpec == OutboxInit /\ [][OutboxNext]_<<question, vars>>
=============================================================================
