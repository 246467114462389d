-------------------------- MODULE MCDeliveryWorkers --------------------------
(* Small instances of DeliveryWorkers for TLC.                             *)
EXTENDS DeliveryWorkers, TLC

NoBackoff == [a \in 1..LeaseCap |-> 0]

\* Longer than the pace of segments, so that a later one gets ready first.
SlowBackoff == [a \in 1..LeaseCap |-> 2]

OneConversation == [r \in Runs |-> "c1"]
OneMember == [r \in Runs |-> "m1"]

\* One run in a behaviour, of a connector whose answers are kept or of one whose
\* answers are not.
OneOfTheRuns == \E r \in Runs : \A s \in Runs \ {r} : runs'[s].state = "absent"

PartsNext == WorkersNext /\ OneOfTheRuns

PartsSpec ==
  /\ WorkersInit /\ [][PartsNext]_allVars
  /\ \A l \in Loops : WF_allVars(LoopStep(l))
  /\ WF_allVars(TimePasses)

LoopSymmetry == Permutations(Loops)
=============================================================================
