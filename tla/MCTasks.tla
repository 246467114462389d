------------------------------- MODULE MCTasks -------------------------------
(***************************************************************************)
(* Small instances of how messages become runs and of the images and       *)
(* videos a run makes.  As in MCServices one part moves at a time.         *)
(***************************************************************************)
EXTENDS Intake, MediaTask, TLC

CONSTANTS m1, m2, m3, u1, u2, mia, noah,    \* messages and members
          Single, Pair                 \* runs that are examined alone and together

ASSUME TasksAssumption ==
  /\ Single \subseteq Runs /\ Pair \subseteq Runs
  /\ MaxCopies >= 2                    \* for a message that comes twice

VARIABLE part

\* mia sends a burst, noah and mia are joined in unasked, messages come twice.
Senders == (m1 :> mia) @@ (m2 :> mia) @@ (m3 :> mia) @@ (u1 :> mia) @@ (u2 :> noah)
Once(S) == [e \in Events |-> IF e \in S THEN 1 ELSE 0]
Deliveries == {Once({m1, m2, m3}), Once({m1, m2, u1}), Once({m1, m3, u1, u2}),
               [Once({m1, m2}) EXCEPT ![m2] = 2], [Once({u1, u2}) EXCEPT ![u1] = 2]}

\* The pair is there for the quota: each is claimed once, and only restarts
\* disturb it.
Claims == [r \in Runs |-> IF r \in Pair THEN 1 ELSE 2]

Interchangeable ==
  Permutations(Calls) \cup Permutations(Ops) \cup Permutations(Pair)

Begin(deliveries, cast, spent) ==
  /\ IntakeStart(deliveries) /\ MediaStart(cast, spent)

TasksInit ==
  \/ part = "intake" /\ \E deliveries \in Deliveries : Begin(deliveries, {}, 0)
  \/ part = "media" /\ \E r \in Single : Begin(Once({}), {r}, 0)
  \/ part = "media" /\ Begin(Once({}), Pair, MaxFaults)

IntakeOnly ==
  /\ part = "intake" /\ IntakeNext
  /\ UNCHANGED <<part, mediaVars>>

MediaOnly ==
  /\ part = "media" /\ MediaNext
  /\ UNCHANGED <<part, intakeVars>>

TasksNext == IntakeOnly \/ MediaOnly

tasksVars == <<part, intakeVars, mediaVars>>

TasksSpec == TasksInit /\ [][TasksNext]_tasksVars

\* The part that moves keeps its types.
TasksTypeOK ==
  /\ part = "intake" => IntakeTypeOK
  /\ part = "media" => MediaTypeOK
=============================================================================
