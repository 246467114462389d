------------------------------ MODULE MCIntake ------------------------------
\* Small instances of Intake: mia sends a burst, noah and mia are joined in unasked.
EXTENDS Intake, TLC

CONSTANTS m1, m2, m3, u1, u2, mia, noah

Senders == (m1 :> mia) @@ (m2 :> mia) @@ (m3 :> mia) @@ (u1 :> mia) @@ (u2 :> noah)

Once(S) == [e \in Events |-> IF e \in S THEN 1 ELSE 0]
SmallCasts == {Once({m1, m2, m3, u1}), Once({m1, m3, u1, u2}),
               [Once({m1, m2}) EXCEPT ![m2] = 2], [Once({u1, u2}) EXCEPT ![u1] = 2]}

MCIntakeSpec == (\E cast \in SmallCasts : IntakeStart(cast)) /\ [][IntakeNext]_intakeVars
=============================================================================
