---------------------------- MODULE MCConnectors -----------------------------
(***************************************************************************)
(* The delivery loops of the connectors, or one session of the realtime    *)
(* gateway: they share no state here, so one of the two moves.             *)
(***************************************************************************)
EXTENDS MCDeliveryWorkers, Realtime

VARIABLE connector

ConnectorsInit ==
  /\ connector \in {"loops", "gateway"}
  /\ WorkersInit /\ RealtimeInit

LoopsOnly ==
  /\ connector = "loops" /\ WorkersNext
  /\ UNCHANGED <<connector, realtimeVars>>

GatewayOnly ==
  /\ connector = "gateway" /\ RealtimeNext
  /\ UNCHANGED <<connector, allVars>>

ConnectorsNext == LoopsOnly \/ GatewayOnly

ConnectorsSpec == ConnectorsInit /\ [][ConnectorsNext]_<<connector, allVars, realtimeVars>>
=============================================================================
