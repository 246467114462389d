----------------------------- MODULE MCServices ------------------------------
(***************************************************************************)
(* Small instances of the services around a run, side by side.  They share *)
(* no table and no goroutine, so one of them moves in a behaviour and the  *)
(* others stay as they begin: the states of this module are those of its   *)
(* parts together, and each property is about one part.                    *)
(***************************************************************************)
EXTENDS PointsLedger, AgentLoop, SearchQueries, ProviderChain, ProviderHealth, MediaFiles,
        Memory, Inbound, PrivateBots, RunQueue, DurableJobs

VARIABLE service

\* Settings that differ in the contract or in the endpoint.
OneSetting == [contract |-> 1, endpoint |-> 1]
MCSettings == {OneSetting, [contract |-> 2, endpoint |-> 1], [contract |-> 1, endpoint |-> 2]}

\* Both waits of a job, doubling, are of one unit, and jobs are as urgent.
MCBackoff == [a \in Attempts |-> 1]
MCPriority == [j \in Jobs |-> 100]

\* All messages are of one conversation.
MCConvOf == [r \in QueuedRuns |-> "c"]

\* Two opposite statements about one thing, and one that excludes nothing.
MCStatements == {"likes", "dislikes", "habit"}
MCKeyOf == [s \in MCStatements |-> IF s = "habit" THEN "none" ELSE "coffee"]
MCSays == <<"likes", "dislikes", "habit">>
MCImportance == [s \in MCStatements |-> 2]

ServicesInit ==
  /\ service \in {"orders", "invites", "agent", "search", "chain", "health", "files", "jobs",
                  "facts", "recall", "inbound", "requests", "selections", "queue"}
  /\ PointsInit /\ HealthInit /\ FilesInit /\ Init /\ BotsInit /\ QueueInit
  /\ MemoryInit /\ (service \in {"facts", "recall"} \/ facts = <<>>)
  /\ InboundInit /\ (service = "inbound" \/ feed = CHOOSE f \in Feeds : TRUE)
  /\ AgentInit /\ settings = OneSetting
  /\ SearchInit /\ (service = "search" \/ spared = {})
  /\ ChainInit /\ (service = "chain" \/ chain = [creds |-> <<CHOOSE k \in Credentials : TRUE>>,
                                                 retries |-> <<0>>])

\* Orders and check-ins with one request for an invitee at a time, or several
\* requests, for more invitees, without orders and check-ins.
PointsOnly ==
  /\ service \in {"orders", "invites"} /\ PointsNext
  /\ service = "orders" => Cardinality(asked') <= 1 /\ \A q \in asked' : q.count <= 1
  /\ service = "invites" => UNCHANGED <<orders, checkins>>
  /\ UNCHANGED <<service, agentVars, searchVars, chainVars, healthVars, filesVars, memoryVars,
                 inboundVars, botsVars, queueVars, vars>>

AgentOnly ==
  /\ service = "agent" /\ AgentNext
  /\ UNCHANGED <<service, pointsVars, searchVars, chainVars, healthVars, filesVars, memoryVars,
                 inboundVars, botsVars, queueVars, vars>>

SearchOnly ==
  /\ service = "search" /\ SearchNext
  /\ UNCHANGED <<service, pointsVars, agentVars, chainVars, healthVars, filesVars, memoryVars,
                 inboundVars, botsVars, queueVars, vars>>

ChainOnly ==
  /\ service = "chain" /\ ChainNext
  /\ UNCHANGED <<service, pointsVars, agentVars, searchVars, healthVars, filesVars, memoryVars,
                 inboundVars, botsVars, queueVars, vars>>

HealthOnly ==
  /\ service = "health" /\ HealthNext
  /\ UNCHANGED <<service, pointsVars, agentVars, searchVars, chainVars, filesVars, memoryVars,
                 inboundVars, botsVars, queueVars, vars>>

FilesOnly ==
  /\ service = "files" /\ FilesNext
  /\ UNCHANGED <<service, pointsVars, agentVars, searchVars, chainVars, healthVars, memoryVars,
                 inboundVars, botsVars, queueVars, vars>>

JobsOnly ==
  /\ service = "jobs" /\ Next
  /\ UNCHANGED <<service, pointsVars, agentVars, searchVars, chainVars, healthVars, filesVars,
                 memoryVars, inboundVars, botsVars, queueVars>>

\* Facts without searches, or searches over fewer rows.
MemoryOnly ==
  /\ service \in {"facts", "recall"} /\ MemoryNext
  /\ service = "facts" => UNCHANGED searches
  /\ service = "recall" => minted' <= 2
  /\ UNCHANGED <<service, pointsVars, agentVars, searchVars, chainVars, healthVars, filesVars,
                 inboundVars, botsVars, queueVars, vars>>

InboundOnly ==
  /\ service = "inbound" /\ InboundNext
  /\ UNCHANGED <<service, pointsVars, agentVars, searchVars, chainVars, healthVars, filesVars,
                 memoryVars, botsVars, queueVars, vars>>

\* Overlapping requests of one owner for any connection, or selections of two
\* owners by one clerk, of bots that have no key and are not archived.
BotsOnly ==
  /\ service \in {"requests", "selections"} /\ BotsNext
  /\ service = "requests" =>
       \A c \in Clerks : clerks'[c].owner \in {NoBot, CHOOSE o \in Owners : TRUE}
                        /\ clerks'[c].place = Anyone
  /\ service = "selections" =>
       /\ \A c \in Clerks : c # (CHOOSE d \in Clerks : TRUE) => clerks'[c] = NoClerk
       /\ \A b \in Bots : bots'[b].status # "archived"
       /\ \A c \in Clerks : clerks'[c].item = NoBot
  /\ UNCHANGED <<service, pointsVars, agentVars, searchVars, chainVars, healthVars, filesVars,
                 memoryVars, inboundVars, queueVars, vars>>

QueueOnly ==
  /\ service = "queue" /\ QueueNext
  /\ UNCHANGED <<service, pointsVars, agentVars, searchVars, chainVars, healthVars, filesVars,
                 memoryVars, inboundVars, botsVars, vars>>

ServicesNext ==
  \/ PointsOnly \/ AgentOnly \/ SearchOnly \/ ChainOnly
  \/ HealthOnly \/ FilesOnly \/ MemoryOnly \/ InboundOnly \/ BotsOnly
  \/ QueueOnly \/ JobsOnly

servicesVars ==
  <<service, pointsVars, agentVars, searchVars, chainVars, healthVars, filesVars, memoryVars,
    inboundVars, botsVars, queueVars, vars>>

ServicesSpec == ServicesInit /\ [][ServicesNext]_servicesVars

\* The part that moves keeps its types.
ServicesTypeOK ==
  /\ service \in {"orders", "invites"} => PointsTypeOK /\ MergesFlat
  /\ service = "agent" => AgentTypeOK
  /\ service = "search" => SearchTypeOK
  /\ service = "chain" => ChainTypeOK
  /\ service = "health" => HealthTypeOK
  /\ service = "files" => FilesTypeOK
  /\ service \in {"facts", "recall"} => MemoryTypeOK
  /\ service = "inbound" => InboundTypeOK
  /\ service \in {"requests", "selections"} => BotsTypeOK
  /\ service = "queue" => QueueTypeOK
  /\ service = "jobs" => TypeOK
=============================================================================
