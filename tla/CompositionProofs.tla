--------------------------- MODULE CompositionProofs ---------------------------
(***************************************************************************)
(* The services side by side, for every value of their constants: a        *)
(* behaviour of MCServices is one of each of its parts, so that what is    *)
(* proved of the parts holds of what the run Services explores, and the    *)
(* part that moves keeps its types.  The steps of MCServices are only      *)
(* narrower than those of the parts, never other ones.                     *)
(***************************************************************************)
EXTENDS MCServices, AgentLoopProofs, ServicesProofs, QueuesProofs

LEMMA PartsBegin ==
  ServicesInit =>
    /\ PointsInit /\ AgentInit /\ SearchInit /\ ChainInit /\ HealthInit /\ FilesInit
    /\ MemoryInit /\ InboundInit /\ BotsInit /\ QueueInit /\ Init
  BY DEF ServicesInit

\* A part steps as its module says, or its state stays.
LEMMA PartsStep ==
  [ServicesNext]_servicesVars =>
    /\ [PointsNext]_pointsVars /\ [AgentNext]_agentVars /\ [SearchNext]_searchVars
    /\ [ChainNext]_chainVars /\ [HealthNext]_healthVars /\ [FilesNext]_filesVars
    /\ [MemoryNext]_memoryVars /\ [InboundNext]_inboundVars /\ [BotsNext]_botsVars
    /\ [QueueNext]_queueVars /\ [Next]_vars
  <1> SUFFICES ASSUME [ServicesNext]_servicesVars
               PROVE
                 /\ [PointsNext]_pointsVars /\ [AgentNext]_agentVars /\ [SearchNext]_searchVars
                 /\ [ChainNext]_chainVars /\ [HealthNext]_healthVars /\ [FilesNext]_filesVars
                 /\ [MemoryNext]_memoryVars /\ [InboundNext]_inboundVars /\ [BotsNext]_botsVars
                 /\ [QueueNext]_queueVars /\ [Next]_vars
    OBVIOUS
  <1>1. CASE PointsOnly
    BY <1>1 DEF PointsOnly
  <1>2. CASE AgentOnly
    BY <1>2 DEF AgentOnly
  <1>3. CASE SearchOnly
    BY <1>3 DEF SearchOnly
  <1>4. CASE ChainOnly
    BY <1>4 DEF ChainOnly
  <1>5. CASE HealthOnly
    BY <1>5 DEF HealthOnly
  <1>6. CASE FilesOnly
    BY <1>6 DEF FilesOnly
  <1>7. CASE MemoryOnly
    BY <1>7 DEF MemoryOnly
  <1>8. CASE InboundOnly
    BY <1>8 DEF InboundOnly
  <1>9. CASE BotsOnly
    BY <1>9 DEF BotsOnly
  <1>10. CASE QueueOnly
    BY <1>10 DEF QueueOnly
  <1>11. CASE JobsOnly
    BY <1>11 DEF JobsOnly
  <1>12. CASE UNCHANGED servicesVars
    BY <1>12 DEF servicesVars
  <1> QED
    BY <1>1, <1>2, <1>3, <1>4, <1>5, <1>6, <1>7, <1>8, <1>9, <1>10, <1>11, <1>12
       DEF ServicesNext

\* The services share no state: every behaviour of the composition is one of
\* each service.
THEOREM PartsAreImplemented ==
  ServicesSpec =>
    /\ PointsSpec /\ AgentSpec /\ SearchSpec /\ ChainSpec /\ HealthSpec /\ FilesSpec
    /\ MemorySpec /\ InboundSpec /\ BotsSpec /\ QueueSpec /\ Spec
  BY PartsBegin, PartsStep, PTL
     DEF ServicesSpec, PointsSpec, AgentSpec, SearchSpec, ChainSpec, HealthSpec, FilesSpec,
         MemorySpec, InboundSpec, BotsSpec, QueueSpec, Spec

\* The part of MCServices that moves keeps its types.
THEOREM ServicesTypes == ServicesSpec => []ServicesTypeOK
  <1>1. PointsTypeOK /\ MergesFlat /\ AgentTypeOK /\ SearchTypeOK /\ ChainTypeOK /\ HealthTypeOK
        /\ FilesTypeOK /\ MemoryTypeOK /\ InboundTypeOK /\ BotsTypeOK /\ QueueTypeOK /\ TypeOK
        => ServicesTypeOK
    BY DEF ServicesTypeOK
  <1> QED BY <1>1, PartsAreImplemented, PointsTypes, MergesStayFlat, AgentTypes, SearchTypes,
             ChainTypes, HealthTypes, FilesTypes, MemoryTypes, InboundTypes, BotsTypes, QueueTyped,
             JobsTyped, PTL

\* Everything the run Services checks, for any number of members, orders,
\* queries, files, facts, messages, bots, runs and jobs, and any number of
\* failures and restarts: the theorems of the parts hold of the composition.
THEOREM ServicesAreCorrect ==
  ServicesSpec =>
    /\ [](NoOverdraft /\ OrdersBooked /\ OwnersPaidOnce)
    /\ [](PlanBeforeEffects /\ PlansResume)
    /\ [](SearchesBounded /\ RoutesCovered /\ RoutedBySamples /\ WantedFilesStay)
    /\ [](ApprovalGate /\ OwnExecution /\ OneGeneration)
    /\ [](OneFactPerKey /\ LossesExplained /\ SelectionDecides)
    /\ SavedStepsStay /\ CheckInOnce /\ OldWordsStayOut
  <1>1. ServicesSpec =>
          /\ [](NoOverdraft /\ OrdersBooked /\ OwnersPaidOnce)
          /\ [](PlanBeforeEffects /\ PlansResume)
    BY PartsAreImplemented, NobodyOverdraws, OrdersAreBooked, InviteesPaidOnce,
       EffectsFollowPlans, InterruptedRunsResume, PTL
  <1>2. ServicesSpec =>
          [](SearchesBounded /\ RoutesCovered /\ RoutedBySamples /\ WantedFilesStay)
    BY PartsAreImplemented, BudgetHolds, GivesUpLast, RoutingFollowsSamples,
       WantedFilesAreKept, PTL
  <1>3. ServicesSpec =>
          /\ [](ApprovalGate /\ OwnExecution /\ OneGeneration)
          /\ [](OneFactPerKey /\ LossesExplained /\ SelectionDecides)
    BY PartsAreImplemented, GateHolds, ExecutionsAreTold, GenerationsApart, FactsAreOne,
       OnlyExplainedLosses, SelectionsDecide, PTL
  <1>4. ServicesSpec => SavedStepsStay /\ CheckInOnce /\ OldWordsStayOut
    BY PartsAreImplemented, SavedStepsKept, CheckedInOnce, OldWordsOut
  <1> QED BY <1>1, <1>2, <1>3, <1>4, PTL
===============================================================================
