---------------------------- MODULE GenbiServices ----------------------------
(***************************************************************************)
(* The GenBI services behind one router: those beside promotion, and the   *)
(* gate in front of it.  They share no state: an instance follows one of   *)
(* them, chosen at the start, while the others rest, and each has its own  *)
(* requests running at once.                                               *)
(***************************************************************************)
EXTENDS CoverageQueue, ReadOnlyExecution, DataRoom, ProtocolHealth, PromotionGate

VARIABLE service  \* the service the requests are for

genbiVars == <<coverageVars, executionVars, dataRoomVars, healthVars, gateVars, service>>

\* The services at rest are each in one of their initial states.
GenbiInit ==
  /\ service \in {"coverage", "execution", "data room", "health", "gate"}
  /\ CoverageInit /\ ExecutionInit /\ DataRoomInit /\ HealthInit /\ GateInit
  /\ service # "coverage" => objects = "one"
  /\ service # "data room" => /\ policy = CHOOSE pol \in Policies : TRUE
                              /\ points = [d \in Documents |-> NoEntry] /\ honest
  /\ service # "health" => /\ server.tools = CHOOSE tools \in ToolLists : TRUE
                           /\ baseline = Unpinned
  /\ service # "gate" => /\ deployment = CHOOSE d \in Deployments : TRUE
                         /\ golden = Unusable

CoverageStep ==
  /\ service = "coverage" /\ CoverageNext
  /\ UNCHANGED <<executionVars, dataRoomVars, healthVars, gateVars>>
ExecutionStep ==
  /\ service = "execution" /\ ExecutionNext
  /\ UNCHANGED <<coverageVars, dataRoomVars, healthVars, gateVars>>
DataRoomStep ==
  /\ service = "data room" /\ DataRoomNext
  /\ UNCHANGED <<coverageVars, executionVars, healthVars, gateVars>>
HealthStep ==
  /\ service = "health" /\ HealthNext
  /\ UNCHANGED <<coverageVars, executionVars, dataRoomVars, gateVars>>
GateStep ==
  /\ service = "gate" /\ GateNext
  /\ UNCHANGED <<coverageVars, executionVars, dataRoomVars, healthVars>>

GenbiNext ==
  /\ CoverageStep \/ ExecutionStep \/ DataRoomStep \/ HealthStep \/ GateStep
  /\ UNCHANGED service

GenbiSpec == GenbiInit /\ [][GenbiNext]_genbiVars
FairGenbiSpec == GenbiSpec /\ ExecutionFairness

\* Statements, workers, probes, promotions, and what they depend on,
\* always have their shape.
GenbiTypeOK == ExecutionTypeOK /\ HealthTypeOK /\ GateTypeOK

=============================================================================
