------------------------------ MODULE MCFleet ------------------------------
(***************************************************************************)
(* The fleet and the controller process side by side: each behaviour is    *)
(* one of the component that part names, the others keep their initial     *)
(* state.                                                                  *)
(***************************************************************************)
EXTENDS Wire, Pools, Alerts, Sessions, Startup, Serving

VARIABLE part   \* the component that runs

Parts == {"wire", "pools", "alerts", "sessions", "startup", "serving"}

FleetInit ==
    /\ part \in Parts
    /\ WireInit
    /\ PoolInit
    /\ AlertInit
    /\ SessionsInit
    /\ StartupInit
    /\ ServingInit
    /\ part # "wire" => wrTools = [h \in WrServers |-> TRUE]
    /\ part # "pools" => haHostUp = HaServers

StepWire ==
    /\ part = "wire" /\ WireNext
    /\ UNCHANGED <<part, poolVars, alertVars, sessionsVars, startupVars, servingVars>>
StepPools ==
    /\ part = "pools" /\ PoolNext
    /\ UNCHANGED <<part, wireVars, alertVars, sessionsVars, startupVars, servingVars>>
StepAlerts ==
    /\ part = "alerts" /\ AlertNext
    /\ UNCHANGED <<part, wireVars, poolVars, sessionsVars, startupVars, servingVars>>
StepSessions ==
    /\ part = "sessions" /\ SessionsNext
    /\ UNCHANGED <<part, wireVars, poolVars, alertVars, startupVars, servingVars>>
StepStartup ==
    /\ part = "startup" /\ StartupNext
    /\ UNCHANGED <<part, wireVars, poolVars, alertVars, sessionsVars, servingVars>>
StepServing ==
    /\ part = "serving" /\ ServingNext
    /\ UNCHANGED <<part, wireVars, poolVars, alertVars, sessionsVars, startupVars>>

FleetNext ==
    \/ StepWire
    \/ StepPools
    \/ StepAlerts
    \/ StepSessions
    \/ StepStartup
    \/ StepServing

FleetVars == <<part, wireVars, poolVars, alertVars, sessionsVars, startupVars, servingVars>>

FleetSpec == FleetInit /\ [][FleetNext]_FleetVars
=============================================================================
