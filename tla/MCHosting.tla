------------------------------ MODULE MCHosting ------------------------------
(***************************************************************************)
(* The hosting components side by side: each behaviour is one of the       *)
(* component that part names, the others keep their initial state.         *)
(***************************************************************************)
EXTENDS NodeDeploy, Sites, Databases, Backups

VARIABLE part   \* the component that runs

Parts == {"nodedeploy", "sites", "databases", "backups"}

HostingInit ==
    /\ part \in Parts
    /\ Init
    /\ SiteInit
    /\ DbInit
    /\ BkInit
    /\ part # "nodedeploy" => static = FALSE
    /\ part # "sites" => siteActorOk = CHOOSE a \in SiteActorCases : TRUE
    /\ part # "backups" => bkSize = CHOOSE z \in Schedulers \X BkRuns : z[1] + z[2] = BkSize

StepNodeDeploy ==
    /\ part = "nodedeploy" /\ Next
    /\ UNCHANGED <<part, siteVars, dbVars, bkVars>>
StepSites ==
    /\ part = "sites" /\ SiteNext
    /\ UNCHANGED <<part, vars, dbVars, bkVars>>
StepDatabases ==
    /\ part = "databases" /\ DbNext
    /\ UNCHANGED <<part, vars, siteVars, bkVars>>
StepBackups ==
    /\ part = "backups" /\ BkNext
    /\ UNCHANGED <<part, vars, siteVars, dbVars>>

HostingNext ==
    \/ StepNodeDeploy
    \/ StepSites
    \/ StepDatabases
    \/ StepBackups

HostingVars == <<part, vars, siteVars, dbVars, bkVars>>

HostingSpec == HostingInit /\ [][HostingNext]_HostingVars
=============================================================================
