-------------------------------- MODULE Apps --------------------------------
(***************************************************************************)
(* Applications (apps/apps.go) and the four ways their handlers start a    *)
(* deployment (controller/apps.go): by hand, again, back to an             *)
(* older release, and by a push to the git webhook.  Each request reads    *)
(* the application, then inserts a deployment, then enqueues its job.      *)
(* What the job does is AppDeploy; here it only ends.  One application,    *)
(* one webhook token.                                                      *)
(***************************************************************************)
EXTENDS Naturals, FiniteSets

CONSTANTS
    MaxApDeps,     \* bound: deployments
    ApRequests,    \* the requests that are served at the same time
    ApCommits,     \* commits that can be deployed
    MaxApFaults    \* bound: failed enqueues, clients that hang up

ApDeps == 1..MaxApDeps
NoDep == [state |-> "absent", trigger |-> "none", commit |-> 0, push |-> FALSE, job |-> FALSE]
NoRequest == [at |-> "idle", trigger |-> "none", commit |-> 0, push |-> FALSE]

VARIABLES
    apRow,      \* state of the application's row
    apToken,    \* state of its webhook token
    apDep,      \* apDep[d]: the deployment row, the push it is for, and whether it has its job
    apReleases, apCurrent,  \* deployments with a release, and the current one (0: none)
    apReq,      \* apReq[r]: where a request is, and what it read
    apFaults

appDeps == <<apDep, apReleases, apCurrent>>
appsVars == <<apRow, apToken, appDeps, apReq, apFaults>>

AppsInit ==
    /\ apRow = "absent" /\ apToken = "absent"
    /\ apDep = [d \in ApDeps |-> NoDep] /\ apReleases = {} /\ apCurrent = 0
    /\ apReq = [r \in ApRequests |-> NoRequest]
    /\ apFaults = 0

\* GetAppInProject finds every row that is not deleted, GetApp as well.
Found == apRow \notin {"absent", "deleted"}
Usable == apRow = "active"

-----------------------------------------------------------------------------
\* The inventory.

\* The slug is taken while a row has it that is not deleted.
SlugFree == apRow \in {"absent", "deleted"}
CreateApp ==
    /\ SlugFree /\ apRow' = "active"
    /\ UNCHANGED <<apToken, appDeps, apReq, apFaults>>

\* RequestDelete.  CancelDelete, FinalizeDelete and suspension have no caller.
Deletable == apRow \in {"active", "suspended"}
DeleteApp ==
    /\ Deletable /\ apRow' = "pending_delete"
    /\ UNCHANGED <<apToken, appDeps, apReq, apFaults>>

CreateWebhookToken ==
    /\ Found /\ apToken = "absent" /\ apToken' = "active"
    /\ UNCHANGED <<apRow, appDeps, apReq, apFaults>>

RevokeWebhookToken ==
    /\ Found /\ apToken = "active" /\ apToken' = "revoked"
    /\ UNCHANGED <<apRow, appDeps, apReq, apFaults>>

-----------------------------------------------------------------------------
\* The requests: what each reads.

Reads(r, trigger, commit, push) ==
    /\ apReq[r] = NoRequest
    /\ apReq' = [apReq EXCEPT ![r] = [at |-> "insert", trigger |-> trigger, commit |-> commit, push |-> push]]
    /\ UNCHANGED <<apRow, apToken, appDeps, apFaults>>

DeployApp(r, c) == Usable /\ Reads(r, "manual", c, FALSE)

\* The newest release that is not current, of the last five.
RollbackTarget == {d \in apReleases \ {apCurrent} : \A e \in apReleases \ {apCurrent} : e <= d}
RollbackApp(r) == Usable /\ \E d \in RollbackTarget : Reads(r, "rollback", apDep[d].commit, FALSE)

Redeploy(r, d) == Usable /\ apDep[d].state # "absent" /\ Reads(r, "manual", apDep[d].commit, FALSE)

PushAccepted == apToken = "active" /\ Usable
GitWebhook(r, c) == PushAccepted /\ Reads(r, "webhook", c, TRUE)

-----------------------------------------------------------------------------
\* The requests: CreateDeployment, then Enqueue.

ApActive(d) == apDep[d].state \in {"queued", "running"}
\* Mutant of Refused: no key.
RefusedActive(q) == \E d \in ApDeps : ApActive(d)
\* The unique indexes: one deployment that has not ended, and one of each push.
\* Both are answered as ErrConflictActive.
Refused(q) == \E d \in ApDeps : ApActive(d) \/ (q.push /\ apDep[d].push /\ apDep[d].commit = q.commit)

InsertDep(r) ==
    LET q == apReq[r] IN
    /\ q.at = "insert"
    /\ \/ Refused(q) /\ apReq' = [apReq EXCEPT ![r] = NoRequest] /\ UNCHANGED apDep
       \/ /\ ~Refused(q) /\ apReq' = [apReq EXCEPT ![r].at = "enqueue"]
          /\ \E d \in ApDeps :
                /\ apDep[d].state = "absent" /\ \A e \in 1..d-1 : apDep[e].state # "absent"
                /\ apDep' = [apDep EXCEPT ![d] = [state |-> "queued", trigger |-> q.trigger, commit |-> q.commit,
                                push |-> q.push, job |-> FALSE]]
    /\ UNCHANGED <<apRow, apToken, apReleases, apCurrent, apFaults>>

\* The job, or the end of the deployment; a request that dies leaves neither.
EnqueueDep(r) ==
    /\ apReq[r].at = "enqueue" /\ apReq' = [apReq EXCEPT ![r] = NoRequest]
    /\ \E d \in ApDeps :
        /\ ApActive(d) /\ ~apDep[d].job
        /\ \/ apDep' = [apDep EXCEPT ![d].job = TRUE] /\ UNCHANGED apFaults
           \/ /\ apFaults < MaxApFaults /\ apFaults' = apFaults + 1
              /\ apDep' \in {apDep, [apDep EXCEPT ![d].state = "failed"]}
    /\ UNCHANGED <<apRow, apToken, apReleases, apCurrent>>

\* The job ends: with a release that is now current, or without.
JobEnds(d) ==
    /\ ApActive(d) /\ apDep[d].job
    /\ \/ /\ apDep' = [apDep EXCEPT ![d].state = "succeeded"]
          /\ apReleases' = apReleases \cup {d} /\ apCurrent' = d
       \/ apDep' = [apDep EXCEPT ![d].state = "failed"] /\ UNCHANGED <<apReleases, apCurrent>>
    /\ UNCHANGED <<apRow, apToken, apReq, apFaults>>

AppsNext ==
    \/ CreateApp \/ DeleteApp \/ CreateWebhookToken \/ RevokeWebhookToken
    \/ \E r \in ApRequests :
        \/ RollbackApp(r) \/ InsertDep(r) \/ EnqueueDep(r)
        \/ (\E c \in ApCommits : DeployApp(r, c) \/ GitWebhook(r, c))
        \/ (\E d \in ApDeps : Redeploy(r, d))
    \/ \E d \in ApDeps : JobEnds(d)

AppsSpec == AppsInit /\ [][AppsNext]_appsVars

-----------------------------------------------------------------------------
\* However requests interleave, and however often a push is delivered again: a
\* push makes one deployment, and never two deployments of an application are
\* under way, whose node-side releases would race for the same directory.
OnePushOneDeployment ==
    \A d, e \in ApDeps : d # e =>
        /\ ~(ApActive(d) /\ ApActive(e))
        /\ ~(apDep[d].push /\ apDep[e].push /\ apDep[d].commit = apDep[e].commit)
=============================================================================
