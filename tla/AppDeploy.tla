----------------------------- MODULE AppDeploy -----------------------------
(***************************************************************************)
(* Deploying an application from the controller: the request handler       *)
(* startDeployment (internal/controller/apps.go), the app.deploy job       *)
(* handler (internal/controller/apps_worker.go) and the deployment and     *)
(* release rows they share (internal/apps/apps.go, migration 0016).        *)
(*                                                                         *)
(* One application.  A deployment is a number, in the order of creation,   *)
(* and has one job: the job's idempotency key is the deployment's id.  The *)
(* jobs are those of JobQueue, which JobEngine implements; all of them     *)
(* lock "app:<id>".  A handler is identified by its deployment and the     *)
(* attempt it runs under.  The lease guards its job writes; nothing guards *)
(* its writes to the deployment row.                                       *)
(***************************************************************************)
EXTENDS Naturals, FiniteSets

CONSTANTS
    MaxDeps,     \* bound: number of deployments
    Attempts,    \* max_attempts of an app.deploy job
    MaxFaults,   \* bound: database errors met by handlers and requests
    MaxHangups,  \* bound: clients that disconnect during their request
    MaxLosses,   \* bound: leases lost, or workers dead, during an attempt
    MaxCancels,  \* bound: jobs canceled by a user
    MaxLost,     \* bound: nodes that deploy while their answer is lost
    SlowRequest  \* TRUE: a worker may claim the job before the request ends

ASSUME DepsAssumption == MaxDeps \in Nat
ASSUME AttemptsAssumption == Attempts \in Nat \ {0}
ASSUME BoundsAssumption ==
    MaxFaults \in Nat /\ MaxHangups \in Nat /\ MaxLosses \in Nat /\ MaxCancels \in Nat
    /\ MaxLost \in Nat
ASSUME RequestAssumption == SlowRequest \in BOOLEAN

Deps == 1..MaxDeps
None == 0
Tries == 1..Attempts

VARIABLES
    dep,        \* dep[d]: state of the deployment row
    released,   \* deployments that have a release row
    is_current, \* deployment of the release marked current, or None
    live,       \* deployment whose release the node serves, or None
    request,    \* request[d]: where startDeployment is
    hung,       \* requests whose client has disconnected
    status, tries, \* the jobs, as in JobQueue
    handler,    \* handler[d][n]: where the handler of attempt n is
    verdict,    \* verdict[d][n]: the state a failing handler will record
    faults, losses, cancels, lost

vars == <<dep, released, is_current, live, request, hung, status, tries, handler,
          verdict, faults, losses, cancels, lost>>
store == <<dep, released, is_current>>
queue == <<status, tries>>
budget == <<faults, losses, cancels, lost>>

Queue == INSTANCE JobQueue WITH
    Jobs <- Deps,
    JobLocks <- [d \in Deps |-> {"app"}],
    MaxAttempts <- [d \in Deps |-> Attempts]

DepStates == {"absent", "queued", "running", "succeeded", "failed", "rolled_back"}
Stages == {"none", "begin", "prepare", "dispatch", "failing", "fail_job", "record",
           "mark", "succeed", "complete", "over"}

ActiveDep(d) == dep[d] \in {"queued", "running"}
Alive(d, n) == handler[d][n] \notin {"none", "over"}
Owned(d, n) == status[d] = "active" /\ tries[d] = n

\* UpdateDeploymentState, with its error ignored: no guard on the old state, and
\* the partial unique index refuses a second queued or running deployment.
UpdateDeploymentState(d, s) ==
    dep' = IF s \in {"queued", "running"} /\ \E e \in Deps \ {d} : ActiveDep(e)
           THEN dep ELSE [dep EXCEPT ![d] = s]

Goto(d, n, s) == handler' = [handler EXCEPT ![d][n] = s]

Fault == /\ faults < MaxFaults
         /\ faults' = faults + 1
         /\ UNCHANGED <<losses, cancels, lost>>

Init ==
    /\ dep = [d \in Deps |-> "absent"]
    /\ released = {} /\ is_current = None /\ live = None
    /\ request = [d \in Deps |-> "none"]
    /\ hung = {}
    /\ Queue!Init
    /\ handler = [d \in Deps |-> [n \in Tries |-> "none"]]
    /\ verdict = [d \in Deps |-> [n \in Tries |-> "failed"]]
    /\ faults = 0 /\ losses = 0 /\ cancels = 0 /\ lost = 0

-----------------------------------------------------------------------------
(* startDeployment *)

\* CreateDeployment: refused while another deployment is queued or running.
CreateDeployment(d) ==
    /\ dep[d] = "absent"
    /\ \A e \in Deps : e < d => dep[e] # "absent"
    /\ \A e \in Deps : ~ActiveDep(e)
    /\ dep' = [dep EXCEPT ![d] = "queued"]
    /\ request' = [request EXCEPT ![d] = "created"]
    /\ UNCHANGED <<released, is_current, live, hung, handler, verdict>>
    /\ UNCHANGED queue /\ UNCHANGED budget

\* The client goes away: the request's context is canceled, and every later
\* statement of the request fails.
ClientHangsUp(d) ==
    /\ request[d] \in {"created", "enqueued"} /\ d \notin hung
    /\ Cardinality(hung) < MaxHangups
    /\ hung' = hung \cup {d}
    /\ UNCHANGED <<live, request, handler, verdict>>
    /\ UNCHANGED store /\ UNCHANGED queue /\ UNCHANGED budget

\* jobs.Enqueue, and on error the write that fails the deployment, made with
\* the same context.
EnqueueJob(d) ==
    /\ request[d] = "created"
    /\ \/ /\ d \notin hung
          /\ Queue!Submit(d)
          /\ request' = [request EXCEPT ![d] = "enqueued"]
          /\ UNCHANGED dep /\ UNCHANGED budget
       \/ /\ d \notin hung /\ Fault
          /\ UpdateDeploymentState(d, "failed")
          /\ request' = [request EXCEPT ![d] = "done"]
          /\ UNCHANGED queue
       \/ /\ d \in hung
          /\ request' = [request EXCEPT ![d] = "done"]
          /\ UNCHANGED dep /\ UNCHANGED queue /\ UNCHANGED budget
    /\ UNCHANGED <<released, is_current, live, hung, handler, verdict>>

\* The job id is attached by writing the whole state again: queued.
AttachJob(d) ==
    /\ request[d] = "enqueued"
    /\ \/ d \notin hung /\ UpdateDeploymentState(d, "queued")
       \/ d \in hung /\ UNCHANGED dep
    /\ request' = [request EXCEPT ![d] = "done"]
    /\ UNCHANGED <<released, is_current, live, hung, handler, verdict>>
    /\ UNCHANGED queue /\ UNCHANGED budget

-----------------------------------------------------------------------------
(* The app.deploy handler *)

\* A worker claims the job and enters the handler.
Claim(d) ==
    /\ Queue!Begin(d)
    /\ SlowRequest \/ request[d] = "done"
    /\ Goto(d, tries[d] + 1, "begin")
    /\ UNCHANGED <<live, request, hung, verdict>>
    /\ UNCHANGED store /\ UNCHANGED budget

\* The handler returns an error: execute fails the job, unless the lease is gone.
ReturnError(d, n) ==
    /\ Goto(d, n, "over")
    /\ IF Owned(d, n) THEN Queue!Recover({d}) ELSE UNCHANGED queue

\* lease.MarkRunning, whose error ends the handler, and the deployment row is
\* advanced to running, whatever comes of it.
MarkDeploying(d, n) ==
    /\ handler[d][n] = "begin"
    /\ \/ /\ UpdateDeploymentState(d, "running")
          /\ Goto(d, n, "prepare")
          /\ UNCHANGED queue /\ UNCHANGED budget
       \/ Goto(d, n, "prepare") /\ Fault /\ UNCHANGED dep /\ UNCHANGED queue
       \/ ReturnError(d, n) /\ Fault /\ UNCHANGED dep
    /\ UNCHANGED <<released, is_current, live, request, hung, verdict>>

\* Loading the app, the project, the credentials and the environment, and the
\* steps fetch, build and activate up to the call of the node.  StartStep is the
\* only fenced call: without the lease the handler stops here.  When the
\* deployment row cannot be loaded only the job is failed.
Prepare(d, n) ==
    /\ handler[d][n] = "prepare"
    /\ \/ Owned(d, n) /\ Goto(d, n, "dispatch") /\ UNCHANGED queue /\ UNCHANGED budget
       \/ Goto(d, n, "failing") /\ UNCHANGED queue /\ UNCHANGED budget
       \/ Goto(d, n, "fail_job") /\ Fault /\ UNCHANGED queue
       \/ ~Owned(d, n) /\ ReturnError(d, n) /\ UNCHANGED budget
       \/ Owned(d, n) /\ Fault /\ ReturnError(d, n)
    /\ UNCHANGED <<live, request, hung, verdict>>
    /\ UNCHANGED store

\* Mutants of Dispatch: a failed node operation is recorded as a release, and a
\* deployed one goes straight to success without its release row.
DispatchIgnoresResult(d, n) ==
    /\ handler[d][n] = "dispatch" /\ Goto(d, n, "record")
    /\ live' \in {live, d}
    /\ UNCHANGED <<request, hung, verdict>>
    /\ UNCHANGED store /\ UNCHANGED queue /\ UNCHANGED budget
DispatchSkipsRecord(d, n) ==
    /\ handler[d][n] = "dispatch" /\ Goto(d, n, "succeed")
    /\ live' = d
    /\ UNCHANGED <<request, hung, verdict>>
    /\ UNCHANGED store /\ UNCHANGED queue /\ UNCHANGED budget

\* dispatcher.DeployApp: the node deploys the release, refuses or fails, or rolls
\* back; or it deploys and the answer is lost.
Dispatch(d, n) ==
    /\ handler[d][n] = "dispatch"
    /\ \/ live' = d /\ Goto(d, n, "record") /\ UNCHANGED verdict /\ UNCHANGED budget
       \/ /\ \E v \in {"failed", "rolled_back"} : verdict' = [verdict EXCEPT ![d][n] = v]
          /\ Goto(d, n, "failing")
          /\ UNCHANGED live /\ UNCHANGED budget
       \/ /\ lost < MaxLost /\ lost' = lost + 1
          /\ UNCHANGED <<faults, losses, cancels>>
          /\ live' = d /\ Goto(d, n, "failing")
          /\ verdict' = [verdict EXCEPT ![d][n] = "failed"]
    /\ UNCHANGED <<request, hung>>
    /\ UNCHANGED store /\ UNCHANGED queue

\* Mutant of FailDeployment: the row is not written.
FailNothing(d, n) ==
    /\ handler[d][n] = "failing" /\ Goto(d, n, "fail_job")
    /\ UNCHANGED <<live, request, hung, verdict>>
    /\ UNCHANGED store /\ UNCHANGED queue /\ UNCHANGED budget

\* The failure is written to the deployment row, whoever owns the job now.
FailDeployment(d, n) ==
    /\ handler[d][n] = "failing"
    /\ \/ UpdateDeploymentState(d, verdict[d][n]) /\ UNCHANGED budget
       \/ Fault /\ UNCHANGED dep
    /\ Goto(d, n, "fail_job")
    /\ UNCHANGED <<released, is_current, live, request, hung, verdict>>
    /\ UNCHANGED queue

\* _ = lease.Fail(...); return nil.  When Fail meets a database error, execute
\* sees a nil result and completes the job.
FailJob(d, n) ==
    /\ handler[d][n] = "fail_job"
    /\ \/ Owned(d, n) /\ Queue!Recover({d}) /\ UNCHANGED budget
       \/ Owned(d, n) /\ Fault /\ Queue!End(d, "succeeded")
       \/ ~Owned(d, n) /\ UNCHANGED queue /\ UNCHANGED budget
    /\ Goto(d, n, "over")
    /\ UNCHANGED <<live, request, hung, verdict>>
    /\ UNCHANGED store

\* The health step: StartStep, then CreateRelease.
CreateRelease(d, n) ==
    /\ handler[d][n] = "record"
    /\ \/ /\ Owned(d, n) /\ Goto(d, n, "mark")
          /\ released' = released \cup {d}
          /\ UNCHANGED queue /\ UNCHANGED budget
       \/ /\ Owned(d, n) /\ Fault /\ Goto(d, n, "failing")
          /\ UNCHANGED released /\ UNCHANGED queue
       \/ /\ ~Owned(d, n) /\ ReturnError(d, n)
          /\ UNCHANGED released /\ UNCHANGED budget
    /\ UNCHANGED <<dep, is_current, live, request, hung, verdict>>

\* MarkCurrentRelease, one transaction; an error is logged.
MarkCurrentRelease(d, n) ==
    /\ handler[d][n] = "mark"
    /\ \/ is_current' = d /\ UNCHANGED budget
       \/ Fault /\ UNCHANGED is_current
    /\ Goto(d, n, "succeed")
    /\ UNCHANGED <<dep, released, live, request, hung, verdict>>
    /\ UNCHANGED queue

Succeed(d, n) ==
    /\ handler[d][n] = "succeed"
    /\ \/ UpdateDeploymentState(d, "succeeded") /\ UNCHANGED budget
       \/ Fault /\ UNCHANGED dep
    /\ Goto(d, n, "complete")
    /\ UNCHANGED <<released, is_current, live, request, hung, verdict>>
    /\ UNCHANGED queue

\* lease.Complete.
CompleteJob(d, n) ==
    /\ handler[d][n] = "complete"
    /\ \/ Owned(d, n) /\ Queue!End(d, "succeeded") /\ Goto(d, n, "over") /\ UNCHANGED budget
       \/ Owned(d, n) /\ Fault /\ ReturnError(d, n)
       \/ ~Owned(d, n) /\ Goto(d, n, "over") /\ UNCHANGED queue /\ UNCHANGED budget
    /\ UNCHANGED <<live, request, hung, verdict>>
    /\ UNCHANGED store

-----------------------------------------------------------------------------
\* The lease expires and is reclaimed.  The worker is dead, or it only stopped
\* renewing and its handler goes on.
LoseLease(d, n) ==
    /\ Owned(d, n) /\ Alive(d, n)
    /\ losses < MaxLosses
    /\ losses' = losses + 1
    /\ Queue!Recover({d})
    /\ \/ Goto(d, n, "over")
       \/ UNCHANGED handler
    /\ UNCHANGED <<live, request, hung, verdict, faults, cancels, lost>>
    /\ UNCHANGED store

\* The cancel endpoint on a queued job: the deployment row is not touched.
CancelJob(d) ==
    /\ cancels < MaxCancels
    /\ cancels' = cancels + 1
    /\ Queue!CancelWaiting(d)
    /\ UNCHANGED <<live, request, hung, handler, verdict, faults, losses, lost>>
    /\ UNCHANGED store

RequestStep(d) == EnqueueJob(d) \/ AttachJob(d)

HandlerStep(d, n) ==
    \/ MarkDeploying(d, n) \/ Prepare(d, n) \/ Dispatch(d, n) \/ FailDeployment(d, n)
    \/ FailJob(d, n) \/ CreateRelease(d, n) \/ MarkCurrentRelease(d, n)
    \/ Succeed(d, n) \/ CompleteJob(d, n)

Next ==
    \/ \E d \in Deps : \/ CreateDeployment(d) \/ ClientHangsUp(d) \/ RequestStep(d)
                       \/ Claim(d) \/ CancelJob(d)
    \/ \E d \in Deps, n \in Tries : HandlerStep(d, n) \/ LoseLease(d, n)

Spec == Init /\ [][Next]_vars

\* Requests and handlers take their next step (every call has a timeout), and
\* a waiting job is claimed (JobEngine!JobsFinish).
FairSpec == /\ Spec
            /\ \A d \in Deps : WF_vars(RequestStep(d)) /\ WF_vars(Claim(d))
            /\ \A d \in Deps, n \in Tries : WF_vars(HandlerStep(d, n))

-----------------------------------------------------------------------------
(* Properties *)

\* Every row, request and handler variable has its type.
TypeOK ==
    /\ dep \in [Deps -> DepStates]
    /\ released \subseteq Deps /\ hung \subseteq Deps
    /\ is_current \in Deps \cup {None} /\ live \in Deps \cup {None}
    /\ request \in [Deps -> {"none", "created", "enqueued", "done"}]
    /\ status \in [Deps -> {"absent", "waiting", "active", "succeeded", "canceled",
                            "dead_letter"}]
    /\ tries \in [Deps -> 0..Attempts]
    /\ handler \in [Deps -> [Tries -> Stages]]
    /\ verdict \in [Deps -> [Tries -> {"failed", "rolled_back"}]]
    /\ faults \in 0..MaxFaults /\ losses \in 0..MaxLosses /\ cancels \in 0..MaxCancels
    /\ lost \in 0..MaxLost

\* Nothing is going on: no job waits or runs, no handler is alive.
Idle == /\ \A d \in Deps : status[d] \notin {"waiting", "active"}
        /\ \A d \in Deps, n \in Tries : ~Alive(d, n)

\* The controller's record is the truth about the node: when nothing is going
\* on, the release marked current is the one the node serves, through retries,
\* cancels and disconnecting clients, as long as no answer, lease or write is
\* lost.
RecordsMatchNode ==
    Idle /\ lost = 0 /\ losses = 0 /\ faults = 0 => is_current = live

\* A job that reports success did deploy: its release row exists, whatever is
\* canceled or lost, as long as no database call fails (a failing lease.Fail is
\* taken for success).
SuccessIsReal ==
    faults = 0 => \A d \in Deps : status[d] = "succeeded" => d \in released

\* A succeeded deployment and the release marked current have a release row,
\* whatever handlers lose their lease, die or meet database errors.
ReleasesAreReal ==
    /\ TypeOK
    /\ is_current # None => is_current \in released
    /\ \A d \in Deps : dep[d] = "succeeded" => d \in released

\* What the records call a success is one (apps_worker.go:302-376).
SuccessesAreReal == SuccessIsReal /\ ReleasesAreReal

\* A deployment whose request failed to enqueue its job does not block others.
EnqueueFailureUnblocks ==
    \A d \in Deps : request[d] = "done" /\ status[d] = "absent" => ~ActiveDep(d)

\* A deployment whose job has ended does not block others.
EndedJobUnblocks ==
    \A d \in Deps :
        /\ request[d] = "done"
        /\ status[d] \in {"succeeded", "canceled", "dead_letter"}
        /\ \A n \in Tries : ~Alive(d, n)
        => ~ActiveDep(d)

\* Every deployment comes to an end, so that the application can be deployed
\* again.
DeploymentsEnd == \A d \in Deps : ActiveDep(d) ~> ~ActiveDep(d)
=============================================================================
