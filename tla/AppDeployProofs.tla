-------------------------- MODULE AppDeployProofs ---------------------------
(***************************************************************************)
(* Application deployments, for any number of deployments, attempts,       *)
(* faults, lost leases and cancels. The record and the node differ only    *)
(* between the node's answer and the write that marks the release          *)
(* (Mirrored); that no second handler comes in between rests on the lock   *)
(* of the application (Exclusive) and on the lease (Fenced).               *)
(***************************************************************************)
EXTENDS AppDeploy, TLAPS

\* All jobs of the application lock it, so one is active at a time.
Exclusive == \A d, e \in Deps : status[d] = "active" /\ status[e] = "active" => d = e

\* A handler that goes on to mark or report a success has recorded the release.
Recorded == \A d \in Deps, n \in Tries : handler[d][n] \in {"mark", "succeed", "complete"} => d \in released

\* Until a lease is lost, a handler that is alive owns its job.
Fenced == losses = 0 => \A d \in Deps, n \in Tries : Alive(d, n) => Owned(d, n)

\* Until an answer, a lease or a write is lost, the records lag behind the node
\* only between the node's answer and the write that marks the release.
Recording(d, n) == handler[d][n] \in {"record", "mark"}
Mirrored ==
    lost = 0 /\ losses = 0 /\ faults = 0 =>
        /\ \A d \in Deps, n \in Tries : Recording(d, n) => live = d
        /\ (\A d \in Deps, n \in Tries : ~Recording(d, n)) => is_current = live

AppDeployInv == TypeOK /\ Exclusive /\ Recorded /\ ReleasesAreReal /\ SuccessIsReal /\ Fenced /\ Mirrored

USE DepsAssumption, AttemptsAssumption, BoundsAssumption, RequestAssumption

LEMMA AppDeployInit == Init => AppDeployInv
BY DEF Init, Queue!Init, AppDeployInv, TypeOK, Exclusive, Recorded, ReleasesAreReal, SuccessIsReal, Fenced,
       Mirrored, Recording, Alive, Owned, Deps, Tries, None, DepStates, Stages

\* What the invariant says of the runs' properties.
LEMMA InvMatches == AppDeployInv => RecordsMatchNode
BY DEF AppDeployInv, RecordsMatchNode, Idle, Mirrored, Alive, Recording

-----------------------------------------------------------------------------
\* The writes that handlers and requests make.

LEMMA DeploymentUpdated ==
  ASSUME TypeOK, NEW d \in Deps, NEW s \in DepStates, UpdateDeploymentState(d, s)
  PROVE  /\ dep' \in [Deps -> DepStates]
         /\ \A e \in Deps : e # d => dep'[e] = dep[e]
         /\ dep'[d] \in {dep[d], s}
         /\ s \notin {"queued", "running"} => dep'[d] = s
BY DEF TypeOK, UpdateDeploymentState

LEMMA HandlerGoes ==
  ASSUME TypeOK, NEW d \in Deps, NEW n \in Tries, NEW s \in Stages, Goto(d, n, s)
  PROVE  /\ handler' \in [Deps -> [Tries -> Stages]]
         /\ handler'[d][n] = s
         /\ \A e \in Deps, m \in Tries : e # d \/ m # n => handler'[e][m] = handler[e][m]
BY DEF TypeOK, Goto

States == {"absent", "waiting", "active", "succeeded", "canceled", "dead_letter"}

\* A handler gives its job up, to a retry, to the dead letters or to success.
LEMMA Recovered ==
  ASSUME TypeOK, NEW d \in Deps, Queue!Recover({d})
  PROVE  /\ status' \in [Deps -> States] /\ tries' = tries /\ status[d] = "active"
         /\ status'[d] \in {"waiting", "dead_letter"}
         /\ \A e \in Deps : e # d => status'[e] = status[e]
BY DEF TypeOK, Queue!Recover, States

LEMMA EndedWell ==
  ASSUME TypeOK, NEW d \in Deps, Queue!End(d, "succeeded")
  PROVE  /\ status' \in [Deps -> States] /\ tries' = tries /\ status[d] = "active"
         /\ status'[d] = "succeeded"
         /\ \A e \in Deps : e # d => status'[e] = status[e]
BY DEF TypeOK, Queue!End, States

\* A handler step writes its deployment's row, release row and job only.  What
\* it does to the job ends the handler, and it does it as the owner.
JobKept == status' = status /\ tries' = tries
JobLeft(d, n) == /\ status' \in [Deps -> States] /\ tries' = tries
                 /\ Owned(d, n) /\ status'[d] # "active"
                 /\ \A e \in Deps : e # d => status'[e] = status[e]

Writes(d, n, s) ==
    /\ Goto(d, n, s)
    /\ JobKept \/ (JobLeft(d, n) /\ s = "over")
    /\ status'[d] = "succeeded" /\ status[d] # "succeeded" => faults' # 0 \/ handler[d][n] = "complete"
    /\ released \subseteq released'
    /\ s \in {"mark", "succeed", "complete"} => d \in released'
    /\ \A e \in Deps : e # d => dep'[e] = dep[e]
    /\ dep'[d] = "succeeded" => dep[d] = "succeeded" \/ d \in released'
    /\ is_current' = is_current \/ (is_current' = d /\ d \in released')
    /\ faults' >= faults /\ losses' = losses /\ lost' >= lost

\* What a step keeps of the mirror.
Mirrors(d, n, s) ==
    lost' = 0 /\ losses' = 0 /\ faults' = 0 =>
        /\ s \in {"record", "mark"} => live' = d
        /\ s \notin {"record", "mark"} /\ Recording(d, n) => is_current' = live'
        /\ s \notin {"record", "mark"} /\ ~Recording(d, n) => is_current' = is_current /\ live' = live

LEMMA StepKeeps ==
  ASSUME AppDeployInv, TypeOK', NEW d \in Deps, NEW n \in Tries, Alive(d, n),
         NEW s \in Stages, Writes(d, n, s), Mirrors(d, n, s)
  PROVE  AppDeployInv'
<1> USE DEF Writes
<1> USE DEF AppDeployInv
<1>1. /\ handler'[d][n] = s
      /\ \A e \in Deps, m \in Tries : e # d \/ m # n => handler'[e][m] = handler[e][m]
  BY HandlerGoes
<1>2. \A e \in Deps : status'[e] = "active" => status[e] = "active"
  BY DEF JobKept, JobLeft
<1>3. Exclusive'
  BY <1>2 DEF Exclusive
<1>4. Recorded'
  BY <1>1 DEF Recorded
<1>5. ReleasesAreReal'
  BY <1>1 DEF ReleasesAreReal
<1>6. SuccessIsReal'
  <2> SUFFICES ASSUME faults' = 0, NEW e \in Deps, status'[e] = "succeeded" PROVE e \in released'
    BY DEF SuccessIsReal
  <2>1. faults = 0
    BY DEF TypeOK
  <2>2. CASE status[e] = "succeeded"
    BY <2>1, <2>2 DEF SuccessIsReal
  <2>3. CASE status[e] # "succeeded"
    <3>1. e = d
      BY <2>3 DEF JobKept, JobLeft
    <3> QED BY <2>3, <3>1 DEF Recorded
  <2> QED BY <2>2, <2>3
<1>7. Fenced'
  <2> SUFFICES ASSUME losses' = 0, NEW e \in Deps, NEW m \in Tries, Alive(e, m)' PROVE Owned(e, m)'
    BY DEF Fenced
  <2>1. Alive(e, m)
    BY <1>1 DEF Alive
  <2>2. Owned(e, m) /\ Owned(d, n)
    BY <2>1 DEF Fenced
  <2>3. CASE JobKept
    BY <2>2, <2>3 DEF JobKept, Owned
  <2>4. CASE JobLeft(d, n) /\ s = "over"
    <3>1. e # d \/ m # n
      BY <1>1, <2>4 DEF Alive
    <3>2. e # d
      BY <2>2, <3>1 DEF Owned
    <3> QED BY <2>2, <3>2, <2>4 DEF JobLeft, Owned
  <2> QED BY <2>3, <2>4
<1>8. Mirrored'
  <2> SUFFICES ASSUME lost' = 0, losses' = 0, faults' = 0
               PROVE  /\ \A e \in Deps, m \in Tries : Recording(e, m)' => live' = e
                      /\ (\A e \in Deps, m \in Tries : ~Recording(e, m)') => is_current' = live'
    BY DEF Mirrored
  <2>1. lost = 0 /\ losses = 0 /\ faults = 0
    BY DEF TypeOK
  <2>2. ASSUME NEW e \in Deps, NEW m \in Tries, Recording(e, m) PROVE e = d /\ m = n
    <3>1. Alive(e, m)
      BY <2>2 DEF Recording, Alive
    <3> QED BY <2>1, <3>1 DEF Fenced, Exclusive, Owned
  <2>3. ASSUME NEW e \in Deps, NEW m \in Tries, Recording(e, m)' PROVE e = d /\ m = n
    <3>1. CASE e # d \/ m # n
      BY <1>1, <2>2, <2>3, <3>1 DEF Recording
    <3> QED BY <3>1
  <2>5. Recording(d, n)' => live' = d
    BY <1>1 DEF Recording, Mirrors
  <2>6. ASSUME ~Recording(d, n)' PROVE is_current' = live'
    <3>1. s \notin {"record", "mark"}
      BY <1>1, <2>6 DEF Recording
    <3>2. CASE Recording(d, n)
      BY <3>1, <3>2 DEF Mirrors
    <3>3. CASE ~Recording(d, n)
      BY <2>1, <2>2, <3>1, <3>3 DEF Mirrored, Mirrors
    <3> QED BY <3>2, <3>3
  <2> QED BY <2>3, <2>5, <2>6
<1> QED BY <1>3, <1>4, <1>5, <1>6, <1>7, <1>8
-----------------------------------------------------------------------------
\* The handler's steps.

\* An owner's error ends in a retry or in the dead letters.
LEMMA ErrorReturned ==
  ASSUME TypeOK, NEW d \in Deps, NEW n \in Tries, ReturnError(d, n)
  PROVE  /\ Goto(d, n, "over") /\ status' \in [Deps -> States] /\ tries' = tries
         /\ JobKept \/ JobLeft(d, n)
         /\ status'[d] = "succeeded" => status[d] = "succeeded"
<1>1. CASE Owned(d, n) /\ Queue!Recover({d})
  BY <1>1, Recovered DEF ReturnError, JobLeft
<1>2. CASE UNCHANGED queue
  BY <1>2 DEF ReturnError, JobKept, queue, TypeOK, States
<1> QED BY <1>1, <1>2 DEF ReturnError

LEMMA FaultTyped == ASSUME TypeOK, Fault
  PROVE  /\ faults' \in 0..MaxFaults /\ faults' > faults /\ faults' # 0
         /\ UNCHANGED <<losses, cancels, lost>>
BY DEF TypeOK, Fault

LEMMA MarkDeployingKeeps ==
  ASSUME AppDeployInv, NEW d \in Deps, NEW n \in Tries, MarkDeploying(d, n) PROVE AppDeployInv'
<1>1. /\ handler[d][n] = "begin" /\ Alive(d, n) /\ TypeOK
      /\ UNCHANGED <<released, is_current, live, request, hung, verdict>>
  BY DEF MarkDeploying, Alive, AppDeployInv
<1>2. CASE Goto(d, n, "prepare") /\ UNCHANGED queue
  <2>1. dep' \in [Deps -> DepStates] /\ (\A e \in Deps : e # d => dep'[e] = dep[e])
        /\ dep'[d] \in {dep[d], "running"}
    BY <1>1, DeploymentUpdated DEF MarkDeploying, DepStates, TypeOK
  <2>2. /\ faults' \in 0..MaxFaults /\ faults' >= faults
        /\ UNCHANGED <<losses, cancels, lost>>
    BY <1>1, FaultTyped DEF MarkDeploying, budget, TypeOK
  <2>3. TypeOK'
    BY <1>1, <1>2, <2>1, <2>2, HandlerGoes DEF TypeOK, queue, Stages
  <2>8. Writes(d, n, "prepare") /\ Mirrors(d, n, "prepare")
    BY <1>1, <1>2, <2>1, <2>2, <2>3 DEF JobKept, Mirrors, Recording, TypeOK, Writes, queue
  <2> QED BY <1>1, <2>3, <2>8, StepKeeps DEF Stages
<1>3. CASE ReturnError(d, n) /\ Fault /\ UNCHANGED dep
  <2>1. TypeOK'
    BY <1>1, <1>3, ErrorReturned, FaultTyped, HandlerGoes DEF TypeOK, Stages, States
  <2>8. Writes(d, n, "over") /\ Mirrors(d, n, "over")
    BY <1>1, <1>3, <2>1, ErrorReturned, FaultTyped DEF JobKept, Mirrors, Recording, TypeOK, Writes
  <2> QED BY <1>1, <2>1, <2>8, StepKeeps DEF Stages
<1> QED BY <1>2, <1>3 DEF MarkDeploying

LEMMA PrepareKeeps ==
  ASSUME AppDeployInv, NEW d \in Deps, NEW n \in Tries, Prepare(d, n) PROVE AppDeployInv'
<1>1. /\ handler[d][n] = "prepare" /\ Alive(d, n) /\ TypeOK
      /\ UNCHANGED <<dep, released, is_current, live, request, hung, verdict>>
  BY DEF Prepare, Alive, AppDeployInv, store
<1>2. /\ faults' \in 0..MaxFaults /\ faults' >= faults
      /\ UNCHANGED <<losses, cancels, lost>>
  BY <1>1, FaultTyped DEF Prepare, budget, TypeOK
<1>3. ASSUME NEW s \in {"dispatch", "failing", "fail_job"}, Goto(d, n, s), UNCHANGED queue
      PROVE  AppDeployInv'
  <2>1. TypeOK'
    BY <1>1, <1>2, <1>3, HandlerGoes DEF TypeOK, queue, Stages
  <2>8. Writes(d, n, s) /\ Mirrors(d, n, s)
    BY <1>1, <1>2, <1>3, <2>1 DEF JobKept, Mirrors, Recording, TypeOK, Writes, queue
  <2> QED BY <1>1, <2>1, <2>8, StepKeeps DEF Stages
<1>4. CASE ReturnError(d, n)
  <2>1. TypeOK'
    BY <1>1, <1>2, <1>4, ErrorReturned, HandlerGoes DEF TypeOK, Stages, States
  <2>8. Writes(d, n, "over") /\ Mirrors(d, n, "over")
    BY <1>1, <1>2, <1>4, <2>1, ErrorReturned DEF JobKept, Mirrors, Recording, TypeOK, Writes
  <2> QED BY <1>1, <2>1, <2>8, StepKeeps DEF Stages
<1> QED BY <1>3, <1>4 DEF Prepare

LEMMA DispatchKeeps ==
  ASSUME AppDeployInv, NEW d \in Deps, NEW n \in Tries, Dispatch(d, n) PROVE AppDeployInv'
<1>1. /\ handler[d][n] = "dispatch" /\ Alive(d, n) /\ TypeOK
      /\ UNCHANGED <<dep, released, is_current, request, hung>> /\ JobKept
  BY DEF Dispatch, Alive, AppDeployInv, store, queue, JobKept
<1>2. PICK s \in {"record", "failing"} :
        /\ Goto(d, n, s)
        /\ s = "record" => live' = d
        /\ s = "failing" => live' = live \/ (live' = d /\ lost' # 0)
        /\ lost' \in 0..MaxLost /\ lost' >= lost /\ UNCHANGED <<faults, losses, cancels>>
  BY <1>1 DEF Dispatch, budget, TypeOK
<1>3. verdict' \in [Deps -> [Tries -> {"failed", "rolled_back"}]]
  <2>1. verdict \in [Deps -> [Tries -> {"failed", "rolled_back"}]]
    BY <1>1 DEF TypeOK
  <2>2. verdict' = verdict \/ \E v \in {"failed", "rolled_back"} : verdict' = [verdict EXCEPT ![d][n] = v]
    BY DEF Dispatch
  <2> QED BY <2>1, <2>2
<1>4. TypeOK'
  BY <1>1, <1>2, <1>3, HandlerGoes DEF TypeOK, JobKept, Stages
<1>8. Writes(d, n, s) /\ Mirrors(d, n, s)
  BY <1>1, <1>2, <1>4 DEF JobKept, Mirrors, Recording, TypeOK, Writes
<1> QED BY <1>1, <1>4, <1>8, StepKeeps DEF Stages

LEMMA FailDeploymentKeeps ==
  ASSUME AppDeployInv, NEW d \in Deps, NEW n \in Tries, FailDeployment(d, n) PROVE AppDeployInv'
<1>1. /\ handler[d][n] = "failing" /\ Alive(d, n) /\ TypeOK /\ Goto(d, n, "fail_job")
      /\ UNCHANGED <<released, is_current, live, request, hung, verdict>> /\ JobKept
  BY DEF FailDeployment, Alive, AppDeployInv, queue, JobKept
<1>2. verdict[d][n] \in {"failed", "rolled_back"}
  BY <1>1 DEF TypeOK
<1>3. dep' \in [Deps -> DepStates] /\ (\A e \in Deps : e # d => dep'[e] = dep[e])
      /\ dep'[d] \in {dep[d], verdict[d][n]}
  BY <1>1, <1>2, DeploymentUpdated DEF FailDeployment, DepStates, TypeOK
<1>4. /\ faults' \in 0..MaxFaults /\ faults' >= faults
      /\ UNCHANGED <<losses, cancels, lost>>
  BY <1>1, FaultTyped DEF FailDeployment, budget, TypeOK
<1>5. TypeOK'
  BY <1>1, <1>3, <1>4, HandlerGoes DEF TypeOK, JobKept, Stages
<1>8. Writes(d, n, "fail_job") /\ Mirrors(d, n, "fail_job")
  BY <1>1, <1>2, <1>3, <1>4, <1>5 DEF JobKept, Mirrors, Recording, TypeOK, Writes
<1> QED BY <1>1, <1>5, <1>8, StepKeeps DEF Stages

LEMMA FailJobKeeps ==
  ASSUME AppDeployInv, NEW d \in Deps, NEW n \in Tries, FailJob(d, n) PROVE AppDeployInv'
<1>1. /\ handler[d][n] = "fail_job" /\ Alive(d, n) /\ TypeOK /\ Goto(d, n, "over")
      /\ UNCHANGED <<dep, released, is_current, live, request, hung, verdict>>
  BY DEF FailJob, Alive, AppDeployInv, store
<1>2. /\ faults' \in 0..MaxFaults /\ faults' >= faults
      /\ UNCHANGED <<losses, cancels, lost>>
  BY <1>1, FaultTyped DEF FailJob, budget, TypeOK
<1>3. /\ JobKept \/ JobLeft(d, n)
      /\ status'[d] = "succeeded" /\ status[d] # "succeeded" => faults' # 0
  <2>1. CASE Owned(d, n) /\ Queue!Recover({d})
    BY <1>1, <2>1, Recovered DEF JobLeft
  <2>2. CASE Owned(d, n) /\ Fault /\ Queue!End(d, "succeeded")
    BY <1>1, <2>2, EndedWell, FaultTyped DEF JobLeft
  <2>3. CASE UNCHANGED queue
    BY <2>3 DEF JobKept, queue
  <2> QED BY <2>1, <2>2, <2>3 DEF FailJob
<1>4. TypeOK'
  BY <1>1, <1>2, <1>3, HandlerGoes DEF TypeOK, JobKept, JobLeft, States, Stages
<1>8. Writes(d, n, "over") /\ Mirrors(d, n, "over")
  BY <1>1, <1>2, <1>3, <1>4 DEF JobKept, Mirrors, Recording, TypeOK, Writes
<1> QED BY <1>1, <1>4, <1>8, StepKeeps DEF Stages

LEMMA CreateReleaseKeeps ==
  ASSUME AppDeployInv, NEW d \in Deps, NEW n \in Tries, CreateRelease(d, n) PROVE AppDeployInv'
<1>1. /\ handler[d][n] = "record" /\ Alive(d, n) /\ TypeOK
      /\ UNCHANGED <<dep, is_current, live, request, hung, verdict>>
  BY DEF CreateRelease, Alive, AppDeployInv
<1>2. losses = 0 => Owned(d, n)
  BY <1>1 DEF AppDeployInv, Fenced
<1>3. CASE /\ Goto(d, n, "mark") /\ released' = released \cup {d} /\ UNCHANGED queue /\ UNCHANGED budget
  <2>1. TypeOK'
    BY <1>1, <1>3, HandlerGoes DEF TypeOK, queue, budget, Stages
  <2>8. Writes(d, n, "mark") /\ Mirrors(d, n, "mark")
    <3>1. lost = 0 /\ losses = 0 /\ faults = 0 => live = d
      BY <1>1 DEF AppDeployInv, Mirrored, Recording
    <3> QED BY <1>1, <1>3, <2>1, <3>1 DEF JobKept, Mirrors, Recording, TypeOK, Writes, budget, queue
  <2> QED BY <1>1, <2>1, <2>8, StepKeeps DEF Stages
<1>4. CASE /\ Fault /\ Goto(d, n, "failing") /\ UNCHANGED released /\ UNCHANGED queue
  <2>1. TypeOK'
    BY <1>1, <1>4, FaultTyped, HandlerGoes DEF TypeOK, queue, Stages
  <2>8. Writes(d, n, "failing") /\ Mirrors(d, n, "failing")
    BY <1>1, <1>4, <2>1, FaultTyped DEF JobKept, Mirrors, Recording, TypeOK, Writes, queue
  <2> QED BY <1>1, <2>1, <2>8, StepKeeps DEF Stages
<1>5. CASE ~Owned(d, n) /\ ReturnError(d, n) /\ UNCHANGED released /\ UNCHANGED budget
  <2>1. TypeOK'
    BY <1>1, <1>5, ErrorReturned, HandlerGoes DEF TypeOK, budget, Stages, States
  <2>8. Writes(d, n, "over") /\ Mirrors(d, n, "over")
    BY <1>1, <1>2, <1>5, <2>1, ErrorReturned DEF Mirrors, Recording, TypeOK, Writes, budget
  <2> QED BY <1>1, <2>1, <2>8, StepKeeps DEF Stages
<1> QED BY <1>3, <1>4, <1>5 DEF CreateRelease

LEMMA MarkCurrentReleaseKeeps ==
  ASSUME AppDeployInv, NEW d \in Deps, NEW n \in Tries, MarkCurrentRelease(d, n) PROVE AppDeployInv'
<1>1. /\ handler[d][n] = "mark" /\ Alive(d, n) /\ TypeOK /\ Goto(d, n, "succeed") /\ d \in released
      /\ UNCHANGED <<dep, released, live, request, hung, verdict>> /\ JobKept
  BY DEF MarkCurrentRelease, Alive, AppDeployInv, Recorded, queue, JobKept
<1>2. /\ faults' \in 0..MaxFaults /\ faults' >= faults
      /\ UNCHANGED <<losses, cancels, lost>>
      /\ is_current' \in {is_current, d} /\ (faults' = 0 => is_current' = d /\ faults = 0)
  BY <1>1, FaultTyped DEF MarkCurrentRelease, budget, TypeOK
<1>3. lost = 0 /\ losses = 0 /\ faults = 0 => live = d
  BY <1>1 DEF AppDeployInv, Mirrored, Recording
<1>4. TypeOK'
  BY <1>1, <1>2, HandlerGoes DEF TypeOK, JobKept, Stages
<1>8. Writes(d, n, "succeed") /\ Mirrors(d, n, "succeed")
  BY <1>1, <1>2, <1>3, <1>4 DEF JobKept, Mirrors, Recording, TypeOK, Writes
<1> QED BY <1>1, <1>4, <1>8, StepKeeps DEF Stages

LEMMA SucceedKeeps ==
  ASSUME AppDeployInv, NEW d \in Deps, NEW n \in Tries, Succeed(d, n) PROVE AppDeployInv'
<1>1. /\ handler[d][n] = "succeed" /\ Alive(d, n) /\ TypeOK /\ Goto(d, n, "complete") /\ d \in released
      /\ UNCHANGED <<released, is_current, live, request, hung, verdict>> /\ JobKept
  BY DEF Succeed, Alive, AppDeployInv, Recorded, queue, JobKept
<1>2. dep' \in [Deps -> DepStates] /\ (\A e \in Deps : e # d => dep'[e] = dep[e])
  BY <1>1, DeploymentUpdated DEF Succeed, DepStates, TypeOK
<1>3. /\ faults' \in 0..MaxFaults /\ faults' >= faults
      /\ UNCHANGED <<losses, cancels, lost>>
  BY <1>1, FaultTyped DEF Succeed, budget, TypeOK
<1>4. TypeOK'
  BY <1>1, <1>2, <1>3, HandlerGoes DEF TypeOK, JobKept, Stages
<1>8. Writes(d, n, "complete") /\ Mirrors(d, n, "complete")
  BY <1>1, <1>2, <1>3, <1>4 DEF JobKept, Mirrors, Recording, TypeOK, Writes
<1> QED BY <1>1, <1>4, <1>8, StepKeeps DEF Stages

LEMMA CompleteJobKeeps ==
  ASSUME AppDeployInv, NEW d \in Deps, NEW n \in Tries, CompleteJob(d, n) PROVE AppDeployInv'
<1>1. /\ handler[d][n] = "complete" /\ Alive(d, n) /\ TypeOK
      /\ UNCHANGED <<dep, released, is_current, live, request, hung, verdict>>
  BY DEF CompleteJob, Alive, AppDeployInv, store
<1>2. /\ faults' \in 0..MaxFaults /\ faults' >= faults
      /\ UNCHANGED <<losses, cancels, lost>>
  BY <1>1, FaultTyped DEF CompleteJob, budget, TypeOK
<1>3. Goto(d, n, "over") /\ (JobKept \/ JobLeft(d, n))
  <2>1. CASE Owned(d, n) /\ Queue!End(d, "succeeded") /\ Goto(d, n, "over")
    BY <1>1, <2>1, EndedWell DEF JobLeft
  <2>2. CASE ReturnError(d, n)
    BY <1>1, <2>2, ErrorReturned
  <2>3. CASE Goto(d, n, "over") /\ UNCHANGED queue
    BY <2>3 DEF JobKept, queue
  <2> QED BY <2>1, <2>2, <2>3 DEF CompleteJob
<1>4. TypeOK'
  BY <1>1, <1>2, <1>3, HandlerGoes DEF TypeOK, JobKept, JobLeft, States, Stages
<1>8. Writes(d, n, "over") /\ Mirrors(d, n, "over")
  BY <1>1, <1>2, <1>3, <1>4 DEF JobKept, Mirrors, Recording, TypeOK, Writes
<1> QED BY <1>1, <1>4, <1>8, StepKeeps DEF Stages
-----------------------------------------------------------------------------
\* The requests, the claim, a lost lease and a canceled job.

\* Steps that leave the handlers where they are.
LEMMA RequestKeeps ==
  ASSUME AppDeployInv, TypeOK', UNCHANGED <<released, is_current, live, handler>>,
         \A d \in Deps : dep'[d] = "succeeded" => dep[d] = "succeeded",
         \A d \in Deps : status'[d] = "active" <=> status[d] = "active",
         \A d \in Deps : status'[d] = "succeeded" => status[d] = "succeeded",
         UNCHANGED <<tries, losses, lost>>, faults' >= faults
  PROVE  AppDeployInv'
<1> USE DEF AppDeployInv
<1>1. Exclusive' /\ Recorded' /\ ReleasesAreReal'
  BY DEF Exclusive, Recorded, ReleasesAreReal
<1>2. faults' = 0 => faults = 0
  BY DEF TypeOK
<1>3. SuccessIsReal'
  BY <1>2 DEF SuccessIsReal
<1>4. Fenced'
  BY DEF Fenced, Alive, Owned
<1>5. Mirrored'
  BY <1>2 DEF Mirrored, Recording
<1> QED BY <1>1, <1>3, <1>4, <1>5

LEMMA CreateDeploymentKeeps ==
  ASSUME AppDeployInv, NEW d \in Deps, CreateDeployment(d) PROVE AppDeployInv'
<1>1. TypeOK /\ TypeOK'
  BY DEF CreateDeployment, AppDeployInv, TypeOK, DepStates, queue, budget
<1>2. \A e \in Deps : dep'[e] = "succeeded" => dep[e] = "succeeded"
  BY <1>1 DEF CreateDeployment, TypeOK
<1> QED BY <1>1, <1>2, RequestKeeps DEF CreateDeployment, queue, budget, TypeOK

LEMMA ClientHangsUpKeeps ==
  ASSUME AppDeployInv, NEW d \in Deps, ClientHangsUp(d) PROVE AppDeployInv'
<1>1. TypeOK /\ TypeOK'
  BY DEF ClientHangsUp, AppDeployInv, TypeOK, queue, budget, store
<1> QED BY <1>1, RequestKeeps DEF ClientHangsUp, queue, budget, store, TypeOK

LEMMA EnqueueJobKeeps ==
  ASSUME AppDeployInv, NEW d \in Deps, EnqueueJob(d) PROVE AppDeployInv'
<1>1. TypeOK /\ UNCHANGED <<released, is_current, live, hung, handler, verdict>>
  BY DEF EnqueueJob, AppDeployInv
<1>2. request' \in [Deps -> {"none", "created", "enqueued", "done"}]
  BY <1>1 DEF EnqueueJob, TypeOK
<1>3. /\ dep' \in [Deps -> DepStates]
      /\ \A e \in Deps : dep'[e] = "succeeded" => dep[e] = "succeeded"
  BY <1>1, DeploymentUpdated DEF EnqueueJob, DepStates, TypeOK
<1>4. /\ status' \in [Deps -> States] /\ tries' = tries
      /\ \A e \in Deps : status'[e] = "active" <=> status[e] = "active"
      /\ \A e \in Deps : status'[e] = "succeeded" => status[e] = "succeeded"
  BY <1>1 DEF EnqueueJob, Queue!Submit, States, TypeOK, queue
<1>5. /\ faults' \in 0..MaxFaults /\ faults' >= faults
      /\ UNCHANGED <<losses, cancels, lost>>
  BY <1>1, FaultTyped DEF EnqueueJob, budget, TypeOK
<1>6. TypeOK'
  BY <1>1, <1>2, <1>3, <1>4, <1>5 DEF TypeOK, States
<1> QED BY <1>1, <1>3, <1>4, <1>5, <1>6, RequestKeeps

LEMMA AttachJobKeeps ==
  ASSUME AppDeployInv, NEW d \in Deps, AttachJob(d) PROVE AppDeployInv'
<1>1. TypeOK /\ UNCHANGED <<released, is_current, live, hung, handler, verdict, status, tries,
                            faults, losses, cancels, lost>>
  BY DEF AttachJob, AppDeployInv, queue, budget
<1>2. /\ dep' \in [Deps -> DepStates]
      /\ \A e \in Deps : dep'[e] = "succeeded" => dep[e] = "succeeded"
  BY <1>1, DeploymentUpdated DEF AttachJob, DepStates, TypeOK
<1>3. TypeOK'
  BY <1>1, <1>2 DEF AttachJob, TypeOK
<1> QED BY <1>1, <1>2, <1>3, RequestKeeps DEF TypeOK

LEMMA CancelJobKeeps ==
  ASSUME AppDeployInv, NEW d \in Deps, CancelJob(d) PROVE AppDeployInv'
<1>1. TypeOK /\ UNCHANGED <<dep, released, is_current, live, request, hung, handler, verdict, tries,
                            faults, losses, lost>>
  BY DEF CancelJob, AppDeployInv, store, Queue!CancelWaiting
<1>2. /\ status' \in [Deps -> States]
      /\ \A e \in Deps : status'[e] = "active" <=> status[e] = "active"
      /\ \A e \in Deps : status'[e] = "succeeded" => status[e] = "succeeded"
  BY <1>1 DEF CancelJob, Queue!CancelWaiting, States, TypeOK
<1>3. TypeOK'
  BY <1>1, <1>2 DEF CancelJob, TypeOK, States
<1> QED BY <1>1, <1>2, <1>3, RequestKeeps DEF TypeOK

\* The lock on the application excludes every other attempt.
LEMMA ClaimKeeps ==
  ASSUME AppDeployInv, NEW d \in Deps, Claim(d) PROVE AppDeployInv'
<1> USE DEF AppDeployInv
<1>1. /\ UNCHANGED <<dep, released, is_current, live, request, hung, verdict, faults, losses, cancels, lost>>
      /\ status[d] = "waiting" /\ tries[d] < Attempts
      /\ \A i \in Deps : status[i] # "active"
      /\ status' = [status EXCEPT ![d] = "active"] /\ tries' = [tries EXCEPT ![d] = @ + 1]
  BY DEF Claim, Queue!Begin, store, budget
<1> DEFINE n == tries[d] + 1
<1>2. n \in Tries /\ Goto(d, n, "begin")
  BY <1>1 DEF Claim, Tries, TypeOK
<1> HIDE DEF n
<1>3. /\ handler' \in [Deps -> [Tries -> Stages]] /\ handler'[d][n] = "begin"
      /\ \A e \in Deps, m \in Tries : e # d \/ m # n => handler'[e][m] = handler[e][m]
  BY <1>2, HandlerGoes DEF Stages
<1>4. /\ status' \in [Deps -> States] /\ status'[d] = "active"
      /\ \A e \in Deps : e # d => status'[e] = status[e]
  BY <1>1 DEF TypeOK, States
<1>5. tries' \in [Deps -> 0..Attempts] /\ tries'[d] = n
  <2>1. n \in 0..Attempts
    BY <1>2 DEF Tries
  <2> QED BY <1>1, <2>1 DEF TypeOK, n
<1>6. TypeOK'
  BY <1>1, <1>3, <1>4, <1>5 DEF TypeOK, States
<1>7. Exclusive'
  BY <1>1, <1>4 DEF Exclusive
<1>8. Recorded' /\ ReleasesAreReal'
  BY <1>1, <1>3, <1>6 DEF Recorded, ReleasesAreReal
<1>9. SuccessIsReal'
  BY <1>1, <1>4 DEF SuccessIsReal
<1>10. losses = 0 => \A e \in Deps, m \in Tries : ~Alive(e, m)
  BY <1>1 DEF Fenced, Owned
<1>11. Fenced'
  BY <1>1, <1>3, <1>4, <1>5, <1>10 DEF Fenced, Alive, Owned
<1>12. losses = 0 => \A e \in Deps, m \in Tries : ~Recording(e, m) /\ ~Recording(e, m)'
  BY <1>3, <1>10 DEF Recording, Alive
<1>13. Mirrored'
  BY <1>1, <1>12 DEF Mirrored
<1> QED BY <1>6, <1>7, <1>8, <1>9, <1>11, <1>13

LEMMA LoseLeaseKeeps ==
  ASSUME AppDeployInv, NEW d \in Deps, NEW n \in Tries, LoseLease(d, n) PROVE AppDeployInv'
<1> USE DEF AppDeployInv
<1>1. /\ UNCHANGED <<dep, released, is_current, live, request, hung, verdict, tries, faults, cancels, lost>>
      /\ losses' \in 0..MaxLosses /\ losses' # 0
  BY DEF LoseLease, store, TypeOK, Queue!Recover
<1>2. /\ status' \in [Deps -> States]
      /\ \A e \in Deps : status'[e] \in {"active", "succeeded"} => status'[e] = status[e]
  <2>1. /\ status' \in [Deps -> States] /\ status'[d] \in {"waiting", "dead_letter"}
        /\ \A e \in Deps : e # d => status'[e] = status[e]
    BY Recovered DEF LoseLease
  <2>2. ASSUME NEW e \in Deps, status'[e] \in {"active", "succeeded"} PROVE status'[e] = status[e]
    BY <2>1, <2>2
  <2> QED BY <2>1, <2>2
<1>3. /\ handler' \in [Deps -> [Tries -> Stages]]
      /\ \A e \in Deps, m \in Tries : handler'[e][m] \in {handler[e][m], "over"}
  <2>1. CASE UNCHANGED handler
    BY <2>1 DEF TypeOK
  <2>2. CASE Goto(d, n, "over")
    BY <2>2, HandlerGoes DEF Stages
  <2> QED BY <2>1, <2>2 DEF LoseLease
<1>4. TypeOK'
  BY <1>1, <1>2, <1>3 DEF TypeOK, States
<1>5. Exclusive'
  BY <1>2 DEF Exclusive
<1>6. Recorded' /\ ReleasesAreReal'
  BY <1>1, <1>3, <1>4 DEF Recorded, ReleasesAreReal
<1>7. SuccessIsReal'
  BY <1>1, <1>2 DEF SuccessIsReal
<1>8. Fenced' /\ Mirrored'
  BY <1>1 DEF Fenced, Mirrored
<1> QED BY <1>4, <1>5, <1>6, <1>7, <1>8

LEMMA AppDeployStep == ASSUME AppDeployInv, [Next]_vars PROVE AppDeployInv'
<1>1. CASE UNCHANGED vars
  BY <1>1 DEF vars, AppDeployInv, TypeOK, Exclusive, Recorded, ReleasesAreReal, SuccessIsReal, Fenced, Mirrored,
              Recording, Alive, Owned
<1>2. ASSUME NEW d \in Deps,
             CreateDeployment(d) \/ ClientHangsUp(d) \/ RequestStep(d) \/ Claim(d) \/ CancelJob(d)
      PROVE  AppDeployInv'
  BY <1>2, CreateDeploymentKeeps, ClientHangsUpKeeps, EnqueueJobKeeps, AttachJobKeeps, ClaimKeeps, CancelJobKeeps
     DEF RequestStep
<1>3. ASSUME NEW d \in Deps, NEW n \in Tries, HandlerStep(d, n) \/ LoseLease(d, n)
      PROVE  AppDeployInv'
  BY <1>3, MarkDeployingKeeps, PrepareKeeps, DispatchKeeps, FailDeploymentKeeps, FailJobKeeps, CreateReleaseKeeps,
     MarkCurrentReleaseKeeps, SucceedKeeps, CompleteJobKeeps, LoseLeaseKeeps DEF HandlerStep
<1> QED BY <1>1, <1>2, <1>3 DEF Next

LEMMA AppDeployInvariant == Spec => []AppDeployInv
<1>1. AppDeployInv /\ [Next]_vars => AppDeployInv'
  BY AppDeployStep
<1> QED BY <1>1, AppDeployInit, PTL DEF Spec

\* The controller's record is the truth about the node (apps_worker.go:302-376): for
\* any number of deployments and attempts, through retries, cancels and disconnecting
\* clients, once nothing is going on and as long as no answer, lease or write was
\* lost, the release marked current is the one the node serves.
THEOREM RecordsCorrect == Spec => []RecordsMatchNode
BY InvMatches, AppDeployInvariant, PTL

\* What the records call a success is one (apps_worker.go:302-376): a succeeded
\* deployment and the release marked current have a release row, and so has a
\* succeeded job unless a database call failed.
THEOREM SuccessesCorrect == Spec => []SuccessesAreReal
<1>1. AppDeployInv => SuccessesAreReal
  BY DEF AppDeployInv, SuccessesAreReal
<1> QED BY <1>1, AppDeployInvariant, PTL
-----------------------------------------------------------------------------
(* An ended job leaves no deployment queued or running.  This holds while no *)
(* database call fails, no lease is lost, no job is canceled and workers     *)
(* wait for requests; each of them can leave a row behind (README).          *)

Calm == MaxFaults = 0 /\ MaxLosses = 0 /\ MaxCancels = 0 /\ ~SlowRequest

\* A job exists only once its request has enqueued it, and nothing claims it before
\* the request ends; a handler has closed its row before it gives up its job.
JobsFollowRequests ==
    \A d \in Deps : /\ dep[d] = "absent" => request[d] = "none"
                    /\ request[d] \in {"none", "created"} => status[d] = "absent"
                    /\ request[d] = "enqueued" => status[d] = "waiting"
RowsClosed ==
    /\ \A d \in Deps, n \in Tries : handler[d][n] \in {"fail_job", "complete"} => ~ActiveDep(d)
    /\ \A d \in Deps : status[d] \in {"succeeded", "canceled", "dead_letter"} => ~ActiveDep(d)

CalmInv == AppDeployInv /\ JobsFollowRequests /\ RowsClosed

LEMMA CalmState ==
  ASSUME Calm, CalmInv
  PROVE  /\ faults = 0 /\ losses = 0 /\ cancels = 0 /\ ~Fault
         /\ \A d \in Deps, n \in Tries : Alive(d, n) => Owned(d, n) /\ request[d] = "done"
<1>1. faults = 0 /\ losses = 0 /\ cancels = 0
  BY DEF Calm, CalmInv, AppDeployInv, TypeOK
<1>2. ~Fault
  BY <1>1 DEF Fault, Calm
<1>3. ASSUME NEW d \in Deps, NEW n \in Tries, Alive(d, n) PROVE Owned(d, n) /\ request[d] = "done"
  <2>1. Owned(d, n)
    BY <1>1, <1>3 DEF CalmInv, AppDeployInv, Fenced
  <2> QED BY <2>1 DEF Owned, CalmInv, JobsFollowRequests, AppDeployInv, TypeOK
<1> QED BY <1>1, <1>2, <1>3

LEMMA CalmInit == Init => CalmInv
BY AppDeployInit DEF Init, Queue!Init, CalmInv, JobsFollowRequests, RowsClosed, ActiveDep

\* A handler's step, which only its own deployment and job feel.
Closes(d, n, s) ==
    /\ Goto(d, n, s) /\ UNCHANGED request
    /\ \A e \in Deps : e # d => dep'[e] = dep[e]
    /\ dep'[d] = "absent" => dep[d] = "absent"
    /\ s \in {"fail_job", "complete"} => ~ActiveDep(d)'
    /\ JobKept \/ (JobLeft(d, n) /\ ~ActiveDep(d)')

LEMMA ClosesKeeps ==
  ASSUME Calm, CalmInv, AppDeployInv', NEW d \in Deps, NEW n \in Tries, Alive(d, n),
         NEW s \in Stages, Closes(d, n, s)
  PROVE  CalmInv'
<1>1. /\ handler'[d][n] = s
      /\ \A e \in Deps, m \in Tries : e # d \/ m # n => handler'[e][m] = handler[e][m]
  BY HandlerGoes DEF Closes, CalmInv, AppDeployInv
<1>2. Owned(d, n) /\ request[d] = "done"
  BY CalmState
<1>3. \A e \in Deps : e # d => status'[e] = status[e]
  BY DEF Closes, JobKept, JobLeft
<1>4. JobsFollowRequests'
  BY <1>2, <1>3 DEF JobsFollowRequests, CalmInv, Closes
<1>5. \A m \in Tries : m # n => ~Alive(d, m)
  BY <1>2, CalmState DEF Owned
<1>6. \A m \in Tries : m # n => handler'[d][m] \in {"none", "over"}
  BY <1>1, <1>5 DEF Alive
<1>7. \A m \in Tries : handler'[d][m] \in {"fail_job", "complete"} => ~ActiveDep(d)'
  BY <1>1, <1>6 DEF Closes
<1>8. \A e \in Deps, m \in Tries : e # d /\ handler'[e][m] \in {"fail_job", "complete"} => ~ActiveDep(e)'
  BY <1>1 DEF Closes, CalmInv, RowsClosed, ActiveDep
<1>9. \A e \in Deps : e # d /\ status'[e] \in {"succeeded", "canceled", "dead_letter"} => ~ActiveDep(e)'
  BY <1>3 DEF Closes, CalmInv, RowsClosed, ActiveDep
<1>10. status'[d] \in {"succeeded", "canceled", "dead_letter"} => ~ActiveDep(d)'
  BY <1>2 DEF Closes, JobKept, Owned
<1>11. RowsClosed'
  BY <1>7, <1>8, <1>9, <1>10 DEF RowsClosed
<1> QED BY <1>4, <1>11 DEF CalmInv

LEMMA CalmHandler ==
  ASSUME Calm, CalmInv, AppDeployInv', NEW d \in Deps, NEW n \in Tries, HandlerStep(d, n)
  PROVE  CalmInv'
<1>1. /\ TypeOK /\ ~Fault /\ Alive(d, n) /\ Owned(d, n)
  <2>1. Alive(d, n)
    BY DEF Alive, HandlerStep, MarkDeploying, Prepare, Dispatch, FailDeployment, FailJob, CreateRelease,
           MarkCurrentRelease, Succeed, CompleteJob
  <2> QED BY <2>1, CalmState DEF CalmInv, AppDeployInv
<1>2. CASE MarkDeploying(d, n)
  <2>1. /\ Goto(d, n, "prepare") /\ UNCHANGED <<status, tries, request>>
        /\ \A e \in Deps : e # d => dep'[e] = dep[e]
        /\ dep'[d] \in {dep[d], "running"}
    BY <1>1, <1>2, DeploymentUpdated DEF MarkDeploying, DepStates, queue, TypeOK
  <2>2. Closes(d, n, "prepare")
    BY <2>1 DEF Closes, JobKept
  <2> QED BY <1>1, <2>2, ClosesKeeps DEF Stages
<1>3. CASE Prepare(d, n)
  <2>1. PICK s \in {"dispatch", "failing"} : Goto(d, n, s) /\ UNCHANGED <<status, tries, request, dep>>
    BY <1>1, <1>3 DEF Prepare, queue, store
  <2>2. Closes(d, n, s)
    BY <2>1 DEF Closes, JobKept
  <2> QED BY <1>1, <2>2, ClosesKeeps DEF Stages
<1>4. CASE Dispatch(d, n)
  <2>1. PICK s \in {"record", "failing"} : Goto(d, n, s) /\ UNCHANGED <<status, tries, request, dep>>
    BY <1>1, <1>4 DEF Dispatch, queue, store
  <2>2. Closes(d, n, s)
    BY <2>1 DEF Closes, JobKept
  <2> QED BY <1>1, <2>2, ClosesKeeps DEF Stages
<1>5. CASE FailDeployment(d, n)
  <2>1. verdict[d][n] \in {"failed", "rolled_back"}
    BY <1>1 DEF TypeOK
  <2>2. /\ Goto(d, n, "fail_job") /\ UNCHANGED <<status, tries, request>>
        /\ \A e \in Deps : e # d => dep'[e] = dep[e]
        /\ dep'[d] = verdict[d][n]
    BY <1>1, <1>5, <2>1, DeploymentUpdated DEF FailDeployment, DepStates, queue
  <2>3. Closes(d, n, "fail_job")
    BY <2>1, <2>2 DEF Closes, JobKept, ActiveDep
  <2> QED BY <1>1, <2>3, ClosesKeeps DEF Stages
<1>6. CASE FailJob(d, n)
  <2>1. /\ handler[d][n] = "fail_job" /\ Goto(d, n, "over") /\ UNCHANGED <<request, dep>>
        /\ Queue!Recover({d})
    BY <1>1, <1>6 DEF FailJob, store
  <2>2. ~ActiveDep(d)'
    BY <2>1 DEF CalmInv, RowsClosed, ActiveDep
  <2>3. JobLeft(d, n)
    BY <1>1, <2>1, Recovered DEF JobLeft
  <2>4. Closes(d, n, "over")
    BY <2>1, <2>2, <2>3 DEF Closes
  <2> QED BY <1>1, <2>4, ClosesKeeps DEF Stages
<1>7. CASE CreateRelease(d, n)
  <2>1. Goto(d, n, "mark") /\ UNCHANGED <<status, tries, request, dep>>
    BY <1>1, <1>7 DEF CreateRelease, queue
  <2>2. Closes(d, n, "mark")
    BY <2>1 DEF Closes, JobKept
  <2> QED BY <1>1, <2>2, ClosesKeeps DEF Stages
<1>8. CASE MarkCurrentRelease(d, n)
  <2>1. Goto(d, n, "succeed") /\ UNCHANGED <<status, tries, request, dep>>
    BY <1>1, <1>8 DEF MarkCurrentRelease, queue
  <2>2. Closes(d, n, "succeed")
    BY <2>1 DEF Closes, JobKept
  <2> QED BY <1>1, <2>2, ClosesKeeps DEF Stages
<1>9. CASE Succeed(d, n)
  <2>1. /\ Goto(d, n, "complete") /\ UNCHANGED <<status, tries, request>>
        /\ \A e \in Deps : e # d => dep'[e] = dep[e]
        /\ dep'[d] = "succeeded"
    BY <1>1, <1>9, DeploymentUpdated DEF Succeed, DepStates, queue
  <2>2. Closes(d, n, "complete")
    BY <2>1 DEF Closes, JobKept, ActiveDep
  <2> QED BY <1>1, <2>2, ClosesKeeps DEF Stages
<1>10. CASE CompleteJob(d, n)
  <2>1. /\ handler[d][n] = "complete" /\ Goto(d, n, "over") /\ UNCHANGED <<request, dep>>
        /\ Queue!End(d, "succeeded")
    BY <1>1, <1>10 DEF CompleteJob, store
  <2>2. ~ActiveDep(d)'
    BY <2>1 DEF CalmInv, RowsClosed, ActiveDep
  <2>3. JobLeft(d, n)
    BY <1>1, <2>1, EndedWell DEF JobLeft
  <2>4. Closes(d, n, "over")
    BY <2>1, <2>2, <2>3 DEF Closes
  <2> QED BY <1>1, <2>4, ClosesKeeps DEF Stages
<1> QED BY <1>2, <1>3, <1>4, <1>5, <1>6, <1>7, <1>8, <1>9, <1>10 DEF HandlerStep

LEMMA CalmRequest ==
  ASSUME Calm, CalmInv, AppDeployInv', NEW d \in Deps,
         CreateDeployment(d) \/ ClientHangsUp(d) \/ RequestStep(d) \/ Claim(d)
  PROVE  CalmInv'
<1>1. TypeOK /\ ~Fault /\ \A n \in Tries : Alive(d, n) => status[d] = "active" /\ request[d] = "done"
  BY CalmState DEF CalmInv, AppDeployInv, Owned
<1>2. \A n \in Tries : status[d] # "active" => handler[d][n] \notin {"fail_job", "complete"}
  BY <1>1 DEF Alive
<1>3. CASE CreateDeployment(d)
  <2>1. /\ dep[d] = "absent" /\ request[d] = "none" /\ status[d] = "absent"
        /\ dep' = [dep EXCEPT ![d] = "queued"] /\ request' = [request EXCEPT ![d] = "created"]
        /\ UNCHANGED <<status, handler>>
    BY <1>3 DEF CreateDeployment, CalmInv, JobsFollowRequests, queue
  <2>2. JobsFollowRequests'
    BY <1>1, <2>1 DEF CalmInv, JobsFollowRequests, TypeOK
  <2>3. RowsClosed'
    BY <1>1, <1>2, <2>1 DEF CalmInv, RowsClosed, ActiveDep, TypeOK
  <2> QED BY <2>2, <2>3 DEF CalmInv
<1>4. CASE ClientHangsUp(d)
  BY <1>4 DEF ClientHangsUp, CalmInv, JobsFollowRequests, RowsClosed, ActiveDep, store, queue
<1>5. CASE EnqueueJob(d)
  <2>1. /\ request[d] = "created" /\ status[d] = "absent" /\ UNCHANGED <<dep, handler>>
        /\ \/ status' = [status EXCEPT ![d] = "waiting"] /\ request' = [request EXCEPT ![d] = "enqueued"]
           \/ status' = status /\ request' = [request EXCEPT ![d] = "done"]
    BY <1>1, <1>5 DEF EnqueueJob, Queue!Submit, CalmInv, JobsFollowRequests, queue
  <2>2. JobsFollowRequests'
    BY <1>1, <2>1 DEF CalmInv, JobsFollowRequests, TypeOK
  <2>3. RowsClosed'
    BY <1>1, <2>1 DEF CalmInv, RowsClosed, ActiveDep, TypeOK
  <2> QED BY <2>2, <2>3 DEF CalmInv
<1>6. CASE AttachJob(d)
  <2>1. /\ request[d] = "enqueued" /\ status[d] = "waiting" /\ UNCHANGED <<status, handler>>
        /\ request' = [request EXCEPT ![d] = "done"]
    BY <1>6 DEF AttachJob, CalmInv, JobsFollowRequests, queue
  <2>2. /\ \A e \in Deps : e # d => dep'[e] = dep[e]
        /\ dep'[d] \in {dep[d], "queued"}
    BY <1>1, <1>6, DeploymentUpdated DEF AttachJob, DepStates, TypeOK
  <2>3. JobsFollowRequests'
    BY <1>1, <2>1, <2>2 DEF CalmInv, JobsFollowRequests, TypeOK
  <2>4. RowsClosed'
    BY <1>1, <1>2, <2>1, <2>2 DEF CalmInv, RowsClosed, ActiveDep, TypeOK
  <2> QED BY <2>3, <2>4 DEF CalmInv
<1>7. CASE Claim(d)
  <2>1. /\ request[d] = "done" /\ status[d] = "waiting" /\ UNCHANGED <<dep, request>>
        /\ status' = [status EXCEPT ![d] = "active"] /\ Goto(d, tries[d] + 1, "begin")
        /\ tries[d] + 1 \in Tries
    BY <1>1, <1>7 DEF Claim, Queue!Begin, Calm, store, TypeOK, Tries
  <2>2. JobsFollowRequests'
    BY <1>1, <2>1 DEF CalmInv, JobsFollowRequests, TypeOK
  <2>3. \A e \in Deps, m \in Tries : handler'[e][m] \in {handler[e][m], "begin"}
    BY <1>1, <2>1, HandlerGoes DEF Stages
  <2>4. RowsClosed'
    BY <1>1, <2>1, <2>3 DEF CalmInv, RowsClosed, ActiveDep, TypeOK
  <2> QED BY <2>2, <2>4 DEF CalmInv
<1> QED BY <1>3, <1>4, <1>5, <1>6, <1>7 DEF RequestStep

\* An application can be deployed again after its last job has ended
\* (apps_worker.go:347-376): every end of the handler closes the deployment's row
\* before it gives up the job. Calm is needed: a failing write, a lost lease, a
\* canceled job or a worker that is faster than the request leaves a row behind.
THEOREM EndedJobFrees == ASSUME Calm PROVE Spec => []EndedJobUnblocks
<1>1. CalmInv /\ [Next]_vars => CalmInv'
  <2> SUFFICES ASSUME CalmInv, [Next]_vars PROVE CalmInv'
    OBVIOUS
  <2>1. AppDeployInv'
    BY AppDeployStep DEF CalmInv
  <2>2. CASE UNCHANGED vars
    BY <2>1, <2>2 DEF vars, CalmInv, JobsFollowRequests, RowsClosed, ActiveDep
  <2>3. ASSUME NEW d \in Deps, CancelJob(d) PROVE FALSE
    BY <2>3, CalmState DEF CancelJob, Calm
  <2>4. ASSUME NEW d \in Deps, NEW n \in Tries, LoseLease(d, n) PROVE FALSE
    BY <2>4, CalmState DEF LoseLease, Calm
  <2> QED BY <2>1, <2>2, <2>3, <2>4, CalmHandler, CalmRequest DEF Next
<1>2. CalmInv => EndedJobUnblocks
  BY DEF CalmInv, RowsClosed, EndedJobUnblocks
<1> QED BY <1>1, <1>2, CalmInit, PTL DEF Spec
=============================================================================
