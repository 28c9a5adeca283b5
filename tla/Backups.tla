------------------------------ MODULE Backups ------------------------------
(***************************************************************************)
(* One backup plan and its runs: the handlers of controller/backups.go,    *)
(* the loop of backups_scheduler.go in two controllers, the job handlers   *)
(* of backups_worker.go, the store backups/backups.go and the node         *)
(* executor nodeagent/backup.go.  Run r is the r-th row; a minute is the   *)
(* unit of time and the plan's cron expression matches every minute.  The  *)
(* plan is enabled and not suspended.  One worker runs the jobs.           *)
(***************************************************************************)
EXTENDS Naturals, FiniteSets

CONSTANTS
    BkSize,        \* bound: controllers and rows together
    MaxBkMinute,   \* bound: the clock
    BkKeep,        \* retention_count; every run is older than retention_days
    MaxBkAttempts, \* max_attempts of a job
    MaxBkRequests, \* bound: verify, restore and delete requests
    MaxBkFaults,   \* bound: failed calls, crashes, stale writes
    NextRunCases   \* whether the plan has a next_run_at to begin with

\* The bounds count, and a job is tried at least once.
ASSUME BackupAssumption ==
    /\ BkSize \in Nat /\ MaxBkMinute \in Nat /\ BkKeep \in Nat /\ MaxBkAttempts \in Nat \ {0}
    /\ MaxBkRequests \in Nat /\ MaxBkFaults \in Nat

Schedulers == 1..BkSize - 1
BkRuns == 1..BkSize - 1
BkKinds == {"run", "verify", "restore", "delete"}

VARIABLES
    bkPlan,    \* state and next_run_at (NoTime: NULL)
    bkRun,     \* bkRun[r]: state, verification_state, checksum, minute of the key
    bkJob,     \* bkJob[<<kind, r>>]: state, attempts, step
    bkArchive, \* bkArchive[r]: content of the archive file on the node (0: none)
    bkTarget,  \* bkTarget[r]: content of the object in the backup target
    bkSched,   \* bkSched[s]: step, minute and run of a scheduler's tick
    bkMinute, bkHarm, bkFaults,
    bkSize     \* how many controllers and rows there are

bkVars == <<bkPlan, bkRun, bkJob, bkArchive, bkTarget, bkSched,
            bkMinute, bkHarm, bkFaults, bkSize>>

NoTime == MaxBkMinute + 9

BkInit ==
    /\ \E n \in NextRunCases :
         bkPlan = [state |-> "active", next |-> IF n THEN 0 ELSE NoTime]
    /\ bkRun = [r \in BkRuns |-> [state |-> "absent", verif |-> "unverified", sum |-> 0, key |-> NoTime]]
    /\ bkJob = [j \in BkKinds \X BkRuns |-> [state |-> "none", tries |-> 0, at |-> "idle"]]
    /\ bkArchive = [r \in BkRuns |-> 0] /\ bkTarget = [r \in BkRuns |-> 0]
    /\ bkSched = [s \in Schedulers |-> [at |-> "idle", now |-> 0, run |-> 0]]
    /\ bkMinute = 0 /\ bkHarm = {} /\ bkFaults = 0
    /\ bkSize \in {z \in Schedulers \X BkRuns : z[1] + z[2] = BkSize}

bkFlt == <<bkHarm, bkFaults, bkSize>>
BkFault(h) == bkFaults < MaxBkFaults /\ bkFaults' = bkFaults + 1 /\ bkHarm' = bkHarm \cup {h}
              /\ UNCHANGED bkSize

-----------------------------------------------------------------------------
\* Plans.

\* UpdatePlan: a state is settable unless the plan is being deleted.
PatchAllowed(st) == st \in {"active", "suspended"}

\* UpdatePlan, here with the state "active", reads the plan, then writes the row
\* whatever its state has become in between.
PatchPlan ==
    /\ bkPlan.state = "pending_delete"
    /\ IF PatchAllowed(bkPlan.state) THEN UNCHANGED bkFlt ELSE BkFault("stale patch")
    /\ bkPlan' = [bkPlan EXCEPT !.state = "active"]
    /\ UNCHANGED <<bkRun, bkJob, bkArchive, bkTarget, bkSched, bkMinute>>

\* handleDeletePlan, MarkPendingDelete.
DeletePlan ==
    /\ bkPlan.state = "active"
    /\ bkPlan' = [bkPlan EXCEPT !.state = "pending_delete"]
    /\ UNCHANGED <<bkRun, bkJob, bkArchive, bkTarget, bkSched, bkMinute, bkFlt>>

\* FinalizeDelete, once the grace period is over.
FinalizePlan ==
    /\ bkPlan.state = "pending_delete" /\ bkMinute = MaxBkMinute
    /\ bkPlan' = [bkPlan EXCEPT !.state = "deleted"]
    /\ UNCHANGED <<bkRun, bkJob, bkArchive, bkTarget, bkSched, bkMinute, bkFlt>>

-----------------------------------------------------------------------------
\* Runs.

BkActive == {r \in BkRuns : bkRun[r].state \in {"queued", "running"}}
NewRun(r) == r <= bkSize[2] /\ bkRun[r].state = "absent" /\ \A q \in 1..r-1 : bkRun[q].state # "absent"
Inserted(r, key) == [bkRun EXCEPT ![r].state = "queued", ![r].key = key]
KeyHolder(key) == {r \in BkRuns : bkRun[r].state # "absent" /\ bkRun[r].key = key}

BkQueued(kind, r) == [bkJob EXCEPT ![<<kind, r>>].state = "queued"]

\* MarkRunFailed: queued and running rows only.
RunFailed(runs, r) == [runs EXCEPT ![r].state = IF @ \in {"queued", "running"} THEN "failed" ELSE @]

LeftQueued(runs, r) == runs   \* mutant of Unqueued: the row is left to the worker
\* A run whose job cannot be enqueued is failed.
Unqueued(runs, r) == RunFailed(runs, r)

\* handleTriggerRun: the row, unless a run is active, then the job.  The
\* controller may die between the two.
TriggerRun(r) ==
    /\ bkPlan.state = "active" /\ BkActive = {} /\ NewRun(r)
    /\ \/ bkRun' = Inserted(r, NoTime) /\ bkJob' = BkQueued("run", r) /\ UNCHANGED bkFlt
       \/ BkFault("not queued") /\ bkRun' = Unqueued(Inserted(r, NoTime), r) /\ UNCHANGED bkJob
       \/ BkFault("died") /\ bkRun' = Inserted(r, NoTime) /\ UNCHANGED bkJob
    /\ UNCHANGED <<bkPlan, bkArchive, bkTarget, bkSched, bkMinute>>

\* handleVerifyRun, handleRestoreRun, handleDeleteRun: the key allows one job of
\* a kind per run.
RequestOnRun(kind, r) ==
    /\ kind # "run" /\ bkPlan.state # "deleted"
    /\ bkRun[r].state # "absent" /\ (kind # "delete" => bkRun[r].state = "completed")
    /\ bkJob[<<kind, r>>].state = "none"
    /\ Cardinality({j \in DOMAIN bkJob : j[1] # "run" /\ bkJob[j].state # "none"}) < MaxBkRequests
    /\ \A j \in DOMAIN bkJob : bkJob[j].state \notin {"queued", "running"}
    /\ bkJob' = BkQueued(kind, r)
    /\ UNCHANGED <<bkPlan, bkRun, bkArchive, bkTarget, bkSched, bkMinute, bkFlt>>

-----------------------------------------------------------------------------
\* The tick of a scheduler, tickOnce, with the plan as it was listed.

SchedAt(s, step) == bkSched' = [bkSched EXCEPT ![s].at = step]

\* CreateRun looks for an active run, and inserts in the same transaction.
MayInsert == BkActive = {}

\* DuePlans lists the plan, and CreateRun makes its check.
SchedList(s) ==
    /\ s <= bkSize[1] /\ bkSched[s].at = "idle" /\ bkPlan.state = "active" /\ bkPlan.next <= bkMinute
    /\ bkSched' = [bkSched EXCEPT ![s] = [at |-> IF MayInsert THEN "insert" ELSE "retain",
                                         now |-> bkMinute, run |-> 0]]
    /\ UNCHANGED <<bkPlan, bkRun, bkJob, bkArchive, bkTarget, bkMinute, bkFlt>>

\* The insert, or the run that has the key of this minute.  Nothing stops a
\* manual run from having come in since the check.
SchedInsert(s, r) ==
    /\ bkSched[s].at = "insert"
    /\ bkSched' = [bkSched EXCEPT ![s].at = "enqueue", ![s].run = r]
    /\ IF KeyHolder(bkSched[s].now) # {}
       THEN r \in KeyHolder(bkSched[s].now) /\ UNCHANGED <<bkRun, bkFlt>>
       ELSE /\ NewRun(r) /\ bkRun' = Inserted(r, bkSched[s].now)
            /\ IF MayInsert THEN UNCHANGED bkFlt ELSE BkFault("raced")
    /\ UNCHANGED <<bkPlan, bkJob, bkArchive, bkTarget, bkMinute>>

\* Enqueue; an error of any kind, a job that is already there among them, fails
\* the run.
SchedEnqueue(s) ==
    /\ bkSched[s].at = "enqueue" /\ SchedAt(s, "retain")
    /\ LET r == bkSched[s].run IN
       \/ /\ bkJob[<<"run", r>>].state = "none"
          /\ bkJob' = BkQueued("run", r) /\ UNCHANGED <<bkRun, bkFlt>>
       \/ /\ bkJob[<<"run", r>>].state # "none" /\ UNCHANGED bkJob
          /\ bkRun' = Unqueued(bkRun, r)
          /\ IF bkRun' = bkRun THEN UNCHANGED bkFlt ELSE BkFault("raced")
       \/ /\ bkJob[<<"run", r>>].state = "none" /\ BkFault("not queued")
          /\ bkRun' = Unqueued(bkRun, r) /\ UNCHANGED bkJob
    /\ UNCHANGED <<bkPlan, bkArchive, bkTarget, bkMinute>>

Keepable == {r \in BkRuns : bkRun[r].state = "completed" /\ bkRun[r].verif # "expired"}
\* Mutant of Expirable: ORDER BY created_at ASC.
ExpirableOldest == {r \in Keepable : Cardinality({q \in Keepable : q < r}) >= BkKeep}
\* ExpireOldRuns: all but the newest.
Expirable == {r \in Keepable : Cardinality({q \in Keepable : q > r}) >= BkKeep}

\* advance, AdvanceNextRun: the next minute after the tick's own.
Advanced(s) == IF bkPlan.state = "active" THEN [bkPlan EXCEPT !.next = bkSched[s].now + 1] ELSE bkPlan

SchedIdle(s) == bkSched' = [bkSched EXCEPT ![s] = [at |-> "idle", now |-> 0, run |-> 0]]

\* enforceRetention: the rows in one statement, then a delete job for each.
SchedRetain(s) ==
    /\ bkSched[s].at = "retain" /\ SchedIdle(s) /\ bkPlan' = Advanced(s)
    /\ bkRun' = [r \in BkRuns |-> IF r \in Expirable THEN [bkRun[r] EXCEPT !.verif = "expired"] ELSE bkRun[r]]
    /\ \/ /\ bkJob' = [j \in DOMAIN bkJob |->
                IF j[1] = "delete" /\ j[2] \in Expirable /\ bkJob[j].state = "none"
                THEN [bkJob[j] EXCEPT !.state = "queued"] ELSE bkJob[j]]
          /\ UNCHANGED bkFlt
       \/ Expirable # {} /\ BkFault("not queued") /\ UNCHANGED bkJob
    /\ UNCHANGED <<bkArchive, bkTarget, bkMinute>>

SchedDies(s) ==
    /\ bkSched[s].at # "idle" /\ BkFault("died") /\ SchedIdle(s)
    /\ UNCHANGED <<bkPlan, bkRun, bkJob, bkArchive, bkTarget, bkMinute>>

BkTick == /\ bkMinute < MaxBkMinute /\ bkMinute' = bkMinute + 1
          /\ UNCHANGED <<bkPlan, bkRun, bkJob, bkArchive, bkTarget, bkSched, bkFlt>>

-----------------------------------------------------------------------------
\* The job handlers.

\* The attempts of a job that has ended do not matter any more.
EndBkJob(j, st) == bkJob' = [bkJob EXCEPT ![j] = [state |-> st, at |-> "idle",
                                  tries |-> IF st = "queued" THEN @.tries ELSE 0]]
BkStep(j, step) == bkJob' = [bkJob EXCEPT ![j].at = step]
Verification(r, v) == bkRun' = [bkRun EXCEPT ![r].verif = v]

\* Claimed and marked running.  A run that is not queued is gone on with (a
\* retry); a deleted plan is not found, and a run or verification then fails.
StartBkJob(j) ==
    /\ bkJob[j].state = "queued" /\ \A i \in DOMAIN bkJob : bkJob[i].state # "running"
    /\ IF bkPlan.state = "deleted"
       THEN /\ EndBkJob(j, "failed")
            /\ CASE j[1] = "run" -> bkRun' = RunFailed(bkRun, j[2])
                 [] j[1] = "verify" -> Verification(j[2], "failed")
                 [] OTHER -> UNCHANGED bkRun
       ELSE /\ bkJob' = [bkJob EXCEPT ![j] = [state |-> "running", tries |-> @.tries + 1,
                                             at |-> IF j[1] = "run" THEN "archive" ELSE j[1]]]
            /\ bkRun' = IF j[1] = "run" /\ bkRun[j[2]].state = "queued"
                        THEN [bkRun EXCEPT ![j[2]].state = "running"] ELSE bkRun
    /\ UNCHANGED <<bkPlan, bkArchive, bkTarget, bkSched, bkMinute, bkFlt>>

\* ArchiveFiles, one content per attempt, then Put: of the archive, or of a probe
\* when the controller cannot read it.  A failure removes the archive, or leaves
\* it when it was the upload's.
ArchiveStep(r) ==
    LET j == <<"run", r>>  new == [bkArchive EXCEPT ![r] = bkJob[j].tries] IN
    /\ bkJob[j].at = "archive"
    /\ \/ /\ bkArchive' = new /\ bkTarget' \in {bkTarget, [bkTarget EXCEPT ![r] = new[r]]}
          /\ BkStep(j, "complete") /\ UNCHANGED <<bkRun, bkFlt>>
       \/ /\ BkFault("failed") /\ bkArchive' \in {new, [bkArchive EXCEPT ![r] = 0]}
          /\ EndBkJob(j, "failed") /\ bkRun' = RunFailed(bkRun, r) /\ UNCHANGED bkTarget
    /\ UNCHANGED <<bkPlan, bkSched, bkMinute>>

\* MarkRunCompleted: running rows only.
Completable(r) == bkRun[r].state = "running"

CompleteStep(r) ==
    LET j == <<"run", r>> IN
    /\ bkJob[j].at = "complete"
    /\ IF Completable(r)
       THEN /\ bkRun' = [bkRun EXCEPT ![r].state = "completed", ![r].sum = bkArchive[r]]
            /\ EndBkJob(j, "succeeded") /\ UNCHANGED bkFlt
       ELSE EndBkJob(j, "failed") /\ UNCHANGED <<bkRun, bkFlt>>
    /\ UNCHANGED <<bkPlan, bkArchive, bkTarget, bkSched, bkMinute>>

\* newBackupVerifyHandler: the object is there and has the recorded checksum.
VerifyStep(r) ==
    /\ bkJob[<<"verify", r>>].at = "verify"
    /\ \/ /\ bkTarget[r] # 0 /\ bkTarget[r] = bkRun[r].sum
          /\ Verification(r, "verified") /\ EndBkJob(<<"verify", r>>, "succeeded") /\ UNCHANGED bkFlt
       \/ /\ bkTarget[r] = 0 \/ bkTarget[r] # bkRun[r].sum
          /\ Verification(r, "failed") /\ EndBkJob(<<"verify", r>>, "failed") /\ UNCHANGED bkFlt
       \/ BkFault("failed") /\ Verification(r, "failed") /\ EndBkJob(<<"verify", r>>, "failed")
    /\ UNCHANGED <<bkPlan, bkArchive, bkTarget, bkSched, bkMinute>>

\* RestoreFiles, from the archive on the node.
RestoreStep(r) ==
    /\ bkJob[<<"restore", r>>].at = "restore"
    /\ \/ bkArchive[r] # 0 /\ EndBkJob(<<"restore", r>>, "succeeded") /\ UNCHANGED bkFlt
       \/ bkArchive[r] = 0 /\ EndBkJob(<<"restore", r>>, "failed") /\ UNCHANGED bkFlt
       \/ BkFault("failed") /\ EndBkJob(<<"restore", r>>, "failed")
    /\ UNCHANGED <<bkPlan, bkRun, bkArchive, bkTarget, bkSched, bkMinute>>

\* Nothing removes the archive on the node, of which the row tells.
ArchiveKept(r) == bkArchive

\* newBackupDeleteHandler: the object only.
DeleteStep(r) ==
    /\ bkJob[<<"delete", r>>].at = "delete"
    /\ \/ /\ bkTarget' = [bkTarget EXCEPT ![r] = 0]
          /\ bkArchive' = ArchiveKept(r)
          /\ EndBkJob(<<"delete", r>>, "succeeded") /\ UNCHANGED bkFlt
       \/ BkFault("failed") /\ EndBkJob(<<"delete", r>>, "failed") /\ UNCHANGED <<bkArchive, bkTarget>>
    /\ UNCHANGED <<bkPlan, bkRun, bkSched, bkMinute>>

\* The worker dies after any write: even MarkRunCompleted.
BkWorkerDies(j) ==
    /\ bkJob[j].state = "running" /\ BkFault("crash")
    /\ EndBkJob(j, IF bkJob[j].tries < MaxBkAttempts THEN "queued" ELSE "failed")
    /\ bkRun' \in {bkRun} \cup (IF bkJob[j].at = "complete" /\ Completable(j[2])
            THEN {[bkRun EXCEPT ![j[2]].state = "completed", ![j[2]].sum = bkArchive[j[2]]]} ELSE {})
    /\ UNCHANGED <<bkPlan, bkArchive, bkTarget, bkSched, bkMinute>>

BkNext ==
    \/ DeletePlan \/ FinalizePlan \/ BkTick
    \/ PatchPlan
    \/ \E r \in BkRuns :
        \/ TriggerRun(r) \/ (\E k \in BkKinds : RequestOnRun(k, r))
        \/ ArchiveStep(r) \/ CompleteStep(r)
        \/ VerifyStep(r) \/ RestoreStep(r) \/ DeleteStep(r)
    \/ \E j \in BkKinds \X BkRuns : StartBkJob(j) \/ BkWorkerDies(j)
    \/ \E s \in Schedulers :
        \/ SchedList(s) \/ (\E r \in BkRuns : SchedInsert(s, r)) \/ SchedEnqueue(s)
        \/ SchedRetain(s) \/ SchedDies(s)

BkSpec == BkInit /\ [][BkNext]_bkVars

-----------------------------------------------------------------------------
\* Every variable stays within its type.
BkTypeOK ==
    /\ bkPlan \in [state : {"active", "pending_delete", "deleted"}, next : 0..MaxBkMinute + 1 \cup {NoTime}]
    /\ bkRun \in [BkRuns -> [state : {"absent", "queued", "running", "completed", "failed"},
                             verif : {"unverified", "verified", "failed", "expired"},
                             sum : 0..MaxBkAttempts, key : 0..MaxBkMinute \cup {NoTime}]]
    /\ bkJob \in [BkKinds \X BkRuns -> [state : {"none", "queued", "running", "succeeded", "failed"},
                tries : 0..MaxBkAttempts,
                at : {"idle", "archive", "complete", "verify", "restore", "delete"}]]
    /\ bkArchive \in [BkRuns -> 0..MaxBkAttempts] /\ bkTarget \in [BkRuns -> 0..MaxBkAttempts]
    /\ bkSched \in [Schedulers -> [at : {"idle", "insert", "enqueue", "retain"},
                                  now : 0..MaxBkMinute, run : {0} \cup BkRuns]]
    /\ bkMinute \in 0..MaxBkMinute

BkJobOpen(r) == bkJob[<<"run", r>>].state \in {"queued", "running"}

\* An active run is worked on: as long as no controller dies between the row and
\* the job, a queued or running row has an open job or a scheduler about to
\* enqueue it, for such a row refuses every later run of the plan.
ActiveRunIsWorkedOn ==
    bkHarm \cap {"died", "crash"} = {} =>
        \A r \in BkActive : BkJobOpen(r) \/ \E s \in Schedulers : bkSched[s].at = "enqueue" /\ bkSched[s].run = r

\* Two controllers that tick together, and the API beside them, start one run:
\* at most one is active and an open job has an active row, unless a run came
\* in between the check and the insert, a retry follows a crash, or the second
\* controller takes up a run the first could not enqueue.
OneActiveRun ==
    bkHarm \cap {"raced", "crash", "not queued"} = {} =>
        Cardinality(BkActive) <= 1 /\ \A r \in BkRuns : BkJobOpen(r) => r \in BkActive

\* What a completed run recorded is what was stored: the archive has the
\* recorded content, and so has the object unless it was not uploaded or was
\* deleted.  A retry after the completion was recorded archives again.
CompletedMatchesStored ==
    \A r \in BkRuns : bkRun[r].state = "completed" /\ "crash" \notin bkHarm =>
        bkArchive[r] = bkRun[r].sum /\ bkTarget[r] \in {0, bkRun[r].sum}

\* Retention never takes the newest runs: an expired run has retention_count
\* newer completed ones.
NewestAreKept ==
    \A r \in BkRuns : bkRun[r].verif = "expired" =>
        Cardinality({q \in BkRuns : q > r /\ bkRun[q].state = "completed"}) >= BkKeep

\* The runs of a plan (backups_scheduler.go, backups.go): one at a time, and each
\* of them is worked on.
RunsAreSound == BkTypeOK /\ ActiveRunIsWorkedOn /\ OneActiveRun

\* The archives of a plan (backups_worker.go): what is recorded is stored, and the
\* newest are there.
ArchivesAreSound == CompletedMatchesStored /\ NewestAreKept

\* The scheduler runs what is due: an enabled plan in service has a next_run_at.
\* Of NextRunCases = {TRUE} only: nothing in the code sets next_run_at (README).
EnabledPlanIsScheduled ==
    bkPlan.state = "active" => bkPlan.next # NoTime
=============================================================================
