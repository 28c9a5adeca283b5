------------------------------- MODULE Sites -------------------------------
(***************************************************************************)
(* Applying the web server configuration of one site: the handlers of      *)
(* internal/controller/sites.go, the job handler of sites_worker.go and    *)
(* the node executor of internal/nodeagent/webconfig.go.  A revision is a  *)
(* number, in the order of creation; its job has the same number.  The     *)
(* controller runs one worker, and the job engine and the revision store   *)
(* are used as their own modules describe them.                            *)
(***************************************************************************)
EXTENDS Naturals, FiniteSets

CONSTANTS
    MaxSiteRevs,     \* bound: revisions of the site
    SiteConfigs,     \* candidate configurations
    BadConfigs,      \* those that nginx rejects on their own
    MaxSiteAttempts, \* max_attempts of a site.apply job
    MaxSiteFaults,   \* bound: crashes, lost answers, failed writes
    SiteActorCases   \* whether audit_events.actor_id takes the worker's actor

\* The bounds count; the actor's column takes a value or it does not.
ASSUME SiteAssumption ==
    /\ MaxSiteRevs \in Nat /\ MaxSiteAttempts \in Nat /\ MaxSiteFaults \in Nat
    /\ SiteActorCases \subseteq BOOLEAN

SiteRevs == 1..MaxSiteRevs

VARIABLES
    siteRow,    \* the site: state and applied_revision_id (0: NULL)
    siteRev,    \* siteRev[r]: state, config and base of a revision
    siteJob,    \* siteJob[r]: state, attempts and step of the job of r
    siteOp,     \* siteOp[r]: ApplyWebConfig on the node for r: where it is, its
                \* backup flag and its answer
    siteFiles,  \* the node: live and backup file, the configuration nginx runs
    siteTested, \* revisions that passed nginx -t in place
    siteHarm,   \* what has happened that the node cannot undo
    siteFaults, \* faults so far
    siteActorOk \* see SiteActorCases

siteVars == <<siteRow, siteRev, siteJob, siteOp, siteFiles, siteTested,
              siteHarm, siteFaults, siteActorOk>>

SiteInit ==
    /\ siteRow = [state |-> "active", applied |-> 0]
    /\ siteRev = [r \in SiteRevs |-> [state |-> "absent", config |-> 0, base |-> 0]]
    /\ siteJob = [r \in SiteRevs |-> [state |-> "none", tries |-> 0, at |-> "idle"]]
    /\ siteOp = [r \in SiteRevs |-> [at |-> "idle", saved |-> FALSE, answer |-> "none"]]
    /\ siteFiles = [live |-> 0, backup |-> 0, running |-> 0]
    /\ siteTested = {} /\ siteHarm = {} /\ siteFaults = 0
    /\ siteActorOk \in SiteActorCases

SiteFault == siteFaults < MaxSiteFaults /\ siteFaults' = siteFaults + 1

AppliedRev == IF \E r \in SiteRevs : siteRev[r].state = "applied"
              THEN CHOOSE r \in SiteRevs : siteRev[r].state = "applied" ELSE 0

\* ValidateWebConfig on the node: nginx -t over the staged candidate alone; the
\* staged file is removed and nothing in service is touched.
Verdict(c) == c \notin BadConfigs

-----------------------------------------------------------------------------
\* The API.

\* jobs.Enqueue with the candidate's hash as idempotency key: a second job for
\* the same content is refused with ErrDuplicate, whatever became of the first.
KeyFree(c) == \A q \in SiteRevs : siteJob[q].state # "none" => siteRev[q].config # c

\* handleApplyConfig: validate on the node when it answers, create the
\* revision, enqueue.  A stale base and a duplicate key leave the draft behind.
ApplyConfig(r, c, b) ==
    /\ siteRow.state = "active"
    /\ siteRev[r].state = "absent" /\ \A q \in 1..r-1 : siteRev[q].state # "absent"
    /\ b # 0 => siteRev[b].state # "absent"
    /\ ~Verdict(c) => siteFaults < MaxSiteFaults
    /\ siteRev' = [siteRev EXCEPT ![r] = [state |-> "draft", config |-> c,
                                          base |-> IF b = 0 THEN AppliedRev ELSE b]]
    /\ siteJob' = IF (b = 0 \/ b = AppliedRev) /\ KeyFree(c)
                  THEN [siteJob EXCEPT ![r].state = "queued"] ELSE siteJob
    /\ siteFaults' = IF Verdict(c) THEN siteFaults ELSE siteFaults + 1
    /\ UNCHANGED <<siteRow, siteOp, siteFiles, siteTested, siteHarm, siteActorOk>>

\* ImmediateDelete.
Deletable == siteRow.state \in {"active", "suspended", "pending_delete"}

\* handleDeleteSite: the row only; the node's files and queued jobs stay.
DeleteSite ==
    /\ Deletable
    /\ siteRow' = [siteRow EXCEPT !.state = "deleted"]
    /\ UNCHANGED <<siteRev, siteJob, siteOp, siteFiles, siteTested, siteHarm, siteFaults, siteActorOk>>

-----------------------------------------------------------------------------
\* NewSiteApplyHandler.

WorkerIdle == \A r \in SiteRevs : siteJob[r].state # "running"

FailSiteJob(r) == [siteJob EXCEPT ![r].state = "failed", ![r].at = "idle"]

\* The engine claims the job and the handler marks it running.
StartSiteJob(r) ==
    /\ WorkerIdle /\ siteJob[r].state = "queued" /\ siteJob[r].tries < MaxSiteAttempts
    /\ siteJob' = [siteJob EXCEPT ![r] = [state |-> "running", tries |-> @.tries + 1, at |-> "validate"]]
    /\ UNCHANGED <<siteRow, siteRev, siteOp, siteFiles, siteTested, siteHarm, siteFaults, siteActorOk>>

\* Step 0: the node's verdict, or no answer.  A failed validation leaves a draft.
ValidateStep(r) ==
    /\ siteJob[r].at = "validate"
    /\ \/ /\ Verdict(siteRev[r].config)
          /\ siteJob' = [siteJob EXCEPT ![r].at = "mark"] /\ UNCHANGED siteFaults
       \/ /\ ~Verdict(siteRev[r].config)
          /\ siteJob' = FailSiteJob(r) /\ UNCHANGED siteFaults
       \/ SiteFault /\ siteJob' = FailSiteJob(r)
    /\ UNCHANGED <<siteRow, siteRev, siteOp, siteFiles, siteTested, siteHarm, siteActorOk>>

\* MarkValidated with OK: it takes a draft, and its audit event casts the
\* worker's actor to a uuid.
MarkStep(r) ==
    /\ siteJob[r].at = "mark"
    /\ IF siteRev[r].state = "draft" /\ siteActorOk
       THEN /\ siteRev' = [siteRev EXCEPT ![r].state = "validated"]
            /\ siteJob' = [siteJob EXCEPT ![r].at = "switch"]
       ELSE siteJob' = FailSiteJob(r) /\ UNCHANGED siteRev
    /\ UNCHANGED <<siteRow, siteOp, siteFiles, siteTested, siteHarm, siteFaults, siteActorOk>>

\* Step 1, an answer that is not Applied: recordApplyFailure.
SwitchFailed(r) ==
    /\ siteRev' = [siteRev EXCEPT ![r].state = IF @ = "validated" THEN "failed" ELSE @]
    /\ siteJob' = FailSiteJob(r)

\* Step 1: ApplyWebConfig has answered, or the controller stops waiting.
SwitchStep(r) ==
    /\ siteJob[r].at = "wait"
    /\ \/ /\ siteOp[r].answer = "applied"
          /\ siteJob' = [siteJob EXCEPT ![r].at = "record"]
          /\ UNCHANGED <<siteRev, siteFaults>>
       \/ siteOp[r].answer \in {"rolled_back", "error"} /\ SwitchFailed(r) /\ UNCHANGED siteFaults
       \/ siteOp[r].answer = "none" /\ SiteFault /\ SwitchFailed(r)
    /\ UNCHANGED <<siteRow, siteOp, siteFiles, siteTested, siteHarm, siteActorOk>>

RecordFails(r) == FailSiteJob(r)

\* revisions.Apply: the base is the applied revision.
ApplyAllowed(r) == siteRev[r].state = "validated" /\ siteRev[r].base = AppliedRev

\* The node has switched: record the revision, then the site's pointer (an
\* error of which is logged), then complete the job.
RecordStep(r) ==
    /\ siteJob[r].at = "record"
    /\ \/ /\ ApplyAllowed(r)
          /\ siteRev' = [q \in SiteRevs |->
                CASE q = r -> [siteRev[q] EXCEPT !.state = "applied"]
                  [] q # r /\ q = AppliedRev -> [siteRev[q] EXCEPT !.state = "superseded"]
                  [] OTHER -> siteRev[q]]
          /\ siteJob' = [siteJob EXCEPT ![r].state = "succeeded", ![r].at = "idle"]
          /\ \/ UNCHANGED siteFaults
                /\ siteRow' = [siteRow EXCEPT !.applied = IF siteRow.state # "deleted" THEN r ELSE @]
             \/ SiteFault /\ UNCHANGED siteRow
       \/ /\ ~ApplyAllowed(r)
          /\ siteJob' = RecordFails(r)
          /\ UNCHANGED <<siteRow, siteRev, siteFaults>>
       \/ SiteFault /\ siteJob' = RecordFails(r) /\ UNCHANGED <<siteRow, siteRev>>
    /\ UNCHANGED <<siteOp, siteFiles, siteTested, siteHarm, siteActorOk>>

\* The worker dies and the lease runs out: the job is queued again, or failed
\* when its attempts are used up.
WorkerDies(r) ==
    /\ siteJob[r].state = "running" /\ SiteFault
    /\ siteJob' = [siteJob EXCEPT ![r].at = "idle",
            ![r].state = IF siteJob[r].tries < MaxSiteAttempts THEN "queued" ELSE "failed"]
    /\ UNCHANGED <<siteRow, siteRev, siteOp, siteFiles, siteTested, siteHarm, siteActorOk>>

-----------------------------------------------------------------------------
\* ApplyWebConfig on the node.

OpsRunning == {r \in SiteRevs : siteOp[r].at # "idle"}

\* Answer and end the operation.
Answer(r, a) == siteOp' = [siteOp EXCEPT ![r] = [at |-> "idle", saved |-> FALSE, answer |-> a]]

\* Mutant of Restored: the candidate stays.
NothingRestored(r) == siteFiles

\* restoreBackup: the backup back in place, or the candidate removed.
Restored(r) == IF siteOp[r].saved
               THEN [siteFiles EXCEPT !.live = siteFiles.backup, !.backup = 0]
               ELSE [siteFiles EXCEPT !.live = 0]

\* detectWebServer and CanApply, then the live file is renamed to the backup.
NodeBackup(r) ==
    /\ siteJob[r].at = "switch"
    /\ siteJob' = [siteJob EXCEPT ![r].at = "wait"]
    /\ \/ /\ siteOp' = [siteOp EXCEPT ![r] = [at |-> "write", saved |-> siteFiles.live # 0, answer |-> "none"]]
          /\ siteFiles' = IF siteFiles.live # 0
                          THEN [siteFiles EXCEPT !.backup = siteFiles.live, !.live = 0] ELSE siteFiles
          /\ siteHarm' = IF OpsRunning # {} THEN siteHarm \cup {"overlap"} ELSE siteHarm
          /\ UNCHANGED siteFaults
       \/ SiteFault /\ Answer(r, "error") /\ UNCHANGED <<siteFiles, siteHarm>>
    /\ UNCHANGED <<siteRow, siteRev, siteTested, siteActorOk>>

\* The candidate is written; a failed write restores.
NodeWrite(r) ==
    /\ siteOp[r].at = "write"
    /\ \/ /\ siteFiles' = [siteFiles EXCEPT !.live = r]
          /\ siteOp' = [siteOp EXCEPT ![r].at = "test"] /\ UNCHANGED siteFaults
       \/ SiteFault /\ siteFiles' = Restored(r) /\ Answer(r, "error")
    /\ UNCHANGED <<siteRow, siteRev, siteJob, siteTested, siteHarm, siteActorOk>>

\* reloadNginx: its errors are ignored after a restore, when nginx runs the
\* restored configuration either way.
Reloaded(files) == [files EXCEPT !.running = files.live]

\* nginx -t over the whole configuration.  A verdict against it, or no verdict
\* in time, restores and reloads (with its error ignored).
NodeTest(r) ==
    /\ siteOp[r].at = "test"
    /\ \/ /\ siteTested' = siteTested \cup {siteFiles.live}
          /\ siteOp' = [siteOp EXCEPT ![r].at = "reload"]
          /\ UNCHANGED siteFiles
       \/ /\ \E a \in {"rolled_back", "error"} : Answer(r, a)
          /\ siteFiles' = Reloaded(Restored(r))
          /\ UNCHANGED siteTested
    /\ UNCHANGED <<siteRow, siteRev, siteJob, siteHarm, siteFaults, siteActorOk>>

\* The reload, and the backup's removal; a failed reload restores the file.
NodeReload(r) ==
    /\ siteOp[r].at = "reload"
    /\ \/ /\ siteFiles' = [Reloaded(siteFiles) EXCEPT !.backup = IF siteOp[r].saved THEN 0 ELSE @]
          /\ Answer(r, "applied") /\ UNCHANGED siteFaults
       \/ SiteFault /\ siteFiles' = Restored(r) /\ Answer(r, "error")
    /\ UNCHANGED <<siteRow, siteRev, siteJob, siteTested, siteHarm, siteActorOk>>

\* The agent stops within an operation: the files stay as they are.
AgentStops(r) ==
    /\ siteOp[r].at # "idle" /\ SiteFault
    /\ Answer(r, "error")
    /\ siteHarm' = siteHarm \cup {"crash"}
    /\ UNCHANGED <<siteRow, siteRev, siteJob, siteFiles, siteTested, siteActorOk>>

SiteNext ==
    \/ \E r \in SiteRevs, c \in SiteConfigs, b \in SiteRevs \cup {0} : ApplyConfig(r, c, b)
    \/ DeleteSite
    \/ \E r \in SiteRevs :
        \/ StartSiteJob(r) \/ ValidateStep(r) \/ MarkStep(r) \/ SwitchStep(r)
        \/ RecordStep(r) \/ WorkerDies(r)
        \/ NodeBackup(r) \/ NodeWrite(r) \/ NodeTest(r) \/ NodeReload(r) \/ AgentStops(r)

SiteSpec == SiteInit /\ [][SiteNext]_siteVars

-----------------------------------------------------------------------------
\* Every variable stays within its type.
SiteTypeOK ==
    /\ siteRow \in [state : {"active", "deleted"}, applied : 0..MaxSiteRevs]
    /\ siteRev \in [SiteRevs -> [state : {"absent", "draft", "validated", "applied", "failed", "superseded"},
                                 config : SiteConfigs \cup {0}, base : 0..MaxSiteRevs]]
    /\ siteJob \in [SiteRevs -> [state : {"none", "queued", "running", "succeeded", "failed"},
                                 tries : 0..MaxSiteAttempts,
                                 at : {"idle", "validate", "mark", "switch", "wait", "record"}]]
    /\ siteOp \in [SiteRevs -> [at : {"idle", "write", "test", "reload"}, saved : BOOLEAN,
                                answer : {"none", "applied", "rolled_back", "error"}]]
    /\ siteFiles \in [live : 0..MaxSiteRevs, backup : 0..MaxSiteRevs, running : 0..MaxSiteRevs]
    /\ siteTested \subseteq 0..MaxSiteRevs /\ siteHarm \subseteq {"overlap", "crash"}
    /\ siteFaults \in 0..MaxSiteFaults /\ siteActorOk \in BOOLEAN

\* webconfig.go promises that an invalid candidate cannot replace the known-good
\* configuration: unless two applies overlapped or the agent died within one,
\* the file in place once no operation runs, and what nginx runs at any time,
\* passed the test of the whole configuration.
InvalidNeverServes ==
    siteHarm = {} =>
        /\ siteFiles.running \in siteTested \cup {0}
        /\ OpsRunning = {} => siteFiles.live \in siteTested \cup {0} /\ siteFiles.backup = 0

\* What the node serves is accounted for: outside an operation the live file is
\* that of the applied revision, or the job that put it there has failed or is
\* still to be retried.  No job succeeds without its revision being recorded.
LiveIsAccounted ==
    /\ siteHarm = {} /\ OpsRunning = {} /\ WorkerIdle
         => \/ siteFiles.live = AppliedRev
            \/ siteFiles.live # 0 /\ siteJob[siteFiles.live].state \in {"failed", "queued"}
    /\ \A r \in SiteRevs : siteJob[r].state = "succeeded"
         => siteRev[r].state \in {"applied", "superseded"}

\* The configuration in force is sound (webconfig.go, sites_worker.go): no candidate
\* that failed the test ever serves, and what serves is what the records say.
LiveConfigIsSound == SiteTypeOK /\ InvalidNeverServes /\ LiveIsAccounted

\* NewSiteApplyHandler fails a job for a reason: without faults, bad candidates
\* and other applied revisions a job does not fail.
ValidCandidateApplies ==
    siteFaults = 0 =>
        \A r \in SiteRevs : siteJob[r].state = "failed" =>
            ~Verdict(siteRev[r].config) \/ siteOp[r].answer # "none"
=============================================================================
