----------------------------- MODULE Databases -----------------------------
(***************************************************************************)
(* One managed database: internal/controller/databases.go and              *)
(* databases_worker.go, the store internal/databases/databases.go and the  *)
(* node executor internal/nodeagent/database.go.  All jobs of a database   *)
(* share a lock key, so one runs at a time; an operation the controller no *)
(* longer waits for goes on at the node.  One user name.                   *)
(***************************************************************************)
EXTENDS Naturals, FiniteSets

CONSTANTS
    MaxDbUsers,    \* bound: rows for the user name
    MaxDbDumps,    \* bound: backup rows
    MaxDbAttempts, \* max_attempts of a job
    MaxDbFaults,   \* bound: refused enqueues, failed operations, crashes, lost answers
    MaxDbClock     \* bound: the clock, in delete grace periods

\* The bounds count, and a job is tried at least once.
ASSUME DatabaseAssumption ==
    /\ MaxDbUsers \in Nat /\ MaxDbDumps \in Nat /\ MaxDbAttempts \in Nat \ {0}
    /\ MaxDbFaults \in Nat /\ MaxDbClock \in Nat

DbUserIds == 1..MaxDbUsers
DbDumpIds == 1..MaxDbDumps

DbJobs == {<<"create_db", 0>>, <<"restore", 0>>, <<"delete", 0>>}
          \cup ({"create_user", "drop_user"} \X DbUserIds) \cup ({"dump"} \X DbDumpIds)

VARIABLES
    dbRow,     \* managed_databases: state and delete_after
    dbUser,    \* dbUser[u]: state of a database_users row
    dbSecret,  \* whether the secret of the user name exists
    dbBackup,  \* dbBackup[b]: state of a database_backups row
    dbJob,     \* dbJob[j]: state, attempts and step
    dbNode,    \* the node: the database, the account, the dump files
    dbLate,    \* operations that go on at the node, unobserved
    dbClock,
    dbHarm,    \* which faults have happened
    dbFaults   \* how many

dbVars == <<dbRow, dbUser, dbSecret, dbBackup, dbJob, dbNode, dbLate, dbClock, dbHarm, dbFaults>>

DbInit ==
    /\ dbRow = [state |-> "absent", due |-> 0]
    /\ dbUser = [u \in DbUserIds |-> "absent"] /\ dbSecret = FALSE
    /\ dbBackup = [b \in DbDumpIds |-> "absent"]
    /\ dbJob = [j \in DbJobs |-> [state |-> "none", tries |-> 0, at |-> "idle"]]
    /\ dbNode = [db |-> FALSE, user |-> FALSE, dumps |-> {}]
    /\ dbLate = {} /\ dbClock = 0 /\ dbHarm = {} /\ dbFaults = 0

dbFlt == <<dbHarm, dbFaults>>
DbFault(h) == /\ dbFaults < MaxDbFaults /\ dbFaults' = dbFaults + 1
              /\ dbHarm' = dbHarm \cup {h}
DbQueued(j) == [dbJob EXCEPT ![j].state = "queued"]

-----------------------------------------------------------------------------
\* The API.

\* The provisioning jobs are enqueued with their errors ignored.
EnqueueIgnored(j) == \/ dbJob' = DbQueued(j) /\ UNCHANGED dbFlt
                     \/ DbFault("not queued") /\ UNCHANGED dbJob

\* handleCreateDatabase, CreateDatabase.
CreateDatabase ==
    /\ dbRow.state = "absent"
    /\ dbRow' = [dbRow EXCEPT !.state = "active"]
    /\ EnqueueIgnored(<<"create_db", 0>>)
    /\ UNCHANGED <<dbUser, dbSecret, dbBackup, dbNode, dbLate, dbClock>>

DbLive == dbRow.state \in {"active", "pending_delete"}
NameTaken == \E u \in DbUserIds : dbUser[u] = "active"

\* handleCreateUser: the secret is written, then the row; a refused row deletes
\* the secret again, whoever it is.
CreateDbUser(u) ==
    /\ DbLive /\ dbUser[u] = "absent" /\ \A v \in 1..u-1 : dbUser[v] # "absent"
    /\ \/ /\ ~NameTaken
          /\ dbUser' = [dbUser EXCEPT ![u] = "active"]
          /\ dbSecret' = TRUE
          /\ EnqueueIgnored(<<"create_user", u>>)
       \/ /\ NameTaken \/ dbFaults < MaxDbFaults
          /\ dbSecret' = FALSE
          /\ UNCHANGED <<dbUser, dbJob, dbFlt>>
    /\ UNCHANGED <<dbRow, dbBackup, dbNode, dbLate, dbClock>>

\* handleRevokeUser: the row is revoked, the secret stays.
RevokeDbUser(u) ==
    /\ DbLive /\ dbUser[u] = "active"
    /\ dbUser' = [dbUser EXCEPT ![u] = "revoked"]
    /\ EnqueueIgnored(<<"drop_user", u>>)
    /\ UNCHANGED <<dbRow, dbSecret, dbBackup, dbNode, dbLate, dbClock>>

\* handleRotateUserPassword: the secret only; the node is not told.
RotateDbPassword ==
    /\ DbLive /\ NameTaken
    /\ dbSecret' = TRUE
    /\ UNCHANGED <<dbRow, dbUser, dbBackup, dbJob, dbNode, dbLate, dbClock, dbFlt>>

\* handleDumpDatabase: the backup row, then the job; a refused job fails the row.
RequestDump(b) ==
    /\ dbRow.state = "active" /\ dbBackup[b] = "absent"
    /\ \/ /\ dbBackup' = [dbBackup EXCEPT ![b] = "queued"]
          /\ dbJob' = DbQueued(<<"dump", b>>) /\ UNCHANGED dbFlt
       \/ DbFault("not queued") /\ dbBackup' = [dbBackup EXCEPT ![b] = "failed"] /\ UNCHANGED dbJob
    /\ UNCHANGED <<dbRow, dbUser, dbSecret, dbNode, dbLate, dbClock>>

\* handleRestoreDatabase, given the path of a completed dump: the path is the
\* idempotency key, so one job per dump.
RequestRestore ==
    /\ dbRow.state = "active" /\ \E b \in DbDumpIds : dbBackup[b] = "completed"
    /\ dbJob[<<"restore", 0>>].state = "none"
    /\ dbJob' = DbQueued(<<"restore", 0>>)
    /\ UNCHANGED <<dbRow, dbUser, dbSecret, dbBackup, dbNode, dbLate, dbClock, dbFlt>>

\* transition.
DbTransition(from, to, due) ==
    /\ dbRow.state \in from
    /\ dbRow' = [state |-> to, due |-> due]

\* handleDeleteDatabase, RequestDelete: a grace period of one tick.
RequestDbDelete ==
    /\ DbTransition({"active", "suspended"}, "pending_delete", dbClock + 1)
    /\ UNCHANGED <<dbUser, dbSecret, dbBackup, dbJob, dbNode, dbLate, dbClock, dbFlt>>

CancelDbDelete ==
    /\ DbTransition({"pending_delete"}, "active", 0)
    /\ UNCHANGED <<dbUser, dbSecret, dbBackup, dbJob, dbNode, dbLate, dbClock, dbFlt>>

\* A database.delete job.  Nothing in the repository enqueues one; the operator
\* does, for a row that is due.
EnqueueDbDelete ==
    /\ dbRow.state = "pending_delete" /\ dbRow.due <= dbClock
    /\ dbJob[<<"delete", 0>>].state = "none"
    /\ dbJob' = DbQueued(<<"delete", 0>>)
    /\ UNCHANGED <<dbRow, dbUser, dbSecret, dbBackup, dbNode, dbLate, dbClock, dbFlt>>

DbTick == /\ dbClock < MaxDbClock /\ dbClock' = dbClock + 1
          /\ UNCHANGED <<dbRow, dbUser, dbSecret, dbBackup, dbJob, dbNode, dbLate, dbFlt>>

-----------------------------------------------------------------------------
\* The job handlers and the node.

DbWorkerIdle == \A j \in DbJobs : dbJob[j].state # "running"

EndDbJob(j, st) == [dbJob EXCEPT ![j].state = st, ![j].at = "idle"]

\* Claim takes the job that is longest due; a retry waits for its backoff.
UserJobs == {"create_user", "drop_user"} \X DbUserIds
AskedBefore(i, j) == i[2] < j[2] \/ (i[2] = j[2] /\ i[1] = "create_user" /\ j[1] = "drop_user")
ClaimAny(j) == TRUE   \* mutant of LongestDue
LongestDue(j) == j \in UserJobs => \A i \in UserJobs :
    AskedBefore(i, j) /\ dbJob[i].state = "queued" => dbJob[i].tries > 0

\* The job is claimed and marked running; the record of a deleted database is
\* not found; a dump marks its row.
StartDbJob(j) ==
    /\ DbWorkerIdle /\ dbJob[j].state = "queued" /\ LongestDue(j)
    /\ IF dbRow.state = "deleted"
       THEN /\ dbJob' = EndDbJob(j, "failed")
            /\ dbBackup' = [b \in DbDumpIds |-> IF j = <<"dump", b>> THEN "failed" ELSE dbBackup[b]]
       ELSE /\ dbJob' = [dbJob EXCEPT ![j] = [state |-> "running", tries |-> @.tries + 1, at |-> "op"]]
            /\ dbBackup' = [b \in DbDumpIds |->
                    IF j = <<"dump", b>> /\ dbBackup[b] = "queued" THEN "running" ELSE dbBackup[b]]
    /\ UNCHANGED <<dbRow, dbUser, dbSecret, dbNode, dbLate, dbClock, dbFlt>>

\* The operation a job waits for.
OpOf(j) == IF j[1] # "delete" THEN j
           ELSE IF dbJob[j].at = "op" THEN <<"dump", 0>> ELSE <<"drop_db", 0>>

\* ManageDatabase, DumpDatabase, RestoreDatabase: create and drop are no-ops
\* when there is nothing to do; a dump needs the database.
OpPossible(o) == o[1] \in {"dump", "restore"} => dbNode.db
ManageEffect(o) ==
    CASE o[1] = "create_db" -> [dbNode EXCEPT !.db = TRUE]
      [] o[1] = "drop_db" -> [dbNode EXCEPT !.db = FALSE]
      [] o[1] = "create_user" -> [dbNode EXCEPT !.user = TRUE]
      [] o[1] = "drop_user" -> [dbNode EXCEPT !.user = FALSE]
DumpEffect(o) == [dbNode EXCEPT !.dumps = @ \cup {o[2]}]
NodeEffect(o) == CASE o[1] = "dump" -> DumpEffect(o)
                   [] o[1] = "restore" -> dbNode
                   [] OTHER -> ManageEffect(o)
\* A dump that fails removes its file, which is named for the job.
FailedEffect(o) == IF o[1] = "dump" THEN [dbNode EXCEPT !.dumps = @ \ {o[2]}] ELSE dbNode

\* The step after the operation has answered.
AfterOp(j) == CASE j[1] = "delete" /\ dbJob[j].at = "op" -> "drop"
                [] j[1] = "delete" /\ dbJob[j].at = "drop" -> "tombstone"
                [] OTHER -> "record"

\* Mutant of FailDbJob: the dump's row is left as it was.
FailJobOnly(j) == dbJob' = EndDbJob(j, "failed") /\ UNCHANGED dbBackup

\* The failure path of a handler: a dump fails its row too.
FailDbJob(j) ==
    /\ dbJob' = EndDbJob(j, "failed")
    /\ dbBackup' = [b \in DbDumpIds |-> IF j = <<"dump", b>> THEN "failed" ELSE dbBackup[b]]

\* The node carries the operation out while the handler waits.
DbOpAnswers(j) ==
    /\ dbJob[j].at \in {"op", "drop"}
    /\ \/ /\ OpPossible(OpOf(j))
          /\ dbNode' = NodeEffect(OpOf(j))
          /\ dbJob' = [dbJob EXCEPT ![j].at = AfterOp(j)]
          /\ UNCHANGED <<dbBackup, dbFlt>>
       \/ /\ ~OpPossible(OpOf(j))
          /\ dbNode' = FailedEffect(OpOf(j)) /\ FailDbJob(j) /\ UNCHANGED dbFlt
       \/ DbFault("failed") /\ dbNode' = FailedEffect(OpOf(j)) /\ FailDbJob(j)
    /\ UNCHANGED <<dbRow, dbUser, dbSecret, dbLate, dbClock>>

\* The dispatcher's client gives up first (60 s, where a dump may take 30
\* minutes): the operation goes on.
DbOpTimesOut(j) ==
    /\ dbJob[j].at \in {"op", "drop"} /\ DbFault("late")
    /\ dbLate' = dbLate \cup {OpOf(j)}
    /\ FailDbJob(j)
    /\ UNCHANGED <<dbRow, dbUser, dbSecret, dbNode, dbClock>>

\* An operation nobody waits for ends.
LateDbOp(o) ==
    /\ o \in dbLate
    /\ dbLate' = dbLate \ {o}
    /\ \/ OpPossible(o) /\ dbNode' = NodeEffect(o)
       \/ dbNode' = FailedEffect(o)
    /\ UNCHANGED <<dbRow, dbUser, dbSecret, dbBackup, dbJob, dbClock, dbFlt>>

\* The handler records the answer (an error of which a dump only logs).
RecordDbOp(j) ==
    /\ dbJob[j].at = "record"
    /\ dbJob' = EndDbJob(j, "succeeded")
    /\ IF j[1] # "dump" THEN UNCHANGED <<dbBackup, dbFlt>>
       ELSE \/ dbBackup' = [dbBackup EXCEPT ![j[2]] = "completed"] /\ UNCHANGED dbFlt
            \/ DbFault("not recorded") /\ UNCHANGED dbBackup
    /\ UNCHANGED <<dbRow, dbUser, dbSecret, dbNode, dbLate, dbClock>>

\* FinalizeDelete, after the drop: refused unless the row is due.
FinalizeDbDelete(j) ==
    /\ dbJob[j].at = "tombstone"
    /\ IF dbRow.state = "pending_delete" /\ dbRow.due <= dbClock
       THEN /\ dbRow' = [state |-> "deleted", due |-> 0]
            /\ dbJob' = EndDbJob(j, "succeeded")
       ELSE dbJob' = EndDbJob(j, "failed") /\ UNCHANGED dbRow
    /\ UNCHANGED <<dbUser, dbSecret, dbBackup, dbNode, dbLate, dbClock, dbFlt>>

MayRetry(j) == dbJob[j].tries < MaxDbAttempts

\* The worker dies: the job is queued again or failed, and an operation it
\* waited for goes on.
DbWorkerDies(j) ==
    /\ dbJob[j].state = "running" /\ DbFault("crash")
    /\ dbLate' = IF dbJob[j].at \in {"op", "drop"} THEN dbLate \cup {OpOf(j)} ELSE dbLate
    /\ dbJob' = EndDbJob(j, IF MayRetry(j) THEN "queued" ELSE "failed")
    /\ UNCHANGED <<dbRow, dbUser, dbSecret, dbBackup, dbNode, dbClock>>

DbNext ==
    \/ CreateDatabase \/ RotateDbPassword \/ RequestRestore
    \/ RequestDbDelete \/ CancelDbDelete \/ EnqueueDbDelete \/ DbTick
    \/ \E u \in DbUserIds : CreateDbUser(u) \/ RevokeDbUser(u)
    \/ \E b \in DbDumpIds : RequestDump(b)
    \/ \E j \in DbJobs : \/ StartDbJob(j) \/ DbOpAnswers(j) \/ DbOpTimesOut(j)
                         \/ RecordDbOp(j) \/ FinalizeDbDelete(j) \/ DbWorkerDies(j)
    \/ \E o \in DbJobs \cup {<<"drop_db", 0>>, <<"dump", 0>>} : LateDbOp(o)

DbSpec == DbInit /\ [][DbNext]_dbVars

-----------------------------------------------------------------------------
\* Every variable stays within its type.
DbTypeOK ==
    /\ dbRow \in [state : {"absent", "active", "pending_delete", "deleted"}, due : 0..MaxDbClock + 1]
    /\ dbUser \in [DbUserIds -> {"absent", "active", "revoked"}] /\ dbSecret \in BOOLEAN
    /\ dbBackup \in [DbDumpIds -> {"absent", "queued", "running", "completed", "failed"}]
    /\ dbJob \in [DbJobs -> [state : {"none", "queued", "running", "succeeded", "failed"},
                             tries : 0..MaxDbAttempts,
                             at : {"idle", "op", "drop", "tombstone", "record"}]]
    /\ dbNode \in [db : BOOLEAN, user : BOOLEAN, dumps : SUBSET (DbDumpIds \cup {0})]
    /\ dbLate \subseteq DbJobs \cup {<<"drop_db", 0>>, <<"dump", 0>>}
    /\ dbClock \in 0..MaxDbClock /\ dbFaults \in 0..MaxDbFaults

DbQuiet == dbLate = {} /\ \A j \in DbJobs : dbJob[j].state \notin {"queued", "running"}

\* Provisioning follows the records: once no job and no operation is left, the
\* account exists on the node exactly when a row for its name is active, although
\* jobs that create and drop it may have been waiting together.  A lost or failed
\* job, a crash and a late operation each break it.
UsersMatchNode ==
    DbQuiet /\ dbHarm = {} /\ dbRow.state # "deleted" => (dbNode.user <=> NameTaken)

\* A backup recorded as completed has its dump on the node, unless the dump was
\* started twice (after a crash) and the abandoned one removed the file.
CompletedBackupHasDump ==
    "crash" \notin dbHarm =>
        \A b \in DbDumpIds : dbBackup[b] = "completed" => b \in dbNode.dumps

\* A tombstoned database is gone from the node, and was dumped before it was
\* dropped: the tombstone is the last step, whatever failed or came late.
DeletedIsDumped ==
    /\ dbRow.state = "deleted" /\ "crash" \notin dbHarm => 0 \in dbNode.dumps
    /\ dbRow.state = "deleted" => ~dbNode.db \/ dbHarm # {}

\* Every job ends its backup row: a row whose job has failed is not left running.
FailedJobFailsBackup ==
    \A b \in DbDumpIds :
        dbJob[<<"dump", b>>].state = "failed" /\ "crash" \notin dbHarm => dbBackup[b] = "failed"

\* The dumps are what the rows say (databases_worker.go, nodeagent/database.go):
\* completed backups have theirs, failed jobs end their rows, and a database is
\* dumped before it goes.
DumpsAreSound == DbTypeOK /\ CompletedBackupHasDump /\ DeletedIsDumped /\ FailedJobFailsBackup
=============================================================================
