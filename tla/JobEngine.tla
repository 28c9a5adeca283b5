----------------------------- MODULE JobEngine -----------------------------
(***************************************************************************)
(* The durable job engine: internal/jobs/jobs.go and engine.go, with the   *)
(* two other writers of the jobs table, the cancel endpoint of             *)
(* internal/controller/jobs.go and the retention sweep of                  *)
(* internal/cleanup/cleanup.go.                                            *)
(*                                                                         *)
(* Every SQL statement or transaction of the code is one atomic step, as   *)
(* PostgreSQL makes it, with one exception: the claim transaction is split *)
(* at its SELECT ... FOR UPDATE SKIP LOCKED, because two claims may both   *)
(* pass the lock check before either has inserted its lock rows.           *)
(*                                                                         *)
(* Time is counted in heartbeat periods.  lease_age[j] is the number of    *)
(* half lease TTLs since lease_expires_at was last written, so 2 means the *)
(* lease has expired.  due[j] says next_attempt_at <= now().               *)
(***************************************************************************)
EXTENDS Naturals, FiniteSets

CONSTANTS
    Jobs,         \* job ids
    Workers,      \* worker processes; an owner id is never used twice
    LockKeys,     \* resource names, as in "app:<id>"
    Steps,        \* step indexes declared by each job
    NoOne,        \* SQL NULL in lease_owner, job_id and idempotency_key
    JobLocks,     \* JobLocks[j]: the lock_keys j declares
    JobKey,       \* JobKey[j]: the (scope, key) pair of j, or NoOne
    JobPriority,  \* JobPriority[j]
    WorkerTypes,  \* WorkerTypes[w]: the jobs whose type w may claim
    AttemptBound, \* the largest max_attempts Enqueue accepts
    MaxAttempts,  \* MaxAttempts[j]
    MaxFaults,    \* bound: database calls of workers that may fail
    Timely        \* TRUE: a running heartbeat always fires before the expiry

ASSUME NoOneAssumption == NoOne \notin Jobs \cup Workers
ASSUME LocksAssumption == JobLocks \in [Jobs -> SUBSET LockKeys]
ASSUME PriorityAssumption == JobPriority \in [Jobs -> Nat]
ASSUME TypesAssumption == WorkerTypes \in [Workers -> SUBSET Jobs]
ASSUME BoundAssumption == AttemptBound \in Nat \ {0}
ASSUME AttemptsAssumption == MaxAttempts \in [Jobs -> 1..AttemptBound]
ASSUME FaultsAssumption == MaxFaults \in Nat
ASSUME TimelyAssumption == Timely \in BOOLEAN

VARIABLES
    \* The rows of jobs, job_resource_locks, job_attempts and job_steps.
    state, lease_owner, lease_age, due, attempt_count, cancel_requested,
    finished_at, locks, outcome, ran_by, steps,
    \* The workers: program counter, claimed job, attempt number in the
    \* in-memory copy of the job, heartbeat goroutine running, the lease's
    \* lost flag, cancellation seen by Checkpoint, the handler has called
    \* Complete, Fail or Cancel itself, the handler's result.
    pc, cur, att, beating, lost, saw_cancel, done, result,
    \* Number of failed database calls so far.
    faults

rows == <<state, lease_owner, lease_age, due, attempt_count, cancel_requested,
          finished_at, locks, outcome, ran_by, steps>>
procs == <<pc, cur, att, beating, lost, saw_cancel, done, result>>
vars == <<state, lease_owner, lease_age, due, attempt_count, cancel_requested,
          finished_at, locks, outcome, ran_by, steps,
          pc, cur, att, beating, lost, saw_cancel, done, result, faults>>

JobStates == {"absent", "queued", "leased", "running", "succeeded",
              "canceled", "dead_letter", "pruned"}
TerminalStates == {"succeeded", "failed", "canceled", "dead_letter"}
Outcomes == {"none", "leased", "succeeded", "failed", "lost_lease", "canceled"}
StepStates == {"pending", "running", "succeeded", "failed", "skipped"}
Results == {"nil", "error", "canceled", "lost"}
PCs == {"idle", "claiming", "reap", "claimed", "running", "finishing", "dead"}

Terminal(j) == state[j] \in TerminalStates
Active(j) == state[j] \in {"leased", "running"}
Stored(j) == state[j] \notin {"absent", "pruned"}
Executing(w) == pc[w] \in {"claimed", "running", "finishing"}

\* The row is locked by a claim transaction that has not committed yet.
RowLocked(j) == \E w \in Workers : pc[w] = "claiming" /\ cur[w] = j

\* execute is over, or the process: the Lease and its heartbeat are gone.
DropLease(w) ==
    /\ cur' = [cur EXCEPT ![w] = NoOne]
    /\ att' = [att EXCEPT ![w] = 0]
    /\ beating' = [beating EXCEPT ![w] = FALSE]
    /\ lost' = [lost EXCEPT ![w] = FALSE]
    /\ saw_cancel' = [saw_cancel EXCEPT ![w] = FALSE]
    /\ done' = [done EXCEPT ![w] = FALSE]
    /\ result' = [result EXCEPT ![w] = "nil"]

\* A database call of a worker fails.
Fault == /\ faults < MaxFaults
         /\ faults' = faults + 1

\* No attempt rows yet, and the declared steps all pending.
NoOutcomes == [n \in 1..AttemptBound |-> "none"]
NoAttempts == [n \in 1..AttemptBound |-> NoOne]
NewSteps == [i \in Steps |-> [st |-> "pending", by |-> 0]]

-----------------------------------------------------------------------------
Init ==
    /\ state = [j \in Jobs |-> "absent"]
    /\ lease_owner = [j \in Jobs |-> NoOne]
    /\ lease_age = [j \in Jobs |-> 0]
    /\ due = [j \in Jobs |-> TRUE]
    /\ attempt_count = [j \in Jobs |-> 0]
    /\ cancel_requested = [j \in Jobs |-> FALSE]
    /\ finished_at = [j \in Jobs |-> FALSE]
    /\ locks = [k \in LockKeys |-> NoOne]
    /\ outcome = [j \in Jobs |-> NoOutcomes]
    /\ ran_by = [j \in Jobs |-> NoAttempts]
    /\ steps = [j \in Jobs |-> NewSteps]
    /\ pc = [w \in Workers |-> "idle"]
    /\ cur = [w \in Workers |-> NoOne]
    /\ att = [w \in Workers |-> 0]
    /\ beating = [w \in Workers |-> FALSE]
    /\ lost = [w \in Workers |-> FALSE]
    /\ saw_cancel = [w \in Workers |-> FALSE]
    /\ done = [w \in Workers |-> FALSE]
    /\ result = [w \in Workers |-> "nil"]
    /\ faults = 0

\* jobs.Enqueue.  The unique index on (scope, key) refuses a second stored
\* job with the same key; the caller then gets the first one back.
Enqueue(j) ==
    /\ state[j] = "absent"
    /\ \A i \in Jobs : Stored(i) /\ JobKey[j] # NoOne => JobKey[i] # JobKey[j]
    /\ state' = [state EXCEPT ![j] = "queued"]
    /\ UNCHANGED <<lease_owner, lease_age, due, attempt_count, finished_at,
                   cancel_requested, locks, outcome, ran_by, steps, faults>>
    /\ UNCHANGED procs

-----------------------------------------------------------------------------
(* Claim *)

\* The WHERE clause of the candidate query, SKIP LOCKED included.
Claimable(w, j) ==
    /\ state[j] = "queued"
    /\ due[j]
    /\ j \in WorkerTypes[w]
    /\ \A k \in JobLocks[j] : locks[k] = NoOne
    /\ ~RowLocked(j)

\* The candidate query: ORDER BY priority DESC.  Ties are broken by times and
\* random ids, so any of the best candidates may come first.
ClaimSelect(w) ==
    /\ pc[w] = "idle"
    /\ \E j \in Jobs :
         /\ Claimable(w, j)
         /\ \A i \in Jobs : Claimable(w, i) => JobPriority[i] <= JobPriority[j]
         /\ cur' = [cur EXCEPT ![w] = j]
    /\ pc' = [pc EXCEPT ![w] = "claiming"]
    /\ UNCHANGED <<att, beating, lost, saw_cancel, done, result, faults>>
    /\ UNCHANGED rows

\* No candidate: drainOnce returns and Run goes on to reap expired leases.
ClaimIdle(w) ==
    /\ pc[w] = "idle"
    /\ \A j \in Jobs : ~Claimable(w, j)
    /\ pc' = [pc EXCEPT ![w] = "reap"]
    /\ UNCHANGED <<cur, att, beating, lost, saw_cancel, done, result, faults>>
    /\ UNCHANGED rows

\* The rest of the transaction: lease, attempt counter, lock rows, attempt
\* row.  execute then builds a fresh Lease and starts the heartbeat.
ClaimCommit(w) ==
    /\ pc[w] = "claiming"
    /\ LET j == cur[w]
           n == attempt_count[j] + 1
       IN  /\ \A k \in JobLocks[j] : locks[k] = NoOne
           /\ state' = [state EXCEPT ![j] = "leased"]
           /\ lease_owner' = [lease_owner EXCEPT ![j] = w]
           /\ lease_age' = [lease_age EXCEPT ![j] = 0]
           /\ attempt_count' = [attempt_count EXCEPT ![j] = n]
           /\ locks' = [k \in LockKeys |-> IF k \in JobLocks[j] THEN j ELSE locks[k]]
           /\ outcome' = [outcome EXCEPT ![j][n] = "leased"]
           /\ ran_by' = [ran_by EXCEPT ![j][n] = w]
           /\ att' = [att EXCEPT ![w] = n]
    /\ pc' = [pc EXCEPT ![w] = "claimed"]
    /\ beating' = [beating EXCEPT ![w] = TRUE]
    /\ UNCHANGED <<due, cancel_requested, finished_at, steps, cur, lost, saw_cancel,
                   done, result, faults>>

\* A unique violation on job_resource_locks (the lost race), or any error:
\* the transaction rolls back and the job stays queued.
ClaimAbort(w) ==
    /\ pc[w] = "claiming"
    /\ \/ /\ \E k \in JobLocks[cur[w]] : locks[k] # NoOne
          /\ UNCHANGED faults
       \/ Fault
    /\ pc' = [pc EXCEPT ![w] = "reap"]
    /\ cur' = [cur EXCEPT ![w] = NoOne]
    /\ UNCHANGED <<att, beating, lost, saw_cancel, done, result>>
    /\ UNCHANGED rows

-----------------------------------------------------------------------------
(* The lease *)

\* Mutant of Owned: the guard forgets lease_owner = $2.
OwnedByAnyone(w) == cur[w] \in Jobs /\ Active(cur[w])

\* WHERE id = $1 AND lease_owner = $2 AND state IN ('leased', 'running')
Owned(w) ==
    /\ cur[w] \in Jobs
    /\ lease_owner[cur[w]] = w
    /\ Active(cur[w])

\* One tick of the heartbeat goroutine: Renew.  When no row matches the lease
\* is marked lost and the goroutine returns.
HeartbeatRenew(w) ==
    /\ Executing(w) /\ beating[w]
    /\ \/ /\ Owned(w)
          /\ lease_age[cur[w]] > 0
          /\ lease_age' = [lease_age EXCEPT ![cur[w]] = 0]
          /\ UNCHANGED <<beating, lost>>
       \/ /\ ~Owned(w)
          /\ lost' = [lost EXCEPT ![w] = TRUE]
          /\ beating' = [beating EXCEPT ![w] = FALSE]
          /\ UNCHANGED lease_age
    /\ UNCHANGED <<state, lease_owner, due, attempt_count, cancel_requested,
                   finished_at, locks, outcome, ran_by, steps,
                   pc, cur, att, saw_cancel, done, result, faults>>

\* Renew fails for another reason: the goroutine logs and returns as well,
\* and the lease is not marked lost.
HeartbeatError(w) ==
    /\ Executing(w) /\ beating[w]
    /\ Owned(w) => lease_age[cur[w]] > 0
    /\ Fault
    /\ beating' = [beating EXCEPT ![w] = FALSE]
    /\ UNCHANGED <<pc, cur, att, lost, saw_cancel, done, result>>
    /\ UNCHANGED rows

\* execute calls MarkRunning before the handler; an error there is logged and
\* the handler runs all the same.
MarkRunning(w) ==
    /\ pc[w] = "claimed"
    /\ \/ /\ state' = IF Owned(w) /\ state[cur[w]] = "leased"
                      THEN [state EXCEPT ![cur[w]] = "running"] ELSE state
          /\ UNCHANGED faults
       \/ Fault /\ UNCHANGED state
    /\ pc' = [pc EXCEPT ![w] = "running"]
    /\ UNCHANGED <<lease_owner, lease_age, due, attempt_count, cancel_requested,
                   finished_at, locks, outcome, ran_by, steps,
                   cur, att, beating, lost, saw_cancel, done, result>>

\* No handler and no fallback for the type: execute fails the job.
NoHandler(w) ==
    /\ pc[w] = "claimed"
    /\ pc' = [pc EXCEPT ![w] = "finishing"]
    /\ result' = [result EXCEPT ![w] = "error"]
    /\ UNCHANGED <<cur, att, beating, lost, saw_cancel, done, faults>>
    /\ UNCHANGED rows

\* Lease.Checkpoint, called by the handler.
Checkpoint(w) ==
    /\ pc[w] = "running" /\ ~lost[w]
    /\ \/ /\ Owned(w)
          /\ lease_age' = [lease_age EXCEPT ![cur[w]] = 0]
          /\ saw_cancel' = [saw_cancel EXCEPT ![w] = cancel_requested[cur[w]]]
          /\ UNCHANGED lost
       \/ /\ ~Owned(w)
          /\ lost' = [lost EXCEPT ![w] = TRUE]
          /\ UNCHANGED <<lease_age, saw_cancel>>
    /\ UNCHANGED <<state, lease_owner, due, attempt_count, cancel_requested,
                   finished_at, locks, outcome, ran_by, steps,
                   pc, cur, att, beating, done, result, faults>>

\* StartStep, CompleteStep, FailStep and SkipStep.  by is the attempt that
\* wrote the row, which the code does not record.
StepWrite(w, i, s) ==
    /\ pc[w] = "running"
    /\ \/ /\ Owned(w)
          /\ steps' = [steps EXCEPT ![cur[w]][i] = [st |-> s, by |-> att[w]]]
          /\ UNCHANGED lost
       \/ /\ ~Owned(w)
          /\ lost' = [lost EXCEPT ![w] = TRUE]
          /\ UNCHANGED steps
    /\ UNCHANGED <<state, lease_owner, lease_age, due, attempt_count,
                   cancel_requested, finished_at, locks, outcome, ran_by,
                   pc, cur, att, beating, saw_cancel, done, result, faults>>

-----------------------------------------------------------------------------
(* Finishing *)

\* Mutants of ReleaseLocks: no DELETE at all, and a DELETE without its WHERE.
KeepLocks(S) == locks
ReleaseAllLocks(S) == [k \in LockKeys |-> NoOne]

\* releaseLocks: the job's lock rows go in the transaction that ends its lease.
ReleaseLocks(S) == [k \in LockKeys |-> IF locks[k] \in S THEN NoOne ELSE locks[k]]

\* Mutant of FinalizeAttempt: the attempt row is left open.
LeaveAttemptOpen(j, n, w, o) == outcome

\* finalizeAttempt: WHERE job_id = j AND attempt = n AND worker = w.
FinalizeAttempt(j, n, w, o) ==
    IF ran_by[j][n] = w THEN [outcome EXCEPT ![j][n] = o] ELSE outcome

\* Lease.finish with a terminal state, in one transaction.
Finish(w, s, o) ==
    LET j == cur[w]
    IN  /\ state' = [state EXCEPT ![j] = s]
        /\ lease_owner' = [lease_owner EXCEPT ![j] = NoOne]
        /\ lease_age' = [lease_age EXCEPT ![j] = 0]
        /\ finished_at' = [finished_at EXCEPT ![j] = TRUE]
        /\ locks' = ReleaseLocks({j})
        /\ outcome' = FinalizeAttempt(j, att[w], w, o)
        /\ UNCHANGED due

\* Mutant of Requeue: lease_owner is not cleared.
RequeueKeepsOwner(w) ==
    LET j == cur[w]
    IN  /\ state' = [state EXCEPT ![j] = "queued"]
        /\ lease_age' = [lease_age EXCEPT ![j] = 0]
        /\ due' = [due EXCEPT ![j] = FALSE]
        /\ locks' = ReleaseLocks({j})
        /\ outcome' = FinalizeAttempt(j, att[w], w, "failed")
        /\ UNCHANGED <<lease_owner, finished_at>>

\* Lease.requeue: back to the queue, not due until the backoff has elapsed.
Requeue(w) ==
    LET j == cur[w]
    IN  /\ state' = [state EXCEPT ![j] = "queued"]
        /\ lease_owner' = [lease_owner EXCEPT ![j] = NoOne]
        /\ lease_age' = [lease_age EXCEPT ![j] = 0]
        /\ due' = [due EXCEPT ![j] = FALSE]
        /\ locks' = ReleaseLocks({j})
        /\ outcome' = FinalizeAttempt(j, att[w], w, "failed")
        /\ UNCHANGED finished_at

\* Mutant of Conclude: one retry too many.
ConcludeOneMore(w, r) ==
    \/ r = "nil" /\ Finish(w, "succeeded", "succeeded")
    \/ r = "canceled" /\ Finish(w, "canceled", "canceled")
    \/ r = "error" /\ att[w] > MaxAttempts[cur[w]] /\ Finish(w, "dead_letter", "failed")
    \/ r = "error" /\ att[w] <= MaxAttempts[cur[w]] /\ Requeue(w)
\* What Complete, Fail and Cancel write, decided on the in-memory attempt.
Conclude(w, r) ==
    \/ r = "nil" /\ Finish(w, "succeeded", "succeeded")
    \/ r = "canceled" /\ Finish(w, "canceled", "canceled")
    \/ r = "error" /\ att[w] >= MaxAttempts[cur[w]] /\ Finish(w, "dead_letter", "failed")
    \/ r = "error" /\ att[w] < MaxAttempts[cur[w]] /\ Requeue(w)

\* Mutant of FinishCall: the update is not guarded by the lease.
FinishUnguarded(w, r) ==
    \/ Conclude(w, r) /\ UNCHANGED faults
    \/ /\ Fault
       /\ UNCHANGED <<state, lease_owner, lease_age, due, finished_at, locks, outcome>>

\* A call of Complete, Fail or Cancel: the guarded update, or no row matches,
\* or a database error that leaves the rows alone.
FinishCall(w, r) ==
    \/ Owned(w) /\ Conclude(w, r) /\ UNCHANGED faults
    \/ /\ \/ ~Owned(w) /\ UNCHANGED faults
          \/ Fault
       /\ UNCHANGED <<state, lease_owner, lease_age, due, finished_at, locks, outcome>>

\* The handler itself calls Complete, Fail or Cancel, as every handler of the
\* controller does before it returns.
HandlerFinish(w, r) ==
    /\ pc[w] = "running" /\ ~done[w]
    /\ r = "canceled" => saw_cancel[w]
    /\ FinishCall(w, r)
    /\ lost' = [lost EXCEPT ![w] = @ \/ ~Owned(w)]
    /\ done' = [done EXCEPT ![w] = TRUE]
    /\ UNCHANGED <<attempt_count, cancel_requested, ran_by, steps,
                   pc, cur, att, beating, saw_cancel, result>>

\* The handler returns (a panic is recovered into an error).  ErrCanceled
\* answers a checkpoint that saw the request, ErrLeaseLost one that missed.
HandlerReturn(w, r) ==
    /\ pc[w] = "running"
    /\ r = "canceled" => saw_cancel[w]
    /\ r = "lost" => lost[w]
    /\ pc' = [pc EXCEPT ![w] = "finishing"]
    /\ result' = [result EXCEPT ![w] = r]
    /\ UNCHANGED <<cur, att, beating, lost, saw_cancel, done, faults>>
    /\ UNCHANGED rows

\* The end of execute: abandon a lost job, or conclude on the result.
ExecuteFinish(w) ==
    /\ pc[w] = "finishing"
    /\ \/ /\ lost[w] \/ result[w] = "lost"
          /\ UNCHANGED <<state, lease_owner, lease_age, due, finished_at, locks,
                         outcome, faults>>
       \/ /\ ~lost[w] /\ result[w] # "lost"
          /\ FinishCall(w, result[w])
    /\ pc' = [pc EXCEPT ![w] = "idle"]
    /\ DropLease(w)
    /\ UNCHANGED <<attempt_count, cancel_requested, ran_by, steps>>

-----------------------------------------------------------------------------
(* Recovery, cancellation, retention, time and crashes *)

\* Mutant of Expired: blind to leased jobs.
ExpiredRunningOnly(j) == state[j] = "running" /\ lease_age[j] = 2

Expired(j) == Active(j) /\ lease_age[j] = 2

\* ReclaimExpiredLeases: one transaction over every expired row.
ReclaimExpiredLeases(w) ==
    /\ pc[w] = "reap"
    /\ LET S == {j \in Jobs : Expired(j)}
       IN  /\ state' = [j \in Jobs |->
                IF j \notin S THEN state[j]
                ELSE IF attempt_count[j] >= MaxAttempts[j] THEN "dead_letter" ELSE "queued"]
           /\ finished_at' = [j \in Jobs |->
                finished_at[j] \/ (j \in S /\ attempt_count[j] >= MaxAttempts[j])]
           /\ due' = [j \in Jobs |-> due[j] /\ ~(j \in S /\ attempt_count[j] < MaxAttempts[j])]
           /\ lease_owner' = [j \in Jobs |-> IF j \in S THEN NoOne ELSE lease_owner[j]]
           /\ lease_age' = [j \in Jobs |-> IF j \in S THEN 0 ELSE lease_age[j]]
           /\ locks' = ReleaseLocks(S)
           /\ outcome' = [j \in Jobs |->
                IF j \in S
                THEN FinalizeAttempt(j, attempt_count[j], lease_owner[j], "lost_lease")[j]
                ELSE outcome[j]]
    /\ pc' = [pc EXCEPT ![w] = "idle"]
    /\ UNCHANGED <<attempt_count, cancel_requested, ran_by, steps, cur,
                   att, beating, lost, saw_cancel, done, result, faults>>

\* jobs.RequestCancel: a queued job is canceled at once, a claimed one only
\* gets the flag.
RequestCancel(j) ==
    /\ Stored(j) /\ ~Terminal(j) /\ ~RowLocked(j)
    /\ cancel_requested' = [cancel_requested EXCEPT ![j] = TRUE]
    /\ IF state[j] = "queued"
       THEN /\ state' = [state EXCEPT ![j] = "canceled"]
            /\ finished_at' = [finished_at EXCEPT ![j] = TRUE]
       ELSE UNCHANGED <<state, finished_at>>
    /\ UNCHANGED <<lease_owner, lease_age, due, attempt_count, locks, outcome,
                   ran_by, steps, faults>>
    /\ UNCHANGED procs

\* The cancel endpoint's own statement: as RequestCancel, without finished_at.
HandleCancelJob(j) ==
    /\ Stored(j) /\ ~Terminal(j) /\ ~RowLocked(j)
    /\ cancel_requested' = [cancel_requested EXCEPT ![j] = TRUE]
    /\ state' = IF state[j] = "queued" THEN [state EXCEPT ![j] = "canceled"] ELSE state
    /\ UNCHANGED <<lease_owner, lease_age, due, attempt_count, finished_at, locks,
                   outcome, ran_by, steps, faults>>
    /\ UNCHANGED procs

\* The rows cleanup.PruneOldJobs deletes once they are older than the
\* retention; its list names 'cancelled', which is not a job state.
Prunable(j) == state[j] \in {"succeeded", "failed", "cancelled"} /\ finished_at[j]

\* The attempt and step rows go with the job (ON DELETE CASCADE).
PruneOldJobs ==
    /\ \E S \in (SUBSET {j \in Jobs : Prunable(j)}) \ {{}} :
         /\ state' = [j \in Jobs |-> IF j \in S THEN "pruned" ELSE state[j]]
         /\ attempt_count' = [j \in Jobs |-> IF j \in S THEN 0 ELSE attempt_count[j]]
         /\ outcome' = [j \in Jobs |-> IF j \in S THEN NoOutcomes ELSE outcome[j]]
         /\ ran_by' = [j \in Jobs |-> IF j \in S THEN NoAttempts ELSE ran_by[j]]
         /\ steps' = [j \in Jobs |-> IF j \in S THEN NewSteps ELSE steps[j]]
         /\ due' = [j \in Jobs |-> j \in S \/ due[j]]
         /\ cancel_requested' = [j \in Jobs |-> j \notin S /\ cancel_requested[j]]
         /\ finished_at' = [j \in Jobs |-> j \notin S /\ finished_at[j]]
    /\ UNCHANGED <<lease_owner, lease_age, locks, faults>>
    /\ UNCHANGED procs

\* The retry backoff of a queued job has elapsed.
BackoffElapses(j) ==
    /\ state[j] = "queued" /\ ~due[j]
    /\ due' = [due EXCEPT ![j] = TRUE]
    /\ UNCHANGED <<state, lease_owner, lease_age, attempt_count, cancel_requested,
                   finished_at, locks, outcome, ran_by, steps, faults>>
    /\ UNCHANGED procs

\* Half a lease TTL passes since the last renewal.
PeriodElapses(j) ==
    /\ Active(j) /\ lease_age[j] < 2
    /\ Timely /\ lease_age[j] = 1 =>
         \A w \in Workers : Executing(w) /\ Owned(w) /\ cur[w] = j => ~beating[w]
    /\ lease_age' = [lease_age EXCEPT ![j] = @ + 1]
    /\ UNCHANGED <<state, lease_owner, due, attempt_count, cancel_requested,
                   finished_at, locks, outcome, ran_by, steps, faults>>
    /\ UNCHANGED procs

\* The process dies, or its context is canceled by a shutdown, so that none
\* of its later statements reaches the database.  A replacement has a new
\* owner id: it is one of the other members of Workers.
Crash(w) ==
    /\ pc[w] # "dead"
    /\ \E v \in Workers \ {w} : pc[v] # "dead"
    /\ pc' = [pc EXCEPT ![w] = "dead"]
    /\ DropLease(w)
    /\ UNCHANGED faults
    /\ UNCHANGED rows

-----------------------------------------------------------------------------
\* What w's goroutine does outside the handler.
WorkerLoop(w) ==
    \/ ClaimSelect(w) \/ ClaimIdle(w) \/ ClaimCommit(w) \/ ClaimAbort(w)
    \/ MarkRunning(w) \/ NoHandler(w) \/ ExecuteFinish(w)
    \/ ReclaimExpiredLeases(w)

HandlerStep(w) ==
    \/ Checkpoint(w)
    \/ \E i \in Steps, s \in StepStates \ {"pending"} : StepWrite(w, i, s)
    \/ \E r \in {"nil", "error", "canceled"} : HandlerFinish(w, r)

HandlerReturns(w) == \E r \in Results : HandlerReturn(w, r)

JobEvent(j) ==
    \/ Enqueue(j) \/ RequestCancel(j) \/ HandleCancelJob(j)
    \/ BackoffElapses(j) \/ PeriodElapses(j)

WorkerEvent(w) ==
    \/ WorkerLoop(w) \/ HandlerStep(w) \/ HandlerReturns(w)
    \/ HeartbeatRenew(w) \/ HeartbeatError(w) \/ Crash(w)

Next ==
    \/ \E j \in Jobs : JobEvent(j)
    \/ \E w \in Workers : WorkerEvent(w)
    \/ PruneOldJobs

Spec == Init /\ [][Next]_vars

\* A goroutine that can go on goes on, a handler returns (every call it makes
\* has a timeout), time passes, and the retention sweep runs every hour.
Fairness ==
    /\ \A w \in Workers : WF_vars(WorkerLoop(w)) /\ WF_vars(HandlerReturns(w))
    /\ \A j \in Jobs : WF_vars(BackoffElapses(j)) /\ WF_vars(PeriodElapses(j))
    /\ WF_vars(PruneOldJobs)

FairSpec == Spec /\ Fairness

-----------------------------------------------------------------------------
(* Properties *)

\* Every row and every worker variable has its type.
TypeOK ==
    /\ state \in [Jobs -> JobStates]
    /\ lease_owner \in [Jobs -> Workers \cup {NoOne}]
    /\ lease_age \in [Jobs -> {0, 1, 2}]
    /\ due \in [Jobs -> BOOLEAN]
    /\ attempt_count \in [Jobs -> 0..AttemptBound]
    /\ cancel_requested \in [Jobs -> BOOLEAN]
    /\ finished_at \in [Jobs -> BOOLEAN]
    /\ locks \in [LockKeys -> Jobs \cup {NoOne}]
    /\ outcome \in [Jobs -> [1..AttemptBound -> Outcomes]]
    /\ ran_by \in [Jobs -> [1..AttemptBound -> Workers \cup {NoOne}]]
    /\ steps \in [Jobs -> [Steps -> [st : StepStates, by : 0..AttemptBound]]]
    /\ pc \in [Workers -> PCs]
    /\ cur \in [Workers -> Jobs \cup {NoOne}]
    /\ att \in [Workers -> 0..AttemptBound]
    /\ beating \in [Workers -> BOOLEAN]
    /\ lost \in [Workers -> BOOLEAN]
    /\ saw_cancel \in [Workers -> BOOLEAN]
    /\ done \in [Workers -> BOOLEAN]
    /\ result \in [Workers -> Results]
    /\ faults \in 0..MaxFaults

\* The rows of job_resource_locks are exactly the declared keys of the leased
\* and running jobs: no job runs without a lock it declared, and no lock
\* outlives the lease it was taken under, whatever crashes or loses a race.
LockRowsExact ==
    \A k \in LockKeys, j \in Jobs :
        locks[k] = j <=> Active(j) /\ k \in JobLocks[j]

\* Per-resource exclusion: no two leased or running jobs declare one key.
ResourceExclusion ==
    \A i, j \in Jobs :
        i # j /\ Active(i) /\ Active(j) => JobLocks[i] \cap JobLocks[j] = {}

\* The lock table can be trusted: whatever Claim, finish, requeue and reclaim do
\* at the same time, its rows are the leases and no resource has two.
LocksSound == TypeOK /\ LockRowsExact /\ ResourceExclusion

\* A job has an owner exactly while it is leased or running, and a worker that
\* passes the ownership guard is under the row's current attempt.  The guards
\* compare the owner only; this is why they fence off stale attempts too.
LeaseFencesAttempt ==
    /\ \A j \in Jobs : Active(j) <=> lease_owner[j] # NoOne
    /\ \A w \in Workers :
         Executing(w) /\ Owned(w) => att[w] = attempt_count[cur[w]]

\* The attempts of one job: one row per attempt, the last one open exactly
\* while the job is leased or running, every earlier one closed as failed or
\* lost_lease, and a success or a dead letter agrees with the last row.
History(j) ==
    LET n == attempt_count[j]
    IN  /\ \A m \in 1..AttemptBound :
             /\ m > n => outcome[j][m] = "none"
             /\ m < n => outcome[j][m] \in {"failed", "lost_lease"}
        /\ Active(j) => /\ n > 0
                        /\ outcome[j][n] = "leased"
                        /\ ran_by[j][n] = lease_owner[j]
        /\ ~Active(j) /\ n > 0 => outcome[j][n] # "leased"
        /\ state[j] = "succeeded" => n > 0 /\ outcome[j][n] = "succeeded"
        /\ state[j] = "dead_letter" =>
             n = MaxAttempts[j] /\ outcome[j][n] \in {"failed", "lost_lease"}
        /\ state[j] = "queued" =>
             /\ n < MaxAttempts[j]
             /\ n > 0 => outcome[j][n] \in {"failed", "lost_lease"}

\* The attempt history of every job is complete and truthful, whichever of
\* worker, reaper or canceling user closed an attempt.
AttemptHistory == \A j \in Jobs : History(j)

\* Terminal is final: after a terminal state no late writer (a stale worker, a
\* reclaim, a cancel) changes the state, the attempts or the history; the row
\* can only be deleted.
TerminalIsFinal ==
    [][\A j \in Jobs : Terminal(j) =>
         \/ state'[j] = "pruned"
         \/ /\ state'[j] = state[j]
            /\ attempt_count'[j] = attempt_count[j]
            /\ outcome'[j] = outcome[j]]_vars

\* A worker that lost its lease never overwrites a step row written by a later
\* attempt, however late its StartStep, CompleteStep or FailStep arrives.
StepsNeverRegress ==
    [][\A j \in Jobs, i \in Steps :
         state'[j] = "pruned" \/ steps'[j][i].by >= steps[j][i].by]_vars

\* Two live handlers never work on one resource, or on one job, at once, as long
\* as no database call fails.
HandlersExclude ==
    faults = 0 => \A v, w \in Workers :
        /\ v # w
        /\ pc[v] = "running" /\ ~done[v]
        /\ pc[w] = "running" /\ ~done[w]
        => cur[v] # cur[w] /\ JobLocks[cur[v]] \cap JobLocks[cur[w]] = {}

\* No job is ever lost: a stored job reaches a terminal state, through worker
\* crashes, lost leases and lost races.
JobsFinish == \A j \in Jobs : Stored(j) ~> (Terminal(j) \/ state[j] = "pruned")

\* The engine seen by its callers: claimed and running jobs are active.
Bar(s) == IF s = "queued" THEN "waiting"
          ELSE IF s \in {"leased", "running"} THEN "active" ELSE s

statusBar == [j \in Jobs |-> Bar(state[j])]

Queue == INSTANCE JobQueue WITH status <- statusBar, tries <- attempt_count

\* The engine implements the abstract queue: retries are bounded, attempts of
\* jobs that share a resource never overlap, and a job ends once.
ImplementsQueue == Queue!Spec
=============================================================================
