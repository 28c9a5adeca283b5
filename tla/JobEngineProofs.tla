-------------------------- MODULE JobEngineProofs --------------------------
(***************************************************************************)
(* Safety of the job engine for every number of jobs, workers, resources   *)
(* and attempts.  The inductive invariant IInv adds to the properties of   *)
(* JobEngine what a claim transaction in flight relies on (its row is      *)
(* queued and locked by no other claim) and that a step row never records  *)
(* an attempt that has not started.                                        *)
(***************************************************************************)
EXTENDS JobEngine, TLAPS

\* A worker has a job exactly from its candidate query to the end of execute;
\* the candidate stays queued, and no other claim has selected it.
ClaimsHoldRow ==
    /\ \A w \in Workers :
         /\ pc[w] = "claiming" \/ Executing(w) => cur[w] \in Jobs
         /\ pc[w] = "claiming" => state[cur[w]] = "queued"
    /\ \A v, w \in Workers :
         v # w /\ pc[v] = "claiming" /\ pc[w] = "claiming" => cur[v] # cur[w]

\* A row that was never enqueued has no attempts, no job has more attempts than
\* it may, and no step row was written by an attempt after the current one.
RowsBounded ==
    \A j \in Jobs :
        /\ state[j] = "absent" => attempt_count[j] = 0
        /\ attempt_count[j] <= MaxAttempts[j]
        /\ \A i \in Steps : steps[j][i].by <= attempt_count[j]

IInv == /\ TypeOK
        /\ ClaimsHoldRow
        /\ LockRowsExact
        /\ LeaseFencesAttempt
        /\ AttemptHistory
        /\ RowsBounded

USE DEF JobStates, TerminalStates, Outcomes, StepStates, Results, PCs

LEMMA InitType == Init => TypeOK
  BY NoOneAssumption, BoundAssumption, FaultsAssumption
  DEF Init, TypeOK, NoOutcomes, NoAttempts, NewSteps

LEMMA InitIInv == Init => IInv
<1> SUFFICES ASSUME Init PROVE IInv
  OBVIOUS
<1>1. TypeOK
  BY InitType
<1>2. ClaimsHoldRow
  BY DEF Init, ClaimsHoldRow, Executing
<1>3. LockRowsExact
  BY NoOneAssumption DEF Init, LockRowsExact, Active
<1>4. LeaseFencesAttempt
  BY DEF Init, LeaseFencesAttempt, Active, Executing
<1>5. AttemptHistory
  BY AttemptsAssumption, BoundAssumption
  DEF Init, AttemptHistory, History, Active, NoOutcomes, NoAttempts
<1>6. RowsBounded
  BY AttemptsAssumption, BoundAssumption DEF Init, RowsBounded, NewSteps
<1> QED BY <1>1, <1>2, <1>3, <1>4, <1>5, <1>6 DEF IInv

\* What a worker concludes with keeps the types.
LEMMA FinishCallType ==
  ASSUME IInv, NEW w \in Workers, Executing(w), NEW r \in {"nil", "error", "canceled"},
         FinishCall(w, r)
  PROVE  /\ state' \in [Jobs -> JobStates]
         /\ lease_owner' \in [Jobs -> Workers \cup {NoOne}]
         /\ lease_age' \in [Jobs -> {0, 1, 2}]
         /\ due' \in [Jobs -> BOOLEAN]
         /\ finished_at' \in [Jobs -> BOOLEAN]
         /\ locks' \in [LockKeys -> Jobs \cup {NoOne}]
         /\ outcome' \in [Jobs -> [1..AttemptBound -> Outcomes]]
         /\ faults' \in 0..MaxFaults
<1> USE DEF IInv, TypeOK
<1>1. ASSUME Owned(w), Conclude(w, r), UNCHANGED faults
      PROVE  /\ state' \in [Jobs -> JobStates]
             /\ lease_owner' \in [Jobs -> Workers \cup {NoOne}]
             /\ lease_age' \in [Jobs -> {0, 1, 2}]
             /\ due' \in [Jobs -> BOOLEAN]
             /\ finished_at' \in [Jobs -> BOOLEAN]
             /\ locks' \in [LockKeys -> Jobs \cup {NoOne}]
             /\ outcome' \in [Jobs -> [1..AttemptBound -> Outcomes]]
  <2>1. locks' \in [LockKeys -> Jobs \cup {NoOne}]
    BY <1>1 DEF Conclude, Finish, Requeue, ReleaseLocks
  <2>2. outcome' \in [Jobs -> [1..AttemptBound -> Outcomes]]
    <3>1. PICK o \in Outcomes : outcome' = FinalizeAttempt(cur[w], att[w], w, o)
      BY <1>1 DEF Conclude, Finish, Requeue
    <3> QED BY <3>1 DEF FinalizeAttempt
  <2>3. PICK s \in JobStates :
          /\ state' = [state EXCEPT ![cur[w]] = s]
          /\ lease_owner' = [lease_owner EXCEPT ![cur[w]] = NoOne]
          /\ lease_age' = [lease_age EXCEPT ![cur[w]] = 0]
    BY <1>1 DEF Conclude, Finish, Requeue
  <2>4. /\ due' \in [Jobs -> BOOLEAN]
        /\ finished_at' \in [Jobs -> BOOLEAN]
    BY <1>1 DEF Conclude, Finish, Requeue
  <2>5. state' \in [Jobs -> JobStates]
    BY <2>3
  <2>6. lease_owner' \in [Jobs -> Workers \cup {NoOne}]
    BY <2>3
  <2>7. lease_age' \in [Jobs -> {0, 1, 2}]
    BY <2>3
  <2> HIDE DEF IInv, TypeOK
  <2> QED BY <2>1, <2>2, <2>4, <2>5, <2>6, <2>7
<1>2. CASE UNCHANGED <<state, lease_owner, lease_age, due, finished_at, locks, outcome>>
           /\ (UNCHANGED faults \/ Fault)
  BY <1>2, FaultsAssumption DEF Fault
<1> QED BY <1>1, <1>2 DEF FinishCall

LEMMA NextType == IInv /\ [Next]_vars => TypeOK'
<1> SUFFICES ASSUME IInv, [Next]_vars PROVE TypeOK'
  OBVIOUS
<1> USE NoOneAssumption, BoundAssumption, AttemptsAssumption, FaultsAssumption DEF IInv, TypeOK
<1>1. ASSUME NEW j \in Jobs, JobEvent(j) PROVE TypeOK'
  <2>1. CASE Enqueue(j)
    BY <2>1 DEF Enqueue, procs
  <2>2. CASE RequestCancel(j)
    BY ZenonT(60), <2>2 DEF RequestCancel, procs
  <2>3. CASE HandleCancelJob(j)
    BY <2>3 DEF HandleCancelJob, procs
  <2>4. CASE BackoffElapses(j)
    BY <2>4 DEF BackoffElapses, procs
  <2>5. CASE PeriodElapses(j)
    <3>1. lease_age' \in [Jobs -> {0, 1, 2}]
      <4>1. /\ lease_age \in [Jobs -> {0, 1, 2}]
            /\ lease_age[j] < 2
            /\ lease_age' = [lease_age EXCEPT ![j] = lease_age[j] + 1]
        BY <2>5 DEF PeriodElapses
      <4> HIDE DEF IInv, TypeOK
      <4> QED BY <4>1
    <3> QED BY <2>5, <3>1 DEF PeriodElapses, procs
  <2> QED BY <1>1, <2>1, <2>2, <2>3, <2>4, <2>5 DEF JobEvent
<1>2. ASSUME NEW w \in Workers, WorkerLoop(w) PROVE TypeOK'
  <2>1. CASE ClaimSelect(w)
    BY <2>1 DEF ClaimSelect, rows
  <2>2. CASE ClaimIdle(w)
    BY <2>2 DEF ClaimIdle, rows
  <2>3. CASE ClaimCommit(w)
    <3>1. /\ cur[w] \in Jobs
          /\ attempt_count[cur[w]] + 1 \in 1..AttemptBound
      BY <2>3 DEF ClaimCommit, ClaimsHoldRow, AttemptHistory, History
    <3> QED BY <2>3, <3>1 DEF ClaimCommit
  <2>4. CASE ClaimAbort(w)
    BY <2>4 DEF ClaimAbort, Fault, rows
  <2>5. CASE MarkRunning(w)
    <3>1. state' \in [Jobs -> JobStates]
      <4>1. CASE UNCHANGED state
        BY <4>1
      <4>2. CASE state' = [state EXCEPT ![cur[w]] = "running"]
        BY <4>2
      <4> QED BY <2>5, <4>1, <4>2 DEF MarkRunning
    <3>2. faults' \in 0..MaxFaults
      BY <2>5 DEF MarkRunning, Fault
    <3> QED BY <2>5, <3>1, <3>2 DEF MarkRunning
  <2>6. CASE NoHandler(w)
    BY <2>6 DEF NoHandler, rows
  <2>7. CASE ExecuteFinish(w)
    <3>1. CASE ~lost[w] /\ result[w] # "lost" /\ FinishCall(w, result[w])
      <4>1. /\ Executing(w)
            /\ result[w] \in {"nil", "error", "canceled"}
        BY <2>7, <3>1 DEF ExecuteFinish, Executing
      <4>2. /\ pc' \in [Workers -> PCs]
            /\ cur' \in [Workers -> Jobs \cup {NoOne}]
            /\ att' \in [Workers -> 0..AttemptBound]
            /\ beating' \in [Workers -> BOOLEAN]
            /\ lost' \in [Workers -> BOOLEAN]
            /\ saw_cancel' \in [Workers -> BOOLEAN]
            /\ done' \in [Workers -> BOOLEAN]
            /\ result' \in [Workers -> Results]
        BY <2>7 DEF ExecuteFinish, DropLease
      <4>3. UNCHANGED <<attempt_count, cancel_requested, ran_by, steps>>
        BY <2>7 DEF ExecuteFinish
      <4> HIDE DEF IInv
      <4>4. /\ state' \in [Jobs -> JobStates]
            /\ lease_owner' \in [Jobs -> Workers \cup {NoOne}]
            /\ lease_age' \in [Jobs -> {0, 1, 2}]
            /\ due' \in [Jobs -> BOOLEAN]
            /\ finished_at' \in [Jobs -> BOOLEAN]
            /\ locks' \in [LockKeys -> Jobs \cup {NoOne}]
            /\ outcome' \in [Jobs -> [1..AttemptBound -> Outcomes]]
            /\ faults' \in 0..MaxFaults
        BY <3>1, <4>1, FinishCallType
      <4> QED BY <4>2, <4>3, <4>4 DEF IInv
    <3>2. CASE lost[w] \/ result[w] = "lost"
      BY <2>7, <3>2 DEF ExecuteFinish, DropLease
    <3> QED BY <2>7, <3>1, <3>2 DEF ExecuteFinish
  <2>8. CASE ReclaimExpiredLeases(w)
    <3>1. locks' \in [LockKeys -> Jobs \cup {NoOne}]
      BY <2>8 DEF ReclaimExpiredLeases, ReleaseLocks
    <3>2. outcome' \in [Jobs -> [1..AttemptBound -> Outcomes]]
      BY <2>8 DEF ReclaimExpiredLeases, FinalizeAttempt
    <3> QED BY <2>8, <3>1, <3>2 DEF ReclaimExpiredLeases
  <2> QED BY <1>2, <2>1, <2>2, <2>3, <2>4, <2>5, <2>6, <2>7, <2>8 DEF WorkerLoop
<1>3. ASSUME NEW w \in Workers, HandlerStep(w) PROVE TypeOK'
  <2>1. CASE Checkpoint(w)
    <3>1. lease_age' \in [Jobs -> {0, 1, 2}]
      BY <2>1 DEF Checkpoint
    <3>2. saw_cancel' \in [Workers -> BOOLEAN]
      <4>1. CASE UNCHANGED saw_cancel
        BY <4>1
      <4>2. CASE /\ Owned(w)
                 /\ saw_cancel' = [saw_cancel EXCEPT ![w] = cancel_requested[cur[w]]]
        <5>1. cancel_requested[cur[w]] \in BOOLEAN
          BY <4>2 DEF Owned
        <5> QED BY <4>2, <5>1
      <4> QED BY <2>1, <4>1, <4>2 DEF Checkpoint
    <3>3. lost' \in [Workers -> BOOLEAN]
      BY <2>1 DEF Checkpoint
    <3> QED BY <2>1, <3>1, <3>2, <3>3 DEF Checkpoint
  <2>2. ASSUME NEW i \in Steps, NEW s \in StepStates, StepWrite(w, i, s) PROVE TypeOK'
    <3>1. lost' \in [Workers -> BOOLEAN]
      BY <2>2 DEF StepWrite
    <3>2. steps' \in [Jobs -> [Steps -> [st : StepStates, by : 0..AttemptBound]]]
      <4>1. CASE UNCHANGED steps
        BY <4>1
      <4>2. CASE steps' = [steps EXCEPT ![cur[w]][i] = [st |-> s, by |-> att[w]]]
        BY <4>2
      <4> QED BY <2>2, <4>1, <4>2 DEF StepWrite
    <3> QED BY <2>2, <3>1, <3>2 DEF StepWrite
  <2>3. ASSUME NEW r \in {"nil", "error", "canceled"}, HandlerFinish(w, r) PROVE TypeOK'
    <3>1. Executing(w)
      BY <2>3 DEF HandlerFinish, Executing
    <3>2. FinishCall(w, r)
      BY <2>3 DEF HandlerFinish
    <3>3. /\ lost' \in [Workers -> BOOLEAN]
          /\ done' \in [Workers -> BOOLEAN]
      BY <2>3 DEF HandlerFinish
    <3>4. UNCHANGED <<attempt_count, cancel_requested, ran_by, steps,
                      pc, cur, att, beating, saw_cancel, result>>
      BY <2>3 DEF HandlerFinish
    <3> HIDE DEF IInv
    <3>5. /\ state' \in [Jobs -> JobStates]
          /\ lease_owner' \in [Jobs -> Workers \cup {NoOne}]
          /\ lease_age' \in [Jobs -> {0, 1, 2}]
          /\ due' \in [Jobs -> BOOLEAN]
          /\ finished_at' \in [Jobs -> BOOLEAN]
          /\ locks' \in [LockKeys -> Jobs \cup {NoOne}]
          /\ outcome' \in [Jobs -> [1..AttemptBound -> Outcomes]]
          /\ faults' \in 0..MaxFaults
      BY <3>1, <3>2, FinishCallType
    <3> QED BY <3>3, <3>4, <3>5 DEF IInv
  <2> HIDE DEF IInv, TypeOK
  <2> QED BY <1>3, <2>1, <2>2, <2>3 DEF HandlerStep
<1>4. ASSUME NEW w \in Workers, HandlerReturns(w) PROVE TypeOK'
  BY <1>4 DEF HandlerReturns, HandlerReturn, rows
<1>5. ASSUME NEW w \in Workers, HeartbeatRenew(w) \/ HeartbeatError(w) \/ Crash(w)
      PROVE  TypeOK'
  <2>1. CASE HeartbeatRenew(w)
    <3>1. lease_age' \in [Jobs -> {0, 1, 2}]
      BY <2>1 DEF HeartbeatRenew
    <3>2. /\ beating' \in [Workers -> BOOLEAN]
          /\ lost' \in [Workers -> BOOLEAN]
      BY ZenonT(60), <2>1 DEF HeartbeatRenew
    <3> QED BY <2>1, <3>1, <3>2 DEF HeartbeatRenew
  <2>2. CASE HeartbeatError(w)
    BY <2>2 DEF HeartbeatError, Fault, rows
  <2>3. CASE Crash(w)
    BY <2>3 DEF Crash, DropLease, rows
  <2> QED BY <1>5, <2>1, <2>2, <2>3
<1>6. CASE PruneOldJobs
  BY <1>6 DEF PruneOldJobs, NoOutcomes, NoAttempts, NewSteps, procs
<1>7. CASE UNCHANGED vars
  BY <1>7 DEF vars
<1> QED BY <1>1, <1>2, <1>3, <1>4, <1>5, <1>6, <1>7 DEF Next, WorkerEvent

-----------------------------------------------------------------------------
(* What the steps do to the rows that the invariant is about.              *)

\* The step changes no lease, lock or attempt; a leased job may be running.
RowsQuiet ==
    /\ UNCHANGED <<lease_owner, attempt_count, locks, outcome, ran_by>>
    /\ \A j \in Jobs :
         state'[j] = state[j] \/ (state[j] = "leased" /\ state'[j] = "running")

\* The owner w ends the lease of its job, leaving it in state s.
LeaseEnds(w, s, o) ==
    /\ Owned(w)
    /\ att[w] = attempt_count[cur[w]]
    /\ state' = [state EXCEPT ![cur[w]] = s]
    /\ lease_owner' = [lease_owner EXCEPT ![cur[w]] = NoOne]
    /\ locks' = ReleaseLocks({cur[w]})
    /\ outcome' = [outcome EXCEPT ![cur[w]][attempt_count[cur[w]]] = o]
    /\ UNCHANGED <<attempt_count, ran_by>>
    /\ \/ s = "succeeded" /\ o = "succeeded"
       \/ s = "canceled" /\ o = "canceled"
       \/ s = "dead_letter" /\ o = "failed" /\ att[w] = MaxAttempts[cur[w]]
       \/ s = "queued" /\ o = "failed" /\ att[w] < MaxAttempts[cur[w]]

LEMMA FinishCallEnds ==
  ASSUME IInv, NEW w \in Workers, Executing(w), NEW r \in {"nil", "error", "canceled"},
         FinishCall(w, r), UNCHANGED <<attempt_count, ran_by>>
  PROVE  RowsQuiet \/ \E s \in JobStates, o \in Outcomes : LeaseEnds(w, s, o)
<1>1. CASE UNCHANGED <<state, lease_owner, locks, outcome>>
  BY <1>1 DEF RowsQuiet
<1>2. CASE Owned(w) /\ Conclude(w, r)
  <2>1. /\ cur[w] \in Jobs
        /\ att[w] = attempt_count[cur[w]]
        /\ ran_by[cur[w]][att[w]] = w
        /\ att[w] <= MaxAttempts[cur[w]]
    BY <1>2 DEF IInv, LeaseFencesAttempt, AttemptHistory, History, RowsBounded,
                Owned
  <2>2. \A o : FinalizeAttempt(cur[w], att[w], w, o)
                 = [outcome EXCEPT ![cur[w]][attempt_count[cur[w]]] = o]
    BY <2>1 DEF FinalizeAttempt
  <2>3. /\ att[w] \in Nat
        /\ MaxAttempts[cur[w]] \in Nat
    BY <2>1, AttemptsAssumption DEF IInv, TypeOK
  <2>4. CASE r = "nil"
    <3>1. LeaseEnds(w, "succeeded", "succeeded")
      BY <1>2, <2>1, <2>2, <2>4 DEF Conclude, Finish, LeaseEnds
    <3> QED BY <3>1
  <2>5. CASE r = "canceled"
    <3>1. LeaseEnds(w, "canceled", "canceled")
      BY <1>2, <2>1, <2>2, <2>5 DEF Conclude, Finish, LeaseEnds
    <3> QED BY <3>1
  <2>6. CASE r = "error" /\ att[w] >= MaxAttempts[cur[w]]
    <3>1. att[w] = MaxAttempts[cur[w]] /\ ~(att[w] < MaxAttempts[cur[w]])
      BY <2>1, <2>3, <2>6
    <3>2. Finish(w, "dead_letter", "failed")
      BY <1>2, <2>6, <3>1 DEF Conclude
    <3>3. LeaseEnds(w, "dead_letter", "failed")
      BY <1>2, <2>1, <2>2, <3>1, <3>2 DEF Finish, LeaseEnds
    <3> QED BY <3>3
  <2>7. CASE r = "error" /\ att[w] < MaxAttempts[cur[w]]
    <3>1. ~(att[w] >= MaxAttempts[cur[w]])
      BY <2>3, <2>7
    <3>2. Requeue(w)
      BY <1>2, <2>7, <3>1 DEF Conclude
    <3>3. LeaseEnds(w, "queued", "failed")
      BY <1>2, <2>1, <2>2, <2>7, <3>2 DEF Requeue, LeaseEnds
    <3> QED BY <3>3
  <2> QED BY <2>3, <2>4, <2>5, <2>6, <2>7
<1> QED BY <1>1, <1>2 DEF FinishCall

\* Every step is quiet or one of seven that move a job.
LEMMA StepKinds ==
  ASSUME IInv, [Next]_vars
  PROVE  \/ RowsQuiet
         \/ \E j \in Jobs : Enqueue(j)
         \/ \E j \in Jobs : (RequestCancel(j) \/ HandleCancelJob(j)) /\ state[j] = "queued"
         \/ \E w \in Workers : ClaimCommit(w)
         \/ \E w \in Workers, s \in JobStates, o \in Outcomes : LeaseEnds(w, s, o)
         \/ \E w \in Workers : ReclaimExpiredLeases(w)
         \/ PruneOldJobs
<1>1. ASSUME NEW j \in Jobs, JobEvent(j), ~Enqueue(j),
             ~((RequestCancel(j) \/ HandleCancelJob(j)) /\ state[j] = "queued")
      PROVE  RowsQuiet
  BY <1>1 DEF JobEvent, RequestCancel, HandleCancelJob, BackoffElapses, PeriodElapses,
              RowsQuiet
<1>2. ASSUME NEW w \in Workers,
             \/ ClaimSelect(w) \/ ClaimIdle(w) \/ ClaimAbort(w) \/ NoHandler(w)
             \/ HandlerReturns(w) \/ HeartbeatError(w) \/ Crash(w)
      PROVE  RowsQuiet
  BY <1>2 DEF ClaimSelect, ClaimIdle, ClaimAbort, NoHandler, HandlerReturns,
              HandlerReturn, HeartbeatError, Crash, rows, RowsQuiet
<1>3. ASSUME NEW w \in Workers, MarkRunning(w) PROVE RowsQuiet
  BY <1>3 DEF MarkRunning, RowsQuiet, IInv, TypeOK
<1>4. ASSUME NEW w \in Workers, HeartbeatRenew(w) \/ Checkpoint(w) PROVE RowsQuiet
  BY <1>4 DEF HeartbeatRenew, Checkpoint, RowsQuiet
<1>5. ASSUME NEW w \in Workers, NEW i \in Steps, NEW s, StepWrite(w, i, s) PROVE RowsQuiet
  BY <1>5 DEF StepWrite, RowsQuiet
<1>6. ASSUME NEW w \in Workers, NEW r \in {"nil", "error", "canceled"}, HandlerFinish(w, r)
      PROVE  RowsQuiet \/ \E s \in JobStates, o \in Outcomes : LeaseEnds(w, s, o)
  BY <1>6, FinishCallEnds DEF HandlerFinish, Executing
<1>7. ASSUME NEW w \in Workers, ExecuteFinish(w)
      PROVE  RowsQuiet \/ \E s \in JobStates, o \in Outcomes : LeaseEnds(w, s, o)
  <2>1. CASE lost[w] \/ result[w] = "lost"
    BY <1>7, <2>1 DEF ExecuteFinish, RowsQuiet
  <2>2. CASE ~(lost[w] \/ result[w] = "lost")
    <3>1. /\ Executing(w)
          /\ result[w] \in {"nil", "error", "canceled"}
          /\ FinishCall(w, result[w])
          /\ UNCHANGED <<attempt_count, ran_by>>
      BY <1>7, <2>2 DEF ExecuteFinish, Executing, IInv, TypeOK
    <3> QED BY <3>1, FinishCallEnds
  <2> QED BY <2>1, <2>2
<1>8. CASE UNCHANGED vars
  BY <1>8 DEF vars, RowsQuiet
<1>9. CASE Next
  <2>1. ASSUME NEW w \in Workers, HandlerStep(w)
        PROVE  RowsQuiet \/ \E s \in JobStates, o \in Outcomes : LeaseEnds(w, s, o)
    BY <2>1, <1>4, <1>5, <1>6 DEF HandlerStep
  <2>2. ASSUME NEW w \in Workers, WorkerLoop(w)
        PROVE  \/ RowsQuiet
               \/ ClaimCommit(w)
               \/ ReclaimExpiredLeases(w)
               \/ \E s \in JobStates, o \in Outcomes : LeaseEnds(w, s, o)
    BY <2>2, <1>2, <1>3, <1>7 DEF WorkerLoop
  <2>3. ASSUME NEW w \in Workers, WorkerEvent(w)
        PROVE  \/ RowsQuiet
               \/ ClaimCommit(w)
               \/ ReclaimExpiredLeases(w)
               \/ \E s \in JobStates, o \in Outcomes : LeaseEnds(w, s, o)
    BY <2>3, <2>1, <2>2, <1>2, <1>4 DEF WorkerEvent
  <2> QED BY <1>9, <1>1, <2>3 DEF Next
<1> QED BY <1>8, <1>9

-----------------------------------------------------------------------------
(* Each part of the invariant is preserved.                                *)

\* The retention sweep moves finished jobs only, and only out of sight.
LEMMA PruneTouches ==
  ASSUME TypeOK, PruneOldJobs, NEW j \in Jobs
  PROVE  /\ \/ state'[j] = state[j] /\ attempt_count'[j] = attempt_count[j]
            \/ state[j] \in {"succeeded", "failed", "cancelled"} /\ state'[j] = "pruned"
         /\ UNCHANGED <<lease_owner, locks, pc, cur, att>>
<1>1. PICK S \in SUBSET {i \in Jobs : Prunable(i)} :
        /\ state' = [i \in Jobs |-> IF i \in S THEN "pruned" ELSE state[i]]
        /\ attempt_count' = [i \in Jobs |-> IF i \in S THEN 0 ELSE attempt_count[i]]
  BY DEF PruneOldJobs
<1>2. UNCHANGED <<lease_owner, locks, pc, cur, att>>
  BY DEF PruneOldJobs, procs
<1> QED BY <1>1, <1>2 DEF Prunable

LEMMA NextLocks == IInv /\ [Next]_vars => LockRowsExact'
<1> SUFFICES ASSUME IInv, [Next]_vars PROVE LockRowsExact'
  OBVIOUS
<1> USE DEF IInv, LockRowsExact, Active
<1>1. CASE RowsQuiet
  BY <1>1 DEF RowsQuiet
<1>2. ASSUME NEW j \in Jobs, Enqueue(j) PROVE LockRowsExact'
  BY <1>2 DEF Enqueue, TypeOK
<1>3. ASSUME NEW j \in Jobs, RequestCancel(j) \/ HandleCancelJob(j), state[j] = "queued"
      PROVE  LockRowsExact'
  BY <1>3 DEF RequestCancel, HandleCancelJob, TypeOK
<1>4. ASSUME NEW w \in Workers, ClaimCommit(w) PROVE LockRowsExact'
  <2>1. /\ cur[w] \in Jobs
        /\ \A k \in JobLocks[cur[w]] : locks[k] = NoOne
        /\ state' = [state EXCEPT ![cur[w]] = "leased"]
        /\ locks' = [k \in LockKeys |-> IF k \in JobLocks[cur[w]] THEN cur[w] ELSE locks[k]]
    BY <1>4 DEF ClaimCommit, ClaimsHoldRow
  <2>2. ~Active(cur[w])
    BY <1>4 DEF ClaimCommit, ClaimsHoldRow
  <2> QED BY <2>1, <2>2, NoOneAssumption DEF TypeOK
<1>5. ASSUME NEW w \in Workers, NEW s \in JobStates, NEW o \in Outcomes, LeaseEnds(w, s, o)
      PROVE  LockRowsExact'
  <2>1. /\ cur[w] \in Jobs
        /\ s \notin {"leased", "running"}
        /\ state' = [state EXCEPT ![cur[w]] = s]
        /\ locks' = [k \in LockKeys |-> IF locks[k] \in {cur[w]} THEN NoOne ELSE locks[k]]
    BY <1>5 DEF LeaseEnds, Owned, ReleaseLocks
  <2> QED BY <2>1, NoOneAssumption DEF TypeOK
<1>6. ASSUME NEW w \in Workers, ReclaimExpiredLeases(w) PROVE LockRowsExact'
  <2>1. \A j \in Jobs : Active(j)' <=> Active(j) /\ ~Expired(j)
    BY <1>6 DEF ReclaimExpiredLeases, Expired
  <2>2. \A k \in LockKeys :
          locks'[k] = IF locks[k] \in {j \in Jobs : Expired(j)} THEN NoOne ELSE locks[k]
    BY <1>6 DEF ReclaimExpiredLeases, ReleaseLocks
  <2> QED BY <2>1, <2>2, NoOneAssumption DEF Expired
<1>7. CASE PruneOldJobs
  BY <1>7 DEF PruneOldJobs, Prunable
<1> HIDE DEF IInv, LockRowsExact
<1> QED BY <1>1, <1>2, <1>3, <1>4, <1>5, <1>6, <1>7, StepKinds

LEMMA NextHistory == IInv /\ [Next]_vars => AttemptHistory'
<1> SUFFICES ASSUME IInv, [Next]_vars PROVE AttemptHistory'
  OBVIOUS
<1> USE BoundAssumption, AttemptsAssumption DEF IInv, AttemptHistory, History, Active, TypeOK
<1>1. CASE RowsQuiet
  BY <1>1 DEF RowsQuiet
<1>2. ASSUME NEW j \in Jobs, Enqueue(j) PROVE AttemptHistory'
  BY <1>2 DEF Enqueue, RowsBounded
<1>3. ASSUME NEW j \in Jobs, RequestCancel(j) \/ HandleCancelJob(j), state[j] = "queued"
      PROVE  AttemptHistory'
  BY <1>3 DEF RequestCancel, HandleCancelJob
<1>4. ASSUME NEW w \in Workers, ClaimCommit(w) PROVE AttemptHistory'
  <2> DEFINE j == cur[w]
             n == attempt_count[j] + 1
  <2>1. j \in Jobs /\ state[j] = "queued"
    BY <1>4 DEF ClaimCommit, ClaimsHoldRow
  <2>2. n \in 1..AttemptBound
    BY <2>1
  <2>3. /\ state' = [state EXCEPT ![j] = "leased"]
        /\ lease_owner' = [lease_owner EXCEPT ![j] = w]
        /\ attempt_count' = [attempt_count EXCEPT ![j] = n]
        /\ outcome' = [outcome EXCEPT ![j][n] = "leased"]
        /\ ran_by' = [ran_by EXCEPT ![j][n] = w]
    BY <1>4 DEF ClaimCommit
  <2> QED BY <2>1, <2>2, <2>3
<1>5. ASSUME NEW w \in Workers, NEW s \in JobStates, NEW o \in Outcomes, LeaseEnds(w, s, o)
      PROVE  AttemptHistory'
  <2> DEFINE j == cur[w]
  <2>1. j \in Jobs /\ Active(j)
    BY <1>5 DEF LeaseEnds, Owned
  <2>2. /\ state' = [state EXCEPT ![j] = s]
        /\ outcome' = [outcome EXCEPT ![j][attempt_count[j]] = o]
        /\ lease_owner' = [lease_owner EXCEPT ![j] = NoOne]
        /\ UNCHANGED <<attempt_count, ran_by>>
        /\ \/ s = "succeeded" /\ o = "succeeded"
           \/ s = "canceled" /\ o = "canceled"
           \/ s = "dead_letter" /\ o = "failed" /\ attempt_count[j] = MaxAttempts[j]
           \/ s = "queued" /\ o = "failed" /\ attempt_count[j] < MaxAttempts[j]
    BY <1>5 DEF LeaseEnds
  <2> QED BY <2>1, <2>2
<1>6. ASSUME NEW w \in Workers, ReclaimExpiredLeases(w) PROVE AttemptHistory'
  <2>1. UNCHANGED <<attempt_count, ran_by>>
    BY <1>6 DEF ReclaimExpiredLeases
  <2>2. ASSUME NEW j \in Jobs, ~Expired(j)
        PROVE  /\ state'[j] = state[j]
               /\ outcome'[j] = outcome[j]
               /\ lease_owner'[j] = lease_owner[j]
    BY <1>6, <2>2 DEF ReclaimExpiredLeases
  <2>3. ASSUME NEW j \in Jobs, Expired(j)
        PROVE  /\ state'[j] = IF attempt_count[j] >= MaxAttempts[j]
                              THEN "dead_letter" ELSE "queued"
               /\ outcome'[j] = [outcome[j] EXCEPT ![attempt_count[j]] = "lost_lease"]
               /\ attempt_count[j] <= MaxAttempts[j]
    <3>1. ran_by[j][attempt_count[j]] = lease_owner[j]
      BY <2>3 DEF Expired
    <3> QED BY <1>6, <2>3, <3>1 DEF ReclaimExpiredLeases, FinalizeAttempt, RowsBounded
  <2>4. ASSUME NEW j \in Jobs, ~Expired(j) PROVE History(j)'
    BY <2>1, <2>2, <2>4
  <2>5. ASSUME NEW j \in Jobs, Expired(j) PROVE History(j)'
    <3> DEFINE n == attempt_count[j]
    <3>1. /\ n \in 1..AttemptBound
          /\ attempt_count'[j] = n
          /\ \A m \in 1..AttemptBound : m < n => outcome[j][m] \in {"failed", "lost_lease"}
          /\ \A m \in 1..AttemptBound : m > n => outcome[j][m] = "none"
      BY <2>1, <2>5 DEF Expired
    <3>2. outcome[j] \in [1..AttemptBound -> Outcomes] /\ MaxAttempts[j] \in Nat
      OBVIOUS
    <3> HIDE DEF IInv, TypeOK
    <3>3. /\ state'[j] = IF n >= MaxAttempts[j] THEN "dead_letter" ELSE "queued"
          /\ outcome'[j] = [outcome[j] EXCEPT ![n] = "lost_lease"]
          /\ n <= MaxAttempts[j]
      BY <2>3, <2>5
    <3> HIDE DEF n
    <3>4. \/ state'[j] = "dead_letter" /\ n = MaxAttempts[j]
          \/ state'[j] = "queued" /\ n < MaxAttempts[j]
      BY <3>1, <3>2, <3>3
    <3> QED BY <3>1, <3>2, <3>3, <3>4
  <2> QED BY <2>4, <2>5
<1>7. CASE PruneOldJobs
  BY <1>7 DEF PruneOldJobs, Prunable, NoOutcomes, NoAttempts
<1> HIDE DEF IInv, AttemptHistory
<1> QED BY <1>1, <1>2, <1>3, <1>4, <1>5, <1>6, <1>7, StepKinds

\* A step row changes only by a guarded write of the lease holder, or with the
\* deletion of its job.
LEMMA StepRows ==
  ASSUME IInv, [Next]_vars
  PROVE  \/ UNCHANGED steps
         \/ PruneOldJobs
         \/ \E w \in Workers, i \in Steps, s \in StepStates :
              /\ pc[w] = "running"
              /\ Owned(w)
              /\ steps' = [steps EXCEPT ![cur[w]][i] = [st |-> s, by |-> att[w]]]
              /\ UNCHANGED <<state, attempt_count>>
<1>1. ASSUME NEW j \in Jobs, JobEvent(j) PROVE UNCHANGED steps
  BY <1>1 DEF JobEvent, Enqueue, RequestCancel, HandleCancelJob, BackoffElapses,
              PeriodElapses
<1>2. ASSUME NEW w \in Workers, WorkerLoop(w) PROVE UNCHANGED steps
  BY <1>2 DEF WorkerLoop, ClaimSelect, ClaimIdle, ClaimCommit, ClaimAbort, MarkRunning,
              NoHandler, ExecuteFinish, ReclaimExpiredLeases, rows
<1>3. ASSUME NEW w \in Workers, NEW i \in Steps, NEW s \in StepStates, StepWrite(w, i, s)
      PROVE  \/ UNCHANGED steps
             \/ /\ pc[w] = "running"
                /\ Owned(w)
                /\ steps' = [steps EXCEPT ![cur[w]][i] = [st |-> s, by |-> att[w]]]
                /\ UNCHANGED <<state, attempt_count>>
  BY <1>3 DEF StepWrite
<1>4. ASSUME NEW w \in Workers,
             \/ Checkpoint(w) \/ (\E r \in Results : HandlerFinish(w, r))
             \/ HandlerReturns(w) \/ HeartbeatRenew(w) \/ HeartbeatError(w) \/ Crash(w)
      PROVE  UNCHANGED steps
  BY <1>4 DEF Checkpoint, HandlerFinish, HandlerReturns, HandlerReturn, HeartbeatRenew,
              HeartbeatError, Crash, rows
<1>5. CASE UNCHANGED vars
  BY <1>5 DEF vars
<1>6. CASE Next
  <2>1. ASSUME NEW w \in Workers, HandlerStep(w)
        PROVE  \/ UNCHANGED steps
               \/ \E i \in Steps, s \in StepStates :
                    /\ pc[w] = "running"
                    /\ Owned(w)
                    /\ steps' = [steps EXCEPT ![cur[w]][i] = [st |-> s, by |-> att[w]]]
                    /\ UNCHANGED <<state, attempt_count>>
    BY <2>1, <1>3, <1>4 DEF HandlerStep
  <2> QED BY <1>6, <1>1, <1>2, <1>4, <2>1 DEF Next, WorkerEvent
<1> QED BY <1>5, <1>6

LEMMA NextBounded == IInv /\ [Next]_vars => RowsBounded'
<1> SUFFICES ASSUME IInv, [Next]_vars PROVE RowsBounded'
  OBVIOUS
<1> USE BoundAssumption, AttemptsAssumption DEF IInv, TypeOK
<1>1. ASSUME NEW j \in Jobs
      PROVE  /\ state'[j] = "absent" => attempt_count'[j] = 0
             /\ attempt_count'[j] <= MaxAttempts[j]
             /\ attempt_count'[j] >= attempt_count[j] \/ PruneOldJobs
  <2>1. CASE RowsQuiet
    BY <2>1 DEF RowsQuiet, RowsBounded
  <2>2. ASSUME NEW i \in Jobs,
               \/ Enqueue(i)
               \/ (RequestCancel(i) \/ HandleCancelJob(i)) /\ state[i] = "queued"
        PROVE  /\ state'[j] = "absent" => attempt_count'[j] = 0
               /\ attempt_count'[j] <= MaxAttempts[j]
               /\ attempt_count'[j] >= attempt_count[j]
    BY <2>2 DEF Enqueue, RequestCancel, HandleCancelJob, RowsBounded
  <2>3. ASSUME NEW w \in Workers, ClaimCommit(w)
        PROVE  /\ state'[j] = "absent" => attempt_count'[j] = 0
               /\ attempt_count'[j] <= MaxAttempts[j]
               /\ attempt_count'[j] >= attempt_count[j]
    <3>1. cur[w] \in Jobs /\ attempt_count[cur[w]] < MaxAttempts[cur[w]]
      BY <2>3 DEF ClaimCommit, ClaimsHoldRow, AttemptHistory, History
    <3>2. /\ state' = [state EXCEPT ![cur[w]] = "leased"]
          /\ attempt_count' = [attempt_count EXCEPT ![cur[w]] = attempt_count[cur[w]] + 1]
      BY <2>3 DEF ClaimCommit
    <3> QED BY <3>1, <3>2 DEF RowsBounded
  <2>4. ASSUME NEW w \in Workers, NEW s \in JobStates, NEW o \in Outcomes, LeaseEnds(w, s, o)
        PROVE  /\ state'[j] = "absent" => attempt_count'[j] = 0
               /\ attempt_count'[j] <= MaxAttempts[j]
               /\ attempt_count'[j] >= attempt_count[j]
    BY <2>4 DEF LeaseEnds, RowsBounded
  <2>5. ASSUME NEW w \in Workers, ReclaimExpiredLeases(w)
        PROVE  /\ state'[j] = "absent" => attempt_count'[j] = 0
               /\ attempt_count'[j] <= MaxAttempts[j]
               /\ attempt_count'[j] >= attempt_count[j]
    BY <2>5 DEF ReclaimExpiredLeases, RowsBounded
  <2>6. CASE PruneOldJobs
    <3>1. /\ state'[j] = "absent" => attempt_count'[j] = 0
          /\ attempt_count'[j] <= MaxAttempts[j]
      BY <2>6 DEF PruneOldJobs, RowsBounded
    <3> QED BY <2>6, <3>1
  <2> HIDE DEF IInv, TypeOK
  <2> QED BY <2>1, <2>2, <2>3, <2>4, <2>5, <2>6, StepKinds
<1>2. ASSUME NEW j \in Jobs, NEW i \in Steps
      PROVE  steps'[j][i].by <= attempt_count'[j]
  <2>1. CASE UNCHANGED steps /\ ~PruneOldJobs
    <3>1. /\ steps[j][i].by <= attempt_count[j]
          /\ steps[j][i].by \in Nat
      BY DEF RowsBounded
    <3>2. attempt_count'[j] >= attempt_count[j]
      BY <1>1, <2>1
    <3>3. attempt_count[j] \in Nat /\ attempt_count'[j] \in Nat
      BY NextType
    <3> QED BY <2>1, <3>1, <3>2, <3>3
  <2>2. CASE PruneOldJobs
    BY <2>2 DEF PruneOldJobs, NewSteps, RowsBounded
  <2>3. ASSUME NEW w \in Workers, NEW m \in Steps, NEW s \in StepStates,
               pc[w] = "running", Owned(w),
               steps' = [steps EXCEPT ![cur[w]][m] = [st |-> s, by |-> att[w]]],
               UNCHANGED <<state, attempt_count>>
        PROVE  steps'[j][i].by <= attempt_count'[j]
    <3>1. att[w] = attempt_count[cur[w]] /\ cur[w] \in Jobs
      BY <2>3 DEF LeaseFencesAttempt, Executing, Owned
    <3> QED BY <2>3, <3>1 DEF RowsBounded
  <2> QED BY <2>1, <2>2, <2>3, StepRows
<1> QED BY <1>1, <1>2 DEF RowsBounded

\* Only a claim transaction in flight, and the steps of other jobs, can happen
\* to a selected row: its state stays queued.
LEMMA NextClaims == IInv /\ [Next]_vars => ClaimsHoldRow'
<1> SUFFICES ASSUME IInv, [Next]_vars PROVE ClaimsHoldRow'
  OBVIOUS
<1> USE DEF IInv, ClaimsHoldRow, Executing, TypeOK
<1>1. ASSUME NEW j \in Jobs, JobEvent(j) PROVE ClaimsHoldRow'
  <2>1. \A w \in Workers : pc[w] = "claiming" => state'[cur[w]] = "queued"
    BY <1>1 DEF JobEvent, Enqueue, RequestCancel, HandleCancelJob, BackoffElapses,
                PeriodElapses, RowLocked
  <2>2. UNCHANGED <<pc, cur>>
    BY <1>1 DEF JobEvent, Enqueue, RequestCancel, HandleCancelJob, BackoffElapses,
                PeriodElapses, procs
  <2> QED BY <2>1, <2>2
<1>2. ASSUME NEW w \in Workers, ClaimSelect(w) PROVE ClaimsHoldRow'
  <2>1. PICK j \in Jobs : /\ Claimable(w, j)
                          /\ cur' = [cur EXCEPT ![w] = j]
    BY <1>2 DEF ClaimSelect
  <2>2. pc' = [pc EXCEPT ![w] = "claiming"] /\ UNCHANGED state
    BY <1>2 DEF ClaimSelect, rows
  <2> QED BY <2>1, <2>2 DEF Claimable, RowLocked
<1>3. ASSUME NEW w \in Workers, ClaimCommit(w) PROVE ClaimsHoldRow'
  <2>1. /\ pc[w] = "claiming"
        /\ pc' = [pc EXCEPT ![w] = "claimed"]
        /\ state' = [state EXCEPT ![cur[w]] = "leased"]
        /\ UNCHANGED cur
    BY <1>3 DEF ClaimCommit
  <2> QED BY <2>1
<1>4. ASSUME NEW w \in Workers,
             \/ ClaimIdle(w) \/ ClaimAbort(w) \/ NoHandler(w) \/ HandlerReturns(w)
             \/ HeartbeatError(w) \/ Crash(w)
      PROVE  ClaimsHoldRow'
  <2>1. UNCHANGED state
    BY <1>4 DEF ClaimIdle, ClaimAbort, NoHandler, HandlerReturns, HandlerReturn,
                HeartbeatError, Crash, rows
  <2>2. CASE Crash(w)
    BY <2>1, <2>2 DEF Crash, DropLease
  <2>3. CASE ClaimAbort(w)
    BY <2>1, <2>3 DEF ClaimAbort
  <2>4. CASE ClaimIdle(w) \/ NoHandler(w) \/ HandlerReturns(w) \/ HeartbeatError(w)
    BY <2>1, <2>4 DEF ClaimIdle, NoHandler, HandlerReturns, HandlerReturn, HeartbeatError
  <2> QED BY <1>4, <2>2, <2>3, <2>4
<1>5. ASSUME NEW w \in Workers, MarkRunning(w) PROVE ClaimsHoldRow'
  <2>1. /\ pc[w] = "claimed"
        /\ pc' = [pc EXCEPT ![w] = "running"]
        /\ UNCHANGED cur
    BY <1>5 DEF MarkRunning
  <2>2. \A j \in Jobs : state[j] = "queued" => state'[j] = "queued"
    BY <1>5 DEF MarkRunning
  <2> QED BY <2>1, <2>2
<1>6. ASSUME NEW w \in Workers,
             \/ HeartbeatRenew(w) \/ Checkpoint(w)
             \/ \E i \in Steps, s \in StepStates : StepWrite(w, i, s)
      PROVE  ClaimsHoldRow'
  BY <1>6 DEF HeartbeatRenew, Checkpoint, StepWrite
<1>7. ASSUME NEW w \in Workers, NEW r \in {"nil", "error", "canceled"}, FinishCall(w, r)
      PROVE  \A j \in Jobs : state[j] = "queued" => state'[j] = "queued"
  BY <1>7 DEF FinishCall, Conclude, Finish, Requeue, Owned, Active
<1>8. ASSUME NEW w \in Workers, NEW r \in {"nil", "error", "canceled"}, HandlerFinish(w, r)
      PROVE  ClaimsHoldRow'
  BY <1>8, <1>7 DEF HandlerFinish
<1>9. ASSUME NEW w \in Workers, ExecuteFinish(w) PROVE ClaimsHoldRow'
  <2>1. \A j \in Jobs : state[j] = "queued" => state'[j] = "queued"
    <3>1. CASE lost[w] \/ result[w] = "lost"
      BY <1>9, <3>1 DEF ExecuteFinish
    <3>2. CASE ~(lost[w] \/ result[w] = "lost")
      <4>1. /\ result[w] \in {"nil", "error", "canceled"}
            /\ FinishCall(w, result[w])
        BY <1>9, <3>2 DEF ExecuteFinish
      <4> QED BY <4>1, <1>7
    <3> QED BY <3>1, <3>2
  <2>2. /\ pc[w] = "finishing"
        /\ pc' = [pc EXCEPT ![w] = "idle"]
        /\ cur' = [cur EXCEPT ![w] = NoOne]
    BY <1>9 DEF ExecuteFinish, DropLease
  <2> QED BY <2>1, <2>2
<1>10. ASSUME NEW w \in Workers, ReclaimExpiredLeases(w) PROVE ClaimsHoldRow'
  <2>1. \A j \in Jobs : state[j] = "queued" => state'[j] = "queued"
    BY <1>10 DEF ReclaimExpiredLeases, Expired, Active
  <2>2. /\ pc[w] = "reap"
        /\ pc' = [pc EXCEPT ![w] = "idle"]
        /\ UNCHANGED cur
    BY <1>10 DEF ReclaimExpiredLeases
  <2> QED BY <2>1, <2>2
<1>11. CASE PruneOldJobs
  <2>1. /\ \A j \in Jobs : state[j] = "queued" => state'[j] = "queued"
        /\ UNCHANGED <<pc, cur>>
    BY <1>11, PruneTouches DEF PruneOldJobs, procs
  <2> QED BY <2>1
<1>12. CASE UNCHANGED vars
  BY <1>12 DEF vars
<1> HIDE DEF IInv, ClaimsHoldRow, Executing, TypeOK
<1>13. ASSUME NEW w \in Workers, WorkerLoop(w) PROVE ClaimsHoldRow'
  BY <1>13, <1>2, <1>3, <1>4, <1>5, <1>9, <1>10 DEF WorkerLoop
<1>14. ASSUME NEW w \in Workers, HandlerStep(w) PROVE ClaimsHoldRow'
  BY <1>14, <1>6, <1>8 DEF HandlerStep
<1> QED BY <1>1, <1>4, <1>6, <1>11, <1>12, <1>13, <1>14 DEF Next, WorkerEvent

\* A worker gets a job, and its attempt number, from its own claim only.
LEMMA WorkerKeepsLease ==
  ASSUME IInv, [Next]_vars, NEW w \in Workers, Executing(w)'
  PROVE  \/ ClaimCommit(w)
         \/ Executing(w) /\ cur'[w] = cur[w] /\ att'[w] = att[w]
<1> USE DEF IInv, TypeOK, Executing
<1>1. ASSUME NEW j \in Jobs, JobEvent(j)
      PROVE  Executing(w) /\ cur'[w] = cur[w] /\ att'[w] = att[w]
  BY <1>1 DEF JobEvent, Enqueue, RequestCancel, HandleCancelJob, BackoffElapses,
              PeriodElapses, procs
<1>2. ASSUME NEW v \in Workers, WorkerLoop(v), ~(v = w /\ ClaimCommit(w))
      PROVE  Executing(w) /\ cur'[w] = cur[w] /\ att'[w] = att[w]
  <2>1. CASE ClaimSelect(v)
    BY <2>1 DEF ClaimSelect
  <2>2. CASE ClaimIdle(v) \/ ClaimAbort(v) \/ NoHandler(v) \/ MarkRunning(v)
    BY <2>2 DEF ClaimIdle, ClaimAbort, NoHandler, MarkRunning
  <2>3. CASE ClaimCommit(v) /\ v # w
    BY <2>3 DEF ClaimCommit
  <2>4. CASE ExecuteFinish(v)
    BY <2>4 DEF ExecuteFinish, DropLease
  <2>5. CASE ReclaimExpiredLeases(v)
    BY <2>5 DEF ReclaimExpiredLeases
  <2> QED BY <1>2, <2>1, <2>2, <2>3, <2>4, <2>5 DEF WorkerLoop
<1>3. ASSUME NEW v \in Workers, HandlerStep(v)
      PROVE  Executing(w) /\ cur'[w] = cur[w] /\ att'[w] = att[w]
  BY <1>3 DEF HandlerStep, Checkpoint, StepWrite, HandlerFinish
<1>4. ASSUME NEW v \in Workers, HandlerReturns(v) \/ HeartbeatRenew(v) \/ HeartbeatError(v)
      PROVE  Executing(w) /\ cur'[w] = cur[w] /\ att'[w] = att[w]
  BY <1>4 DEF HandlerReturns, HandlerReturn, HeartbeatRenew, HeartbeatError
<1>5. ASSUME NEW v \in Workers, Crash(v)
      PROVE  Executing(w) /\ cur'[w] = cur[w] /\ att'[w] = att[w]
  BY <1>5 DEF Crash, DropLease
<1>6. CASE PruneOldJobs \/ UNCHANGED vars
  BY <1>6 DEF PruneOldJobs, procs, vars
<1> HIDE DEF IInv, TypeOK, Executing
<1> QED BY <1>1, <1>2, <1>3, <1>4, <1>5, <1>6 DEF Next, WorkerEvent

LEMMA NextFences == IInv /\ [Next]_vars => LeaseFencesAttempt'
<1> SUFFICES ASSUME IInv, [Next]_vars PROVE LeaseFencesAttempt'
  OBVIOUS
<1> USE NoOneAssumption DEF IInv, TypeOK, LeaseFencesAttempt, Active
<1>1. ASSUME NEW j \in Jobs PROVE Active(j)' <=> lease_owner'[j] # NoOne
  <2>1. CASE RowsQuiet
    BY <2>1 DEF RowsQuiet
  <2>2. ASSUME NEW i \in Jobs, Enqueue(i) PROVE Active(j)' <=> lease_owner'[j] # NoOne
    BY <2>2 DEF Enqueue
  <2>3. ASSUME NEW i \in Jobs, RequestCancel(i) \/ HandleCancelJob(i), state[i] = "queued"
        PROVE  Active(j)' <=> lease_owner'[j] # NoOne
    BY <2>3 DEF RequestCancel, HandleCancelJob
  <2>4. ASSUME NEW w \in Workers, ClaimCommit(w) PROVE Active(j)' <=> lease_owner'[j] # NoOne
    BY <2>4 DEF ClaimCommit
  <2>5. ASSUME NEW w \in Workers, NEW s \in JobStates, NEW o \in Outcomes, LeaseEnds(w, s, o)
        PROVE  Active(j)' <=> lease_owner'[j] # NoOne
    BY <2>5 DEF LeaseEnds
  <2>6. ASSUME NEW w \in Workers, ReclaimExpiredLeases(w)
        PROVE  Active(j)' <=> lease_owner'[j] # NoOne
    BY <2>6 DEF ReclaimExpiredLeases, Expired
  <2>7. CASE PruneOldJobs
    BY <2>7, PruneTouches
  <2> HIDE DEF IInv, TypeOK, Active, LeaseFencesAttempt
  <2> QED BY <2>1, <2>2, <2>3, <2>4, <2>5, <2>6, <2>7, StepKinds
<1>2. ASSUME NEW w \in Workers, Executing(w)', Owned(w)'
      PROVE  att'[w] = attempt_count'[cur'[w]]
  <2>1. CASE ClaimCommit(w)
    BY <2>1 DEF ClaimCommit, ClaimsHoldRow
  <2>2. CASE Executing(w) /\ cur'[w] = cur[w] /\ att'[w] = att[w] /\ ~ClaimCommit(w)
    <3>1. cur[w] \in Jobs /\ lease_owner'[cur[w]] = w
      BY <1>2, <2>2 DEF Owned
    <3>2. /\ attempt_count'[cur[w]] = attempt_count[cur[w]]
          /\ lease_owner[cur[w]] = w
      <4>1. CASE RowsQuiet
        BY <3>1, <4>1 DEF RowsQuiet
      <4>2. ASSUME NEW i \in Jobs, Enqueue(i) \/ RequestCancel(i) \/ HandleCancelJob(i)
            PROVE  /\ attempt_count'[cur[w]] = attempt_count[cur[w]]
                   /\ lease_owner[cur[w]] = w
        BY <3>1, <4>2 DEF Enqueue, RequestCancel, HandleCancelJob
      <4>3. ASSUME NEW v \in Workers, ClaimCommit(v)
            PROVE  /\ attempt_count'[cur[w]] = attempt_count[cur[w]]
                   /\ lease_owner[cur[w]] = w
        <5>1. v # w /\ cur[v] \in Jobs /\ cur[v] # cur[w]
          BY ZenonT(60), <2>2, <3>1, <4>3 DEF ClaimCommit, ClaimsHoldRow
        <5> QED BY <3>1, <4>3, <5>1 DEF ClaimCommit
      <4>4. ASSUME NEW v \in Workers, NEW s \in JobStates, NEW o \in Outcomes, LeaseEnds(v, s, o)
            PROVE  /\ attempt_count'[cur[w]] = attempt_count[cur[w]]
                   /\ lease_owner[cur[w]] = w
        BY <3>1, <4>4 DEF LeaseEnds
      <4>5. ASSUME NEW v \in Workers, ReclaimExpiredLeases(v)
            PROVE  /\ attempt_count'[cur[w]] = attempt_count[cur[w]]
                   /\ lease_owner[cur[w]] = w
        BY <3>1, <4>5 DEF ReclaimExpiredLeases
      <4>6. CASE PruneOldJobs
        <5>1. lease_owner[cur[w]] = w /\ Active(cur[w])
          BY <3>1, <4>6, PruneTouches
        <5> QED BY <3>1, <4>6, <5>1, PruneTouches
      <4> HIDE DEF IInv, TypeOK, Active, LeaseFencesAttempt
      <4> QED BY <4>1, <4>2, <4>3, <4>4, <4>5, <4>6, StepKinds
    <3>3. Owned(w)
      BY <3>1, <3>2 DEF Owned
    <3> QED BY <2>2, <3>2, <3>3
  <2> HIDE DEF IInv, TypeOK, Active, LeaseFencesAttempt
  <2> QED BY <1>2, <2>1, <2>2, WorkerKeepsLease
<1> QED BY <1>1, <1>2

LEMMA NextIInv == IInv /\ [Next]_vars => IInv'
  BY NextType, NextClaims, NextLocks, NextFences, NextHistory, NextBounded DEF IInv

-----------------------------------------------------------------------------
(* The theorems.                                                           *)

\* The invariant holds in every reachable state of the engine.
THEOREM Inductive == Spec => []IInv
<1>1. Init => IInv
  BY InitIInv
<1>2. IInv /\ [Next]_vars => IInv'
  BY NextIInv
<1> QED BY <1>1, <1>2, PTL DEF Spec

\* Every row and worker variable keeps its type; in particular no job is ever
\* attempted more often than the bound Enqueue enforces.
THEOREM TypeCorrect == Spec => []TypeOK
<1>1. IInv => TypeOK
  BY DEF IInv
<1> QED BY <1>1, Inductive, PTL

\* The lock rows are exactly the declared keys of the claimed jobs, through
\* every race, crash and reclaim.
THEOREM LocksCorrect == Spec => []LockRowsExact
<1>1. IInv => LockRowsExact
  BY DEF IInv
<1> QED BY <1>1, Inductive, PTL

\* Two claimed jobs never declare the same resource: the exclusion the claim
\* query and the primary key on lock_key are meant to give.
THEOREM Exclusion == Spec => []ResourceExclusion
<1>1. IInv => ResourceExclusion
  <2> SUFFICES ASSUME IInv, NEW i \in Jobs, NEW j \in Jobs, i # j, Active(i), Active(j),
                      NEW k \in JobLocks[i] \cap JobLocks[j]
               PROVE  FALSE
    BY DEF ResourceExclusion
  <2>1. k \in LockKeys
    BY LocksAssumption
  <2> QED BY <2>1 DEF IInv, LockRowsExact
<1> QED BY <1>1, Inductive, PTL

\* The lock table can be trusted, for any number of jobs, workers and keys.
THEOREM LocksAreSound == Spec => []LocksSound
<1>1. TypeOK /\ LockRowsExact /\ ResourceExclusion => LocksSound
  BY DEF LocksSound
<1> QED BY <1>1, TypeCorrect, LocksCorrect, Exclusion, PTL

\* A worker that passes the ownership guard acts under the row's current
\* attempt, although the guard does not mention the attempt.
THEOREM Fencing == Spec => []LeaseFencesAttempt
<1>1. IInv => LeaseFencesAttempt
  BY DEF IInv
<1> QED BY <1>1, Inductive, PTL

\* The attempt history is complete and agrees with the job's state.
THEOREM HistoryCorrect == Spec => []AttemptHistory
<1>1. IInv => AttemptHistory
  BY DEF IInv
<1> QED BY <1>1, Inductive, PTL

\* No late writer changes a job that has reached a terminal state.
THEOREM TerminalFinal == Spec => TerminalIsFinal
<1> DEFINE A == \A j \in Jobs : Terminal(j) =>
                  \/ state'[j] = "pruned"
                  \/ /\ state'[j] = state[j]
                     /\ attempt_count'[j] = attempt_count[j]
                     /\ outcome'[j] = outcome[j]
<1>1. ASSUME IInv, [Next]_vars PROVE A
  <2> SUFFICES ASSUME NEW j \in Jobs, Terminal(j)
               PROVE  \/ state'[j] = "pruned"
                      \/ /\ state'[j] = state[j]
                         /\ attempt_count'[j] = attempt_count[j]
                         /\ outcome'[j] = outcome[j]
    OBVIOUS
  <2> USE DEF Terminal
  <2>1. CASE RowsQuiet
    BY <2>1 DEF RowsQuiet
  <2>2. ASSUME NEW i \in Jobs,
               \/ Enqueue(i)
               \/ (RequestCancel(i) \/ HandleCancelJob(i)) /\ state[i] = "queued"
        PROVE  UNCHANGED <<attempt_count, outcome>> /\ state'[j] = state[j]
    BY <2>2, <1>1 DEF Enqueue, RequestCancel, HandleCancelJob, IInv, TypeOK
  <2>3. ASSUME NEW w \in Workers, ClaimCommit(w)
        PROVE  /\ state'[j] = state[j]
               /\ attempt_count'[j] = attempt_count[j]
               /\ outcome'[j] = outcome[j]
    <3>1. state[cur[w]] = "queued"
      BY <2>3, <1>1 DEF ClaimCommit, IInv, ClaimsHoldRow
    <3> QED BY <2>3, <3>1, <1>1 DEF ClaimCommit, IInv, TypeOK
  <2>4. ASSUME NEW w \in Workers, NEW s \in JobStates, NEW o \in Outcomes, LeaseEnds(w, s, o)
        PROVE  /\ state'[j] = state[j]
               /\ attempt_count'[j] = attempt_count[j]
               /\ outcome'[j] = outcome[j]
    BY <2>4, <1>1 DEF LeaseEnds, Owned, Active, IInv, TypeOK
  <2>5. ASSUME NEW w \in Workers, ReclaimExpiredLeases(w)
        PROVE  /\ state'[j] = state[j]
               /\ attempt_count'[j] = attempt_count[j]
               /\ outcome'[j] = outcome[j]
    BY <2>5 DEF ReclaimExpiredLeases, Expired, Active
  <2>6. CASE PruneOldJobs
    BY <2>6 DEF PruneOldJobs
  <2> HIDE DEF Terminal
  <2> QED BY <1>1, <2>1, <2>2, <2>3, <2>4, <2>5, <2>6, StepKinds
<1>2. IInv /\ [Next]_vars => [A]_vars
  BY <1>1
<1> QED BY <1>2, Inductive, PTL DEF Spec, TerminalIsFinal

\* A stale worker never overwrites the step rows of a later attempt.
THEOREM StepsMonotone == Spec => StepsNeverRegress
<1> DEFINE A == \A j \in Jobs, i \in Steps :
                  state'[j] = "pruned" \/ steps'[j][i].by >= steps[j][i].by
<1>1. ASSUME IInv, [Next]_vars PROVE A
  <2> SUFFICES ASSUME NEW j \in Jobs, NEW i \in Steps
               PROVE  state'[j] = "pruned" \/ steps'[j][i].by >= steps[j][i].by
    OBVIOUS
  <2> USE <1>1 DEF IInv, TypeOK
  <2>1. CASE UNCHANGED steps
    BY <2>1
  <2>2. CASE PruneOldJobs
    BY <2>2 DEF PruneOldJobs
  <2>3. ASSUME NEW w \in Workers, NEW m \in Steps, NEW s \in StepStates,
               pc[w] = "running", Owned(w),
               steps' = [steps EXCEPT ![cur[w]][m] = [st |-> s, by |-> att[w]]]
        PROVE  steps'[j][i].by >= steps[j][i].by
    <3>1. att[w] = attempt_count[cur[w]] /\ cur[w] \in Jobs
      BY <2>3 DEF LeaseFencesAttempt, Executing, Owned
    <3>2. steps[cur[w]][m].by <= att[w]
      BY <3>1 DEF RowsBounded
    <3> QED BY <2>3, <3>1, <3>2
  <2> HIDE DEF IInv, TypeOK
  <2> QED BY <2>1, <2>2, <2>3, StepRows
<1>2. IInv /\ [Next]_vars => [A]_vars
  BY <1>1
<1> QED BY <1>2, Inductive, PTL DEF Spec, StepsNeverRegress

-----------------------------------------------------------------------------
(* The engine implements the abstract queue.                               *)

LEMMA RefineInit == Init => Queue!Init
  BY DEF Init, Queue!Init, statusBar, Bar

LEMMA RefineNext == IInv /\ [Next]_vars => [Queue!Next]_(Queue!vars)
<1> SUFFICES ASSUME IInv, [Next]_vars PROVE Queue!Next \/ UNCHANGED Queue!vars
  OBVIOUS
<1> USE DEF IInv, TypeOK, statusBar, Bar
<1>1. CASE RowsQuiet
  <2>1. UNCHANGED attempt_count /\ statusBar' = statusBar
    BY <1>1 DEF RowsQuiet
  <2> QED BY <2>1 DEF Queue!vars
<1>2. ASSUME NEW j \in Jobs, Enqueue(j) PROVE Queue!Next
  <2>1. Queue!Submit(j)
    BY <1>2 DEF Enqueue, Queue!Submit
  <2> QED BY <2>1 DEF Queue!Next
<1>3. ASSUME NEW j \in Jobs, RequestCancel(j) \/ HandleCancelJob(j), state[j] = "queued"
      PROVE  Queue!Next
  <2>1. state' = [state EXCEPT ![j] = "canceled"] /\ UNCHANGED attempt_count
    BY <1>3 DEF RequestCancel, HandleCancelJob
  <2>2. Queue!CancelWaiting(j)
    BY <1>3, <2>1 DEF Queue!CancelWaiting
  <2> HIDE DEF statusBar
  <2> QED BY <2>2 DEF Queue!Next
<1>4. ASSUME NEW w \in Workers, ClaimCommit(w) PROVE Queue!Next
  <2> DEFINE j == cur[w]
  <2>1. /\ j \in Jobs
        /\ state[j] = "queued"
        /\ attempt_count[j] < MaxAttempts[j]
        /\ state' = [state EXCEPT ![j] = "leased"]
        /\ attempt_count' = [attempt_count EXCEPT ![j] = attempt_count[j] + 1]
    BY <1>4 DEF ClaimCommit, ClaimsHoldRow, AttemptHistory, History
  <2>2. \A i \in Jobs : Active(i) => JobLocks[i] \cap JobLocks[j] = {}
    <3> SUFFICES ASSUME NEW i \in Jobs, Active(i), NEW k \in JobLocks[i] \cap JobLocks[j]
                 PROVE  FALSE
      OBVIOUS
    <3>1. k \in LockKeys
      BY LocksAssumption
    <3>2. locks[k] = i
      BY <3>1 DEF LockRowsExact
    <3>3. locks[k] = NoOne
      BY <1>4 DEF ClaimCommit
    <3> QED BY <3>2, <3>3, NoOneAssumption
  <2>3. Queue!Begin(j)
    BY <2>1, <2>2 DEF Queue!Begin, Active
  <2> HIDE DEF statusBar, IInv, TypeOK
  <2> QED BY <2>1, <2>3 DEF Queue!Next
<1>5. ASSUME NEW w \in Workers, NEW s \in JobStates, NEW o \in Outcomes, LeaseEnds(w, s, o)
      PROVE  Queue!Next
  <2> DEFINE j == cur[w]
  <2>1. /\ j \in Jobs
        /\ Active(j)
        /\ state' = [state EXCEPT ![j] = s]
        /\ UNCHANGED attempt_count
    BY <1>5 DEF LeaseEnds, Owned
  <2>2. CASE s # "queued"
    <3>1. /\ s \in Queue!Ends
          /\ s = "dead_letter" => attempt_count[j] = MaxAttempts[j]
      BY <1>5, <2>2 DEF LeaseEnds, Queue!Ends
    <3>2. Queue!End(j, s)
      BY <2>1, <3>1 DEF Queue!End, Queue!Ends, Active
    <3> QED BY <2>1, <3>1, <3>2 DEF Queue!Next
  <2>3. CASE s = "queued"
    <3>1. attempt_count[j] < MaxAttempts[j]
      BY <1>5, <2>3 DEF LeaseEnds
    <3>2. attempt_count[j] \in Nat /\ MaxAttempts[j] \in Nat
      <4> HIDE DEF statusBar, IInv, TypeOK
      <4>1. attempt_count \in [Jobs -> 0..AttemptBound]
        BY DEF IInv, TypeOK
      <4> QED BY <2>1, <4>1, AttemptsAssumption, BoundAssumption
    <3>3. Queue!Recover({j})
      BY <2>1, <2>3, <3>1, <3>2 DEF Queue!Recover, Active
    <3> HIDE DEF statusBar, IInv, TypeOK
    <3> QED BY <2>1, <3>3 DEF Queue!Next
  <2> QED BY <2>2, <2>3
<1>6. ASSUME NEW w \in Workers, ReclaimExpiredLeases(w) PROVE Queue!Next
  <2> DEFINE S == {j \in Jobs : Expired(j)}
  <2>1. Queue!Recover(S)
    BY <1>6 DEF ReclaimExpiredLeases, Queue!Recover, Expired, Active
  <2>2. S \in SUBSET Jobs
    OBVIOUS
  <2> HIDE DEF statusBar, S, IInv, TypeOK
  <2> QED BY <2>1, <2>2 DEF Queue!Next
<1>7. CASE PruneOldJobs
  <2>1. PICK S \in SUBSET {i \in Jobs : Prunable(i)} :
          /\ state' = [i \in Jobs |-> IF i \in S THEN "pruned" ELSE state[i]]
          /\ attempt_count' = [i \in Jobs |-> IF i \in S THEN 0 ELSE attempt_count[i]]
    BY <1>7 DEF PruneOldJobs
  <2>2. Queue!Forget(S)
    BY <2>1 DEF Queue!Forget, Queue!Ends, Prunable
  <2> QED BY <2>1, <2>2 DEF Queue!Next
<1> HIDE DEF IInv, TypeOK, statusBar, Bar
<1> QED BY <1>1, <1>2, <1>3, <1>4, <1>5, <1>6, <1>7, StepKinds

\* Every behaviour of the engine, with its leases, crashes, races and reclaims,
\* is one of the abstract queue: bounded attempts, exclusive resources, one end.
THEOREM Refinement == Spec => ImplementsQueue
<1>1. Init => Queue!Init
  BY RefineInit
<1>2. IInv /\ [Next]_vars => [Queue!Next]_(Queue!vars)
  BY RefineNext
<1> QED BY <1>1, <1>2, Inductive, PTL DEF Spec, ImplementsQueue, Queue!Spec

-----------------------------------------------------------------------------
(* Handlers exclude each other, as long as heartbeats are in time and the  *)
(* database answers.                                                       *)

\* A handler that has not called Complete, Fail or Cancel has its lease, its
\* heartbeat runs and the lease has not expired.
HoldsLease(w) ==
    Executing(w) /\ ~done[w] => Owned(w) /\ beating[w] /\ lease_age[cur[w]] # 2

LeasesHeld == faults = 0 => \A w \in Workers : HoldsLease(w)

\* A worker and its lease that a step leaves as they are.
LEMMA LeaseStays ==
  ASSUME NEW w \in Workers, HoldsLease(w),
         pc'[w] \in {"claimed", "running", "finishing"} => Executing(w),
         cur'[w] = cur[w], beating'[w] = beating[w], done'[w] = done[w],
         Executing(w) /\ Owned(w) /\ beating[w] /\ lease_age[cur[w]] # 2 =>
            /\ lease_owner'[cur[w]] = lease_owner[cur[w]]
            /\ state'[cur[w]] \in {"leased", "running"}
            /\ lease_age'[cur[w]] # 2
  PROVE  HoldsLease(w)'
<1> SUFFICES ASSUME Executing(w)', ~done'[w]
             PROVE  Owned(w)' /\ beating'[w] /\ lease_age'[cur'[w]] # 2
  BY DEF HoldsLease
<1>1. Executing(w) /\ ~done[w]
  BY DEF Executing
<1>2. Owned(w) /\ beating[w] /\ lease_age[cur[w]] # 2
  BY <1>1 DEF HoldsLease
<1>3. cur[w] \in Jobs /\ lease_owner[cur[w]] = w
  BY <1>2 DEF Owned
<1>. QED
  BY <1>1, <1>2, <1>3 DEF Owned, Active

\* The end of another worker's lease.
LEMMA OthersFinish ==
  ASSUME IInv, NEW v \in Workers, NEW w \in Workers, v # w, NEW r, FinishCall(v, r), Owned(w), lease_age[cur[w]] # 2
  PROVE  /\ lease_owner'[cur[w]] = lease_owner[cur[w]] /\ state'[cur[w]] = state[cur[w]]
         /\ lease_age'[cur[w]] # 2
<1>1. CASE UNCHANGED <<state, lease_owner, lease_age, due, finished_at, locks, outcome>>
  BY <1>1
<1>2. CASE Owned(v) /\ Conclude(v, r)
  <2>1. cur[v] # cur[w] /\ cur[v] \in Jobs /\ cur[w] \in Jobs
    BY <1>2 DEF Owned
  <2>2. \E s \in JobStates : /\ state' = [state EXCEPT ![cur[v]] = s]
                             /\ lease_owner' = [lease_owner EXCEPT ![cur[v]] = NoOne]
                             /\ lease_age' = [lease_age EXCEPT ![cur[v]] = 0]
    BY <1>2 DEF Conclude, Finish, Requeue
  <2>3. state \in [Jobs -> JobStates] /\ lease_owner \in [Jobs -> Workers \cup {NoOne}] /\ lease_age \in [Jobs -> {0, 1, 2}]
    BY DEF IInv, TypeOK
  <2>. QED
    BY <2>1, <2>2, <2>3
<1>. QED
  BY <1>1, <1>2 DEF FinishCall

LEMMA EventsHold ==
  ASSUME IInv, Timely, NEW w \in Workers, HoldsLease(w), NEW j \in Jobs, JobEvent(j)
  PROVE  HoldsLease(w)'
<1>1. pc' = pc /\ cur' = cur /\ beating' = beating /\ done' = done /\ lease_owner' = lease_owner
  BY DEF JobEvent, Enqueue, RequestCancel, HandleCancelJob, BackoffElapses, PeriodElapses, procs
<1>2. state \in [Jobs -> JobStates] /\ lease_age \in [Jobs -> {0, 1, 2}]
  BY DEF IInv, TypeOK
<1>3. ASSUME Executing(w), Owned(w), beating[w], lease_age[cur[w]] # 2
      PROVE  state'[cur[w]] \in {"leased", "running"} /\ lease_age'[cur[w]] # 2
  <2>1. cur[w] \in Jobs /\ state[cur[w]] \in {"leased", "running"}
    BY <1>3 DEF Owned, Active
  <2>2. CASE PeriodElapses(j)
    <3>1. state' = state /\ lease_age' = [lease_age EXCEPT ![j] = lease_age[j] + 1]
      BY <2>2 DEF PeriodElapses
    <3>2. j = cur[w] => lease_age[j] # 1
      BY <1>3, <2>2 DEF PeriodElapses
    <3>. QED
      BY <1>2, <1>3, <2>1, <3>1, <3>2
  <2>3. CASE ~PeriodElapses(j)
    <3>1. lease_age' = lease_age
      BY <2>3 DEF JobEvent, Enqueue, RequestCancel, HandleCancelJob, BackoffElapses
    <3>2. state' = state \/ \E s : state[j] \in {"absent", "queued"} /\ state' = [state EXCEPT ![j] = s]
      BY <2>3 DEF JobEvent, Enqueue, RequestCancel, HandleCancelJob, BackoffElapses
    <3>. QED
      BY <1>2, <1>3, <2>1, <3>1, <3>2
  <2>. QED
    BY <2>2, <2>3
<1>. QED
  BY <1>1, <1>3, LeaseStays DEF Executing

LEMMA WorkersHold ==
  ASSUME IInv, NEW w \in Workers, HoldsLease(w), NEW v \in Workers, WorkerEvent(v), faults' = faults
  PROVE  HoldsLease(w)'
<1>0. /\ state \in [Jobs -> JobStates] /\ lease_age \in [Jobs -> {0, 1, 2}] /\ lease_owner \in [Jobs -> Workers \cup {NoOne}]
      /\ pc \in [Workers -> PCs] /\ cur \in [Workers -> Jobs \cup {NoOne}] /\ beating \in [Workers -> BOOLEAN] /\ done \in [Workers -> BOOLEAN]
      /\ faults \in Nat
  BY FaultsAssumption DEF IInv, TypeOK
<1>1. ~Fault
  BY <1>0 DEF Fault
<1>2. CASE ClaimSelect(v) \/ ClaimIdle(v) \/ ClaimAbort(v)
  <2>1. /\ v = w => pc'[w] \notin {"claimed", "running", "finishing"}
        /\ v # w => pc'[w] = pc[w] /\ cur'[w] = cur[w]
        /\ UNCHANGED <<beating, done>> /\ UNCHANGED rows
    BY <1>0, <1>2 DEF ClaimSelect, ClaimIdle, ClaimAbort
  <2>2. CASE v = w
    BY <2>1, <2>2 DEF HoldsLease, Executing
  <2>3. CASE v # w
    BY <2>1, <2>3, LeaseStays DEF rows, Executing, Owned, Active
  <2>. QED
    BY <2>2, <2>3
<1>3. CASE ClaimCommit(v)
  <2>0. cur[v] \in Jobs /\ state[cur[v]] = "queued"
    BY <1>3 DEF ClaimCommit, IInv, ClaimsHoldRow
  <2>1. /\ state' = [state EXCEPT ![cur[v]] = "leased"] /\ lease_owner' = [lease_owner EXCEPT ![cur[v]] = v]
        /\ lease_age' = [lease_age EXCEPT ![cur[v]] = 0] /\ beating' = [beating EXCEPT ![v] = TRUE] /\ UNCHANGED <<cur, done>>
        /\ pc' = [pc EXCEPT ![v] = "claimed"]
    BY <1>3 DEF ClaimCommit
  <2>2. CASE v = w
    BY <1>0, <2>0, <2>1, <2>2 DEF HoldsLease, Owned, Active
  <2>3. CASE v # w
    <3>1. Owned(w) => cur[w] # cur[v] /\ cur[w] \in Jobs
      BY <2>0 DEF Owned, Active
    <3>. QED
      BY <1>0, <2>0, <2>1, <2>3, <3>1, LeaseStays DEF Executing, Owned, Active
  <2>. QED
    BY <2>2, <2>3
<1>4. CASE MarkRunning(v)
  <2>1. /\ state' = state \/ (cur[v] \in Jobs /\ state' = [state EXCEPT ![cur[v]] = "running"])
        /\ UNCHANGED <<lease_owner, lease_age, cur, beating, done>>
        /\ pc[v] = "claimed" /\ pc' = [pc EXCEPT ![v] = "running"]
    BY <1>4 DEF MarkRunning, Owned
  <2>2. Owned(w) => state'[cur[w]] \in {"leased", "running"}
    BY <1>0, <2>1 DEF Owned, Active
  <2>3. pc'[w] \in {"claimed", "running", "finishing"} => Executing(w)
    BY <1>0, <2>1 DEF Executing
  <2>. QED
    BY <2>1, <2>2, <2>3, LeaseStays
<1>5. CASE NoHandler(v) \/ HandlerReturns(v)
  <2>1. pc[v] \in {"claimed", "running"} /\ pc' = [pc EXCEPT ![v] = "finishing"] /\ UNCHANGED <<cur, beating, done>> /\ UNCHANGED rows
    BY <1>5 DEF NoHandler, HandlerReturns, HandlerReturn
  <2>2. pc'[w] \in {"claimed", "running", "finishing"} => Executing(w)
    BY <1>0, <2>1 DEF Executing
  <2>. QED
    BY <2>1, <2>2, LeaseStays DEF rows, Owned, Active
<1>6. CASE ExecuteFinish(v) \/ Crash(v)
  <2>1. /\ v = w => pc'[w] \notin {"claimed", "running", "finishing"}
        /\ v # w => pc'[w] = pc[w] /\ cur'[w] = cur[w] /\ beating'[w] = beating[w] /\ done'[w] = done[w]
        /\ UNCHANGED <<state, lease_owner, lease_age>> \/ FinishCall(v, result[v])
    BY <1>0, <1>6 DEF ExecuteFinish, Crash, DropLease, rows
  <2>2. CASE v = w
    BY <2>1, <2>2 DEF HoldsLease, Executing
  <2>3. CASE v # w
    <3>1. Owned(w) /\ lease_age[cur[w]] # 2 => /\ lease_owner'[cur[w]] = lease_owner[cur[w]] /\ state'[cur[w]] = state[cur[w]]
                                               /\ lease_age'[cur[w]] # 2
      BY <2>1, <2>3, OthersFinish
    <3>. QED
      BY <2>1, <2>3, <3>1, LeaseStays DEF Executing, Owned, Active
  <2>. QED
    BY <2>2, <2>3
<1>7. CASE ReclaimExpiredLeases(v)
  <2>1. /\ v = w => pc'[w] \notin {"claimed", "running", "finishing"}
        /\ v # w => pc'[w] = pc[w]
        /\ UNCHANGED <<cur, beating, done>>
        /\ \A i \in Jobs : lease_age[i] # 2 => state'[i] = state[i] /\ lease_owner'[i] = lease_owner[i] /\ lease_age'[i] = lease_age[i]
    BY <1>0, <1>7 DEF ReclaimExpiredLeases, Expired
  <2>2. CASE v = w
    BY <2>1, <2>2 DEF HoldsLease, Executing
  <2>3. CASE v # w
    BY <2>1, <2>3, LeaseStays DEF Executing, Owned, Active
  <2>. QED
    BY <2>2, <2>3
<1>8. CASE HandlerStep(v)
  <2>1. CASE Checkpoint(v) \/ \E i \in Steps, s \in StepStates \ {"pending"} : StepWrite(v, i, s)
    <3>1. /\ UNCHANGED <<state, lease_owner, pc, cur, beating, done>>
          /\ lease_age' = lease_age \/ (cur[v] \in Jobs /\ lease_age' = [lease_age EXCEPT ![cur[v]] = 0])
      BY <2>1 DEF Checkpoint, StepWrite, Owned
    <3>2. Owned(w) /\ lease_age[cur[w]] # 2 => lease_age'[cur[w]] # 2
      BY <1>0, <3>1 DEF Owned
    <3>. QED
      BY <3>1, <3>2, LeaseStays DEF Executing, Owned, Active
  <2>2. ASSUME NEW r \in {"nil", "error", "canceled"}, HandlerFinish(v, r) PROVE HoldsLease(w)'
    <3>1. FinishCall(v, r) /\ done' = [done EXCEPT ![v] = TRUE] /\ UNCHANGED <<pc, cur, beating>>
      BY <2>2 DEF HandlerFinish
    <3>2. CASE v = w
      BY <1>0, <3>1, <3>2 DEF HoldsLease
    <3>3. CASE v # w
      <4>1. Owned(w) /\ lease_age[cur[w]] # 2 => /\ lease_owner'[cur[w]] = lease_owner[cur[w]] /\ state'[cur[w]] = state[cur[w]]
                                                 /\ lease_age'[cur[w]] # 2
        BY <3>1, <3>3, OthersFinish
      <4>. QED
        BY <1>0, <3>1, <3>3, <4>1, LeaseStays DEF Executing, Owned, Active
    <3>. QED
      BY <3>2, <3>3
  <2>. QED
    BY <1>8, <2>1, <2>2 DEF HandlerStep
<1>9. CASE HeartbeatRenew(v)
  <2>1. /\ UNCHANGED <<state, lease_owner, pc, cur, done>>
        /\ \/ Owned(v) /\ lease_age' = [lease_age EXCEPT ![cur[v]] = 0] /\ beating' = beating
           \/ ~Owned(v) /\ lease_age' = lease_age /\ beating' = [beating EXCEPT ![v] = FALSE]
    BY <1>9 DEF HeartbeatRenew
  <2>2. CASE Owned(v) /\ lease_age' = [lease_age EXCEPT ![cur[v]] = 0] /\ beating' = beating
    <3>1. Owned(w) /\ lease_age[cur[w]] # 2 => lease_age'[cur[w]] # 2
      BY <1>0, <2>2 DEF Owned
    <3>. QED
      BY <2>1, <2>2, <3>1, LeaseStays DEF Executing, Owned, Active
  <2>3. CASE ~Owned(v) /\ lease_age' = lease_age /\ beating' = [beating EXCEPT ![v] = FALSE]
    <3>1. CASE v = w
      <4>1. ~(Executing(w) /\ ~done[w])
        BY <2>3, <3>1 DEF HoldsLease
      <4>. QED
        BY <2>1, <4>1 DEF HoldsLease, Executing
    <3>2. CASE v # w
      BY <1>0, <2>1, <2>3, <3>2, LeaseStays DEF Executing, Owned, Active
    <3>. QED
      BY <3>1, <3>2
  <2>. QED
    BY <2>1, <2>2, <2>3
<1>10. ~HeartbeatError(v)
  BY <1>1 DEF HeartbeatError
<1>. QED
  BY <1>2, <1>3, <1>4, <1>5, <1>6, <1>7, <1>8, <1>9, <1>10 DEF WorkerEvent, WorkerLoop

LEMMA LeasesStayHeld == ASSUME Timely, IInv, LeasesHeld, [Next]_vars PROVE LeasesHeld'
<1>1. SUFFICES ASSUME faults' = 0, NEW w \in Workers PROVE HoldsLease(w)'
  BY DEF LeasesHeld
<1>2. faults = 0 /\ faults' = faults
  <2>1. faults \in Nat
    BY FaultsAssumption DEF IInv, TypeOK
  <2>2. faults' = faults \/ Fault
    <3>1. CASE UNCHANGED vars
      BY <3>1 DEF vars
    <3>2. CASE PruneOldJobs
      BY <3>2 DEF PruneOldJobs
    <3>3. ASSUME NEW j \in Jobs, JobEvent(j) PROVE faults' = faults
      BY <3>3 DEF JobEvent, Enqueue, RequestCancel, HandleCancelJob, BackoffElapses, PeriodElapses
    <3>4. ASSUME NEW v \in Workers, WorkerEvent(v) PROVE faults' = faults \/ Fault
      <4>1. CASE WorkerLoop(v)
        BY <4>1 DEF WorkerLoop, ClaimSelect, ClaimIdle, ClaimCommit, ClaimAbort, MarkRunning, NoHandler, ExecuteFinish, FinishCall, ReclaimExpiredLeases
      <4>2. CASE HandlerStep(v) \/ HandlerReturns(v)
        BY <4>2 DEF HandlerStep, Checkpoint, StepWrite, HandlerFinish, FinishCall, HandlerReturns, HandlerReturn
      <4>3. CASE HeartbeatRenew(v) \/ HeartbeatError(v) \/ Crash(v)
        BY <4>3 DEF HeartbeatRenew, HeartbeatError, Crash
      <4>. QED
        BY <3>4, <4>1, <4>2, <4>3 DEF WorkerEvent
    <3>. QED
      BY <3>1, <3>2, <3>3, <3>4 DEF Next
  <2>. QED
    BY <1>1, <2>1, <2>2 DEF Fault
<1>3. HoldsLease(w)
  BY <1>2 DEF LeasesHeld
<1>4. CASE UNCHANGED vars
  BY <1>3, <1>4, LeaseStays DEF vars, Executing, Owned, Active
<1>5. CASE PruneOldJobs
  <2>1. /\ pc' = pc /\ cur' = cur /\ beating' = beating /\ done' = done /\ lease_owner' = lease_owner /\ lease_age' = lease_age
        /\ \A i \in Jobs : state[i] \in {"leased", "running"} => state'[i] = state[i]
    BY <1>5 DEF PruneOldJobs, Prunable, procs
  <2>. QED
    BY <1>3, <2>1, LeaseStays DEF Executing, Owned, Active
<1>. QED
  BY <1>2, <1>3, <1>4, <1>5, EventsHold, WorkersHold DEF Next

\* Two live handlers never work on one job or one resource at once (engine.go, execute and
\* its heartbeat goroutine; jobs.go, Renew and ReclaimExpiredLeases): with a heartbeat that
\* always comes before the expiry and a database that answers, no lease is reclaimed under
\* a handler, and leases exclude each other.
THEOREM HandlersNeverMeet == ASSUME Timely PROVE Spec => []HandlersExclude
<1>1. Init => LeasesHeld
  BY DEF Init, LeasesHeld, HoldsLease, Executing
<1>2. ASSUME IInv, LeasesHeld, [Next]_vars PROVE LeasesHeld'
  BY <1>2, LeasesStayHeld
<1>3. ASSUME IInv, LeasesHeld PROVE HandlersExclude
  <2> SUFFICES ASSUME faults = 0, NEW v \in Workers, NEW w \in Workers, v # w,
                      pc[v] = "running", ~done[v], pc[w] = "running", ~done[w]
               PROVE  cur[v] # cur[w] /\ JobLocks[cur[v]] \cap JobLocks[cur[w]] = {}
    BY DEF HandlersExclude
  <2>1. Owned(v) /\ Owned(w)
    BY <1>3 DEF LeasesHeld, HoldsLease, Executing
  <2>2. cur[v] # cur[w] /\ cur[v] \in Jobs /\ cur[w] \in Jobs /\ Active(cur[v]) /\ Active(cur[w])
    BY <2>1 DEF Owned
  <2>3. \A k \in LockKeys : ~(k \in JobLocks[cur[v]] /\ k \in JobLocks[cur[w]])
    BY <1>3, <2>2 DEF IInv, LockRowsExact
  <2>. QED
    BY <2>2, <2>3, LocksAssumption
<1>. QED
  BY <1>1, <1>2, <1>3, Inductive, PTL DEF Spec
=============================================================================
