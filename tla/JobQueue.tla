------------------------------ MODULE JobQueue ------------------------------
(***************************************************************************)
(* What the job engine promises its callers, without leases, workers or    *)
(* time: a submitted job is attempted a bounded number of times, never     *)
(* together with a job that shares one of its resources, and ends once.    *)
(***************************************************************************)
EXTENDS Naturals

CONSTANTS Jobs, JobLocks, MaxAttempts

VARIABLES status, tries

vars == <<status, tries>>

Ends == {"succeeded", "canceled", "dead_letter"}

Init == /\ status = [j \in Jobs |-> "absent"]
        /\ tries = [j \in Jobs |-> 0]

Submit(j) == /\ status[j] = "absent"
             /\ status' = [status EXCEPT ![j] = "waiting"]
             /\ UNCHANGED tries

\* An attempt starts only when no active job shares a resource with it.
Begin(j) ==
    /\ status[j] = "waiting"
    /\ tries[j] < MaxAttempts[j]
    /\ \A i \in Jobs : status[i] = "active" => JobLocks[i] \cap JobLocks[j] = {}
    /\ status' = [status EXCEPT ![j] = "active"]
    /\ tries' = [tries EXCEPT ![j] = @ + 1]

\* An attempt ends the job: a dead letter only when the attempts are used up.
End(j, s) ==
    /\ status[j] = "active"
    /\ s = "dead_letter" => tries[j] = MaxAttempts[j]
    /\ status' = [status EXCEPT ![j] = s]
    /\ UNCHANGED tries

\* Attempts that failed or were lost: retry while attempts remain.
Recover(S) ==
    /\ \A j \in S : status[j] = "active"
    /\ status' = [j \in Jobs |->
         IF j \notin S THEN status[j]
         ELSE IF tries[j] >= MaxAttempts[j] THEN "dead_letter" ELSE "waiting"]
    /\ UNCHANGED tries

CancelWaiting(j) ==
    /\ status[j] = "waiting"
    /\ status' = [status EXCEPT ![j] = "canceled"]
    /\ UNCHANGED tries

Forget(S) ==
    /\ \A j \in S : status[j] \in Ends
    /\ status' = [j \in Jobs |-> IF j \in S THEN "pruned" ELSE status[j]]
    /\ tries' = [j \in Jobs |-> IF j \in S THEN 0 ELSE tries[j]]

Next ==
    \/ \E j \in Jobs : Submit(j) \/ Begin(j) \/ CancelWaiting(j)
    \/ \E j \in Jobs, s \in Ends : End(j, s)
    \/ \E S \in SUBSET Jobs : Recover(S) \/ Forget(S)

Spec == Init /\ [][Next]_vars
=============================================================================
