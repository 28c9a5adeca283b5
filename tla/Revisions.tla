----------------------------- MODULE Revisions -----------------------------
(***************************************************************************)
(* The configuration-change model: internal/revisions/revisions.go,        *)
(* lifecycle.go and sync.go, with the constraints of migrations 0004 and   *)
(* 0010.  One resource.  A revision is a number, in the order of creation. *)
(*                                                                         *)
(* Transactions run at READ COMMITTED.  All but Apply lock their only row  *)
(* first and are one step, taken while no one else holds that row.  Apply  *)
(* locks the pending row, then selects the applied row FOR UPDATE: the     *)
(* query takes its snapshot, may wait, and then re-checks the row it found *)
(* but never finds another one.  It is two steps, with the snapshot in     *)
(* between.                                                                *)
(***************************************************************************)
EXTENDS Naturals

CONSTANTS
    MaxRevs,   \* bound: number of revisions
    Appliers,  \* callers of Apply
    MaxDrains, \* bound: number of passes of the Git sync worker
    MarkErrors \* whether the write that marks a pushed revision may fail

ASSUME RevsAssumption == MaxRevs \in Nat
ASSUME DrainsAssumption == MaxDrains \in Nat
ASSUME MarkErrorsAssumption == MarkErrors \in BOOLEAN

Revs == 1..MaxRevs
None == 0

VARIABLES
    state,    \* state[r]
    base,     \* base[r]: base_revision_id, or None
    doc,      \* doc[r]: the candidate, named after the revision that introduced it
    undo,     \* undo[r]: rollback_ref, a candidate or None
    passed,   \* revisions that passed validation
    checked,  \* revisions with a health result
    pending,  \* pending[a]: the revision a has locked in Apply, or None
    seen,     \* seen[a]: the applied revision in a's snapshot, or None
    git,      \* git[r]: git_sync_state
    mirror,   \* the revision whose candidate the Git mirror holds, or None
    batch,    \* revisions the sync worker has read and not yet handled
    drains    \* passes of the sync worker

vars == <<state, base, doc, undo, passed, checked, pending, seen, git, mirror,
          batch, drains>>
content == <<base, doc>>
sync == <<git, mirror, batch, drains>>
tx == <<pending, seen>>

States == {"absent", "draft", "validated", "applied", "failed", "rolled_back", "superseded"}

EverApplied(r) == state[r] \in {"applied", "superseded", "rolled_back"}
Locked(r) == \E a \in Appliers : pending[a] = r

\* Mutant of IndexAllows: the database without migration 0010.
NoIndex(r, c) == TRUE

\* The partial unique index of migration 0010: no other row is applied.
IndexAllows(r, c) == \A s \in Revs : state[s] = "applied" => s \in {r, c}

\* currentApplied.
CurrentApplied == IF \E r \in Revs : state[r] = "applied"
                  THEN CHOOSE r \in Revs : state[r] = "applied" ELSE None

\* The id the next INSERT gets.
Fresh(r) == state[r] = "absent" /\ \A s \in Revs : s < r => state[s] # "absent"

Init ==
    /\ state = [r \in Revs |-> "absent"]
    /\ base = [r \in Revs |-> None]
    /\ doc = [r \in Revs |-> None] /\ undo = [r \in Revs |-> None]
    /\ passed = {} /\ checked = {}
    /\ pending = [a \in Appliers |-> None] /\ seen = [a \in Appliers |-> None]
    /\ git = [r \in Revs |-> "none"]
    /\ mirror = None /\ batch = {} /\ drains = 0

\* Create.  An omitted base becomes the applied revision; a stale one is kept,
\* and the error that reports it changes nothing.
Create(r, b) ==
    /\ Fresh(r)
    /\ b # None => state[b] # "absent"
    /\ state' = [state EXCEPT ![r] = "draft"]
    /\ base' = [base EXCEPT ![r] = IF b = None THEN CurrentApplied ELSE b]
    /\ doc' = [doc EXCEPT ![r] = r]
    /\ git' = [git EXCEPT ![r] = "pending"]
    /\ UNCHANGED <<undo, passed, checked, mirror, batch, drains>> /\ UNCHANGED tx

\* The state a validation outcome leads to.
NextState(ok) == IF ok THEN "validated" ELSE "draft"

\* MarkValidated: only a draft; a failed validation leaves it one.
MarkValidated(r, ok) ==
    /\ state[r] = "draft" /\ ~Locked(r)
    /\ state' = [state EXCEPT ![r] = NextState(ok)]
    /\ passed' = IF ok THEN passed \cup {r} ELSE passed
    /\ UNCHANGED <<undo, checked>>
    /\ UNCHANGED content /\ UNCHANGED tx /\ UNCHANGED sync

\* Apply, first part: lock the pending row, check it, select the applied one.
ApplyBegin(a, r) ==
    /\ pending[a] = None
    /\ state[r] = "validated" /\ ~Locked(r)
    /\ pending' = [pending EXCEPT ![a] = r]
    /\ seen' = [seen EXCEPT ![a] = CurrentApplied]
    /\ UNCHANGED <<state, undo, passed, checked>>
    /\ UNCHANGED content /\ UNCHANGED sync

\* What currentAppliedForUpdate returns after its wait.
Current(a) == IF seen[a] # None /\ state[seen[a]] = "applied" THEN seen[a] ELSE None

\* Mutant of MayApply: the base check reports a missing applied revision only.
BaseUnchecked(a) == /\ Current(a) = None => base[pending[a]] = None
                    /\ IndexAllows(pending[a], Current(a))

\* The checks of Apply: the base is the row to supersede, and the index agrees.
MayApply(a) == /\ base[pending[a]] = Current(a)
               /\ IndexAllows(pending[a], Current(a))

End(a) == /\ pending' = [pending EXCEPT ![a] = None]
          /\ seen' = [seen EXCEPT ![a] = None]

\* Apply, second part: supersede, apply, record the rollback state, commit.
ApplyCommit(a) ==
    /\ pending[a] # None
    /\ MayApply(a)
    /\ LET r == pending[a]
           c == Current(a)
       IN  /\ state' = [s \in Revs |-> IF s = r THEN "applied"
                                       ELSE IF s = c THEN "superseded" ELSE state[s]]
           /\ undo' = [undo EXCEPT ![r] = IF c = None THEN @ ELSE doc[c]]
    /\ End(a)
    /\ UNCHANGED <<passed, checked>>
    /\ UNCHANGED content /\ UNCHANGED sync

\* ErrStaleBase, or any database error: the transaction rolls back.
ApplyAbort(a) ==
    /\ pending[a] # None
    /\ End(a)
    /\ UNCHANGED <<state, undo, passed, checked>>
    /\ UNCHANGED content /\ UNCHANGED sync

\* Apply of a failed attempt: finishFailedApply.
FinishFailedApply(r) ==
    /\ state[r] = "validated" /\ ~Locked(r)
    /\ state' = [state EXCEPT ![r] = "failed"]
    /\ UNCHANGED <<undo, passed, checked>>
    /\ UNCHANGED content /\ UNCHANGED tx /\ UNCHANGED sync

RecordHealth(r) ==
    /\ state[r] \in {"applied", "superseded"} /\ r \notin checked
    /\ checked' = checked \cup {r}
    /\ UNCHANGED <<state, undo, passed>>
    /\ UNCHANGED content /\ UNCHANGED tx /\ UNCHANGED sync

\* Mutant of Restored: the candidate of the revision rolled back.
RestoredSame(t) == doc[t]

\* The candidate a rollback restores.
Restored(t) == undo[t]

\* Rollback(t): a new revision n with the recorded candidate is inserted and
\* applied in the transaction that marks t rolled back.
Rollback(t, n) ==
    /\ state[t] = "applied" /\ ~Locked(t)
    /\ undo[t] # None
    /\ Fresh(n)
    /\ IndexAllows(n, t)
    /\ state' = [state EXCEPT ![t] = "rolled_back", ![n] = "applied"]
    /\ base' = [base EXCEPT ![n] = t]
    /\ doc' = [doc EXCEPT ![n] = Restored(t)]
    /\ git' = [git EXCEPT ![n] = "pending"]
    /\ UNCHANGED <<undo, passed, checked, mirror, batch, drains>> /\ UNCHANGED tx

\* DrainOnce reads the backlog (PendingGitSync)...
Drain ==
    /\ batch = {} /\ drains < MaxDrains
    /\ batch' = {r \in Revs : git[r] = "pending"}
    /\ drains' = drains + 1
    /\ UNCHANGED <<state, undo, passed, checked, git, mirror>>
    /\ UNCHANGED content /\ UNCHANGED tx

\* Mutant of Oldest: ORDER BY created_at DESC.
NewestFirst(r) == r \in batch /\ \A s \in batch : r >= s

Oldest(r) == r \in batch /\ \A s \in batch : r <= s

\* ...and handles it oldest first.  The push may fail, or fail after the mirror
\* took it; with no syncer the row is marked not_required; whatever the mark, its
\* own failure is ignored and leaves the row pending.
GitSync(r) ==
    /\ Oldest(r)
    /\ batch' = batch \ {r}
    /\ \/ mirror' = r /\ git' = [git EXCEPT ![r] = "synced"]
       \/ mirror' \in {mirror, r} /\ git' = [git EXCEPT ![r] = "failed"]
       \/ MarkErrors /\ mirror' \in {mirror, r} /\ UNCHANGED git
       \/ UNCHANGED mirror /\ git' = [git EXCEPT ![r] = "not_required"]
    /\ UNCHANGED <<state, undo, passed, checked, drains>>
    /\ UNCHANGED content /\ UNCHANGED tx

\* The controller stops between two revisions of the batch.  A pass that LIMIT has cut
\* short is this too: a batch whose rest is never handled.
DrainStops ==
    /\ batch # {} /\ batch' = {}
    /\ UNCHANGED <<state, undo, passed, checked, git, mirror, drains>>
    /\ UNCHANGED content /\ UNCHANGED tx

Next ==
    \/ \E r \in Revs : \/ \E b \in Revs \cup {None} : Create(r, b)
                       \/ \E ok \in BOOLEAN : MarkValidated(r, ok)
                       \/ FinishFailedApply(r)
                       \/ RecordHealth(r) \/ GitSync(r)
    \/ \E t, n \in Revs : Rollback(t, n)
    \/ Drain \/ DrainStops
    \/ \E a \in Appliers, r \in Revs : ApplyBegin(a, r)
    \/ \E a \in Appliers : ApplyCommit(a) \/ ApplyAbort(a)

Spec == Init /\ [][Next]_vars

-----------------------------------------------------------------------------
(* Properties *)

\* Every row, transaction and mirror variable has its type.
TypeOK ==
    /\ state \in [Revs -> States]
    /\ base \in [Revs -> Revs \cup {None}]
    /\ doc \in [Revs -> Revs \cup {None}]
    /\ undo \in [Revs -> Revs \cup {None}]
    /\ passed \subseteq Revs /\ checked \subseteq Revs
    /\ pending \in [Appliers -> Revs \cup {None}]
    /\ seen \in [Appliers -> Revs \cup {None}]
    /\ git \in [Revs -> {"none", "pending", "synced", "failed", "not_required"}]
    /\ mirror \in Revs \cup {None}
    /\ batch \subseteq Revs /\ drains \in 0..MaxDrains

\* At most one revision is in force, and once one was, one always is: no race
\* of applies and rollbacks leaves two or none.
OneApplied ==
    /\ \A r, s \in Revs : state[r] = "applied" /\ state[s] = "applied" => r = s
    /\ (\E r \in Revs : EverApplied(r)) => \E r \in Revs : state[r] = "applied"

\* No lost update: the revisions that were ever in force form one line, each the
\* successor of another one, so that no applied change was made on a base that
\* someone else had already replaced.
LinearHistory ==
    \A r \in Revs : EverApplied(r) =>
        /\ base[r] # None => state[base[r]] \in {"superseded", "rolled_back"}
        /\ \A s \in Revs : EverApplied(s) /\ s # r => base[s] # base[r]

\* A rollback restores exactly what the rolled-back revision replaced: the
\* candidate of its own base.
RollbackRestoresBase ==
    \A r \in Revs : EverApplied(r) /\ base[r] # None /\ state[base[r]] = "rolled_back" =>
        /\ base[base[r]] # None
        /\ doc[r] = doc[base[base[r]]]

\* What is or was in force has passed validation, a candidate restored by a
\* rollback included, although Rollback validates nothing itself.
DocumentsValidated == \A r \in Revs : EverApplied(r) => doc[r] \in passed

\* What Apply and Rollback put in force can be relied on: it is the document the
\* caller named, or the one a rollback has to restore, and it passed validation.
DocumentsSound == TypeOK /\ RollbackRestoresBase /\ DocumentsValidated

\* PendingGitSync: "oldest first, so a sync worker drains the backlog in the order
\* changes were made".  A push never replaces a newer candidate by an older one.
MirrorInOrder == [][mirror' >= mirror]_vars
=============================================================================
