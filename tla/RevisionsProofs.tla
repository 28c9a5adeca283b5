-------------------------- MODULE RevisionsProofs --------------------------
(***************************************************************************)
(* Proofs about Revisions: for any number of revisions and of concurrent   *)
(* callers of Apply, one revision is in force, no applied change was made  *)
(* on a replaced base, and a rollback restores what was replaced.          *)
(***************************************************************************)
EXTENDS Revisions, TLAPS

\* A transaction in Apply holds a validated revision, and holds it alone.
PendingHeld ==
    /\ \A a \in Appliers : pending[a] # None => state[pending[a]] = "validated"
    /\ \A a, b \in Appliers : pending[a] # None /\ pending[a] = pending[b] => a = b

\* A recorded rollback state is the candidate of the base, and only a revision
\* that was in force has one.
UndoIsBase ==
    \A r \in Revs : undo[r] # None => /\ EverApplied(r)
                                      /\ base[r] # None
                                      /\ undo[r] = doc[base[r]]

\* A draft holds its own candidate, and what is validated or was in force holds
\* one that passed validation.
PassedDocs ==
    \A r \in Revs :
        /\ state[r] = "draft" => doc[r] = r
        /\ state[r] = "validated" \/ EverApplied(r) => doc[r] \in passed

\* The inductive invariant.
IInv == TypeOK /\ PendingHeld /\ OneApplied /\ LinearHistory /\ UndoIsBase
               /\ RollbackRestoresBase /\ PassedDocs

-----------------------------------------------------------------------------
(* Helpers *)

\* The applied row a query finds is a revision, or there is none.
LEMMA CurrentAppliedType == CurrentApplied \in Revs \cup {None}
  BY DEF CurrentApplied

\* None is no revision.
LEMMA NoneNotRev == None \notin Revs
  BY RevsAssumption DEF None, Revs

\* The row Apply supersedes is in force when it does.
LEMMA CurrentIsApplied ==
    ASSUME TypeOK, NEW a \in Appliers
    PROVE  /\ Current(a) \in Revs \cup {None}
           /\ Current(a) # None => state[Current(a)] = "applied"
  BY DEF Current, TypeOK

-----------------------------------------------------------------------------
(* The type invariant *)

\* Every operation of the lifecycle and of the sync worker keeps the types.
LEMMA NextType == TypeOK /\ [Next]_vars => TypeOK'
<1> SUFFICES ASSUME TypeOK, [Next]_vars PROVE TypeOK'
  OBVIOUS
<1> USE DEF content, tx, sync
<1>1. ASSUME NEW r \in Revs, NEW b \in Revs \cup {None}, Create(r, b) PROVE TypeOK'
  BY <1>1, CurrentAppliedType DEF Create, TypeOK, States
<1>2. ASSUME NEW r \in Revs, NEW ok \in BOOLEAN, MarkValidated(r, ok) PROVE TypeOK'
  <2>1. NextState(ok) \in States
    BY DEF NextState, States
  <2> QED BY <1>2, <2>1 DEF MarkValidated, TypeOK
<1>3. ASSUME NEW r \in Revs, FinishFailedApply(r) PROVE TypeOK'
  BY <1>3 DEF FinishFailedApply, TypeOK, States
<1>4. ASSUME NEW r \in Revs, RecordHealth(r) PROVE TypeOK'
  BY <1>4 DEF RecordHealth, TypeOK
<1>5. ASSUME NEW r \in Revs, GitSync(r) PROVE TypeOK'
  <2>1. mirror' \in Revs \cup {None} /\ batch' \subseteq Revs
    BY <1>5 DEF GitSync, TypeOK
  <2>2. git' \in [Revs -> {"none", "pending", "synced", "failed", "not_required"}]
    BY <1>5 DEF GitSync, TypeOK
  <2> QED BY <1>5, <2>1, <2>2 DEF GitSync, TypeOK
<1>6. ASSUME NEW t \in Revs, NEW n \in Revs, Rollback(t, n) PROVE TypeOK'
  BY <1>6 DEF Rollback, Restored, TypeOK, States
<1>7. ASSUME NEW a \in Appliers, NEW r \in Revs, ApplyBegin(a, r) PROVE TypeOK'
  BY <1>7, CurrentAppliedType DEF ApplyBegin, TypeOK
<1>8. ASSUME NEW a \in Appliers, ApplyCommit(a) PROVE TypeOK'
  <2>1. pending[a] \in Revs
    BY <1>8 DEF ApplyCommit, TypeOK
  <2>2. state' \in [Revs -> States]
    BY <1>8 DEF ApplyCommit, TypeOK, States
  <2>3. undo' \in [Revs -> Revs \cup {None}]
    BY <1>8, <2>1, CurrentIsApplied DEF ApplyCommit, TypeOK
  <2> QED BY <1>8, <2>2, <2>3 DEF ApplyCommit, End, TypeOK
<1>9. ASSUME NEW a \in Appliers, ApplyAbort(a) PROVE TypeOK'
  BY <1>9 DEF ApplyAbort, End, TypeOK
<1>10. CASE Drain
  <2>1. drains' \in 0..MaxDrains
    BY <1>10, DrainsAssumption DEF Drain, TypeOK
  <2> QED BY <1>10, <2>1 DEF Drain, TypeOK
<1>11. CASE DrainStops
  BY <1>11 DEF DrainStops, TypeOK
<1>12. CASE UNCHANGED vars
  BY <1>12 DEF vars, TypeOK
<1> QED BY <1>1, <1>2, <1>3, <1>4, <1>5, <1>6, <1>7, <1>8, <1>9, <1>10, <1>11, <1>12
        DEF Next

-----------------------------------------------------------------------------
(* The steps, as far as the history is concerned *)

\* Rows that no lifecycle step changed: states, bases, candidates, rollback states.
Rows == <<state, base, doc, undo>>

\* A step that leaves EverApplied alone: it may add a draft, validate one or fail
\* a validated revision.
Preliminary(r) ==
    /\ state[r] \in {"absent", "draft", "validated"}
    /\ state'[r] \in {"draft", "validated", "failed"}
    /\ \A s \in Revs : s # r => /\ state'[s] = state[s]
                                /\ base'[s] = base[s] /\ doc'[s] = doc[s]
    /\ state[r] = "absent" \/ (base'[r] = base[r] /\ doc'[r] = doc[r])
    /\ UNCHANGED undo

\* A preliminary step keeps the history invariants.
LEMMA PreliminaryKeeps ==
    ASSUME IInv, TypeOK', NEW r \in Revs, Preliminary(r)
    PROVE  OneApplied' /\ LinearHistory' /\ UndoIsBase' /\ RollbackRestoresBase'
<1> USE NoneNotRev DEF IInv, Preliminary
<1>1. \A s \in Revs : EverApplied(s)' <=> EverApplied(s)
  BY DEF EverApplied, TypeOK
<1>2. \A s \in Revs : EverApplied(s) => /\ s # r /\ state'[s] = state[s]
                                       /\ base'[s] = base[s] /\ doc'[s] = doc[s]
  BY DEF EverApplied, TypeOK
<1>3. OneApplied'
  BY <1>1, <1>2 DEF OneApplied, EverApplied
<1>4. \A s \in Revs : EverApplied(s) /\ base[s] # None =>
          base[s] \in Revs /\ EverApplied(base[s])
  BY DEF LinearHistory, EverApplied, TypeOK
<1>5. LinearHistory'
  BY <1>1, <1>2, <1>4 DEF LinearHistory
<1>6. UndoIsBase'
  BY <1>1, <1>2, <1>4 DEF UndoIsBase
<1>7. RollbackRestoresBase'
  BY <1>1, <1>2, <1>4 DEF RollbackRestoresBase
<1> QED BY <1>3, <1>5, <1>6, <1>7

\* What ApplyCommit does to the rows: the pending revision replaces its base.
LEMMA ApplyStep ==
    ASSUME IInv, NEW a \in Appliers, ApplyCommit(a)
    PROVE  LET r == pending[a] c == Current(a) IN
           /\ r \in Revs /\ state[r] = "validated" /\ base[r] = c /\ r # c
           /\ \A s \in Revs : state[s] = "applied" => s = c
           /\ state'[r] = "applied"
           /\ c # None => c \in Revs /\ state[c] = "applied" /\ state'[c] = "superseded"
           /\ \A s \in Revs : s # r /\ s # c => state'[s] = state[s]
           /\ UNCHANGED <<base, doc>>
           /\ undo'[r] = (IF c = None THEN undo[r] ELSE doc[c])
           /\ \A s \in Revs : s # r => undo'[s] = undo[s]
<1> DEFINE r == pending[a]
           c == Current(a)
<1>1. r \in Revs /\ state[r] = "validated"
  BY DEF IInv, TypeOK, PendingHeld, ApplyCommit
<1>2. c \in Revs \cup {None} /\ (c # None => state[c] = "applied")
  BY CurrentIsApplied DEF IInv
<1>3. r # c
  BY <1>1, <1>2, NoneNotRev
<1>4. base[r] = c /\ \A s \in Revs : state[s] = "applied" => s = c
  BY <1>1 DEF ApplyCommit, MayApply, IndexAllows
<1>5. /\ state' = [s \in Revs |-> IF s = r THEN "applied"
                                  ELSE IF s = c THEN "superseded" ELSE state[s]]
      /\ undo' = [undo EXCEPT ![r] = IF c = None THEN undo[r] ELSE doc[c]]
      /\ UNCHANGED <<base, doc>>
  BY DEF ApplyCommit, content
<1>6. undo \in [Revs -> Revs \cup {None}]
  BY DEF IInv, TypeOK
<1> QED BY <1>1, <1>2, <1>3, <1>4, <1>5, <1>6

\* An apply keeps the history invariants.
LEMMA ApplyKeeps ==
    ASSUME IInv, TypeOK', NEW a \in Appliers, ApplyCommit(a)
    PROVE  OneApplied' /\ LinearHistory' /\ UndoIsBase' /\ RollbackRestoresBase'
<1> DEFINE r == pending[a]
           c == Current(a)
<1>0. /\ r \in Revs /\ state[r] = "validated" /\ base[r] = c /\ r # c
      /\ \A s \in Revs : state[s] = "applied" => s = c
      /\ state'[r] = "applied"
      /\ c # None => c \in Revs /\ state[c] = "applied" /\ state'[c] = "superseded"
      /\ \A s \in Revs : s # r /\ s # c => state'[s] = state[s]
      /\ base' = base /\ doc' = doc
      /\ undo'[r] = (IF c = None THEN undo[r] ELSE doc[c])
      /\ \A s \in Revs : s # r => undo'[s] = undo[s]
  BY ApplyStep
<1> HIDE DEF r, c
<1>1. \A s \in Revs : EverApplied(s)' <=> (EverApplied(s) \/ s = r)
  BY <1>0, NoneNotRev DEF EverApplied
<1>2. \A s \in Revs : EverApplied(s) /\ base[s] # None =>
          /\ base[s] \in Revs /\ base[s] # c /\ base[s] # r
          /\ state[base[s]] \in {"superseded", "rolled_back"}
          /\ state'[base[s]] = state[base[s]]
  BY <1>0 DEF IInv, LinearHistory, TypeOK
<1>3. c = None => \A s \in Revs : ~EverApplied(s)
  BY <1>0, NoneNotRev DEF IInv, OneApplied
<1>4. OneApplied'
  BY <1>0, NoneNotRev DEF OneApplied
<1>5. ~EverApplied(r)
  BY <1>0 DEF EverApplied
<1>6. LinearHistory'
  <2> SUFFICES ASSUME NEW s \in Revs, EverApplied(s)'
               PROVE  /\ base'[s] # None => state'[base'[s]] \in {"superseded", "rolled_back"}
                      /\ \A u \in Revs : EverApplied(u)' /\ u # s => base'[u] # base'[s]
    BY DEF LinearHistory
  <2>1. CASE s = r
    BY <2>1, <1>0, <1>1, <1>2, <1>3
  <2>2. CASE s # r
    BY <2>2, <1>0, <1>1, <1>2, <1>3 DEF IInv, LinearHistory
  <2> QED BY <2>1, <2>2
<1>7. UndoIsBase'
  BY <1>0, <1>1, <1>5 DEF IInv, UndoIsBase
<1>8. RollbackRestoresBase'
  <2> SUFFICES ASSUME NEW s \in Revs, EverApplied(s)', base[s] # None,
                      state'[base[s]] = "rolled_back"
               PROVE  base[base[s]] # None /\ doc[s] = doc[base[base[s]]]
    BY <1>0 DEF RollbackRestoresBase
  <2>1. s # r
    BY <1>0
  <2> QED BY <2>1, <1>0, <1>1, <1>2 DEF IInv, RollbackRestoresBase
<1> QED BY <1>4, <1>6, <1>7, <1>8

\* A rollback keeps the history invariants.
LEMMA RollbackKeeps ==
    ASSUME IInv, TypeOK', NEW t \in Revs, NEW n \in Revs, Rollback(t, n)
    PROVE  OneApplied' /\ LinearHistory' /\ UndoIsBase' /\ RollbackRestoresBase'
<1>0. /\ state[t] = "applied" /\ state[n] = "absent" /\ t # n
      /\ state'[t] = "rolled_back" /\ state'[n] = "applied"
      /\ \A s \in Revs : s # t /\ s # n => state'[s] = state[s]
      /\ base'[n] = t /\ \A s \in Revs : s # n => base'[s] = base[s]
      /\ doc'[n] = undo[t] /\ \A s \in Revs : s # n => doc'[s] = doc[s]
      /\ undo' = undo /\ undo[t] # None
  BY DEF Rollback, Restored, Fresh, IInv, TypeOK
<1>1. \A s \in Revs : EverApplied(s)' <=> (EverApplied(s) \/ s = n)
  BY <1>0 DEF EverApplied
<1>2. \A s \in Revs : EverApplied(s) /\ base[s] # None =>
          /\ base[s] \in Revs /\ base[s] # t /\ base[s] # n
          /\ state[base[s]] \in {"superseded", "rolled_back"}
          /\ state'[base[s]] = state[base[s]]
  BY <1>0 DEF IInv, LinearHistory, TypeOK
<1>3. ~EverApplied(n) /\ EverApplied(t)
  BY <1>0 DEF EverApplied
<1>4. OneApplied'
  BY <1>0 DEF IInv, OneApplied
<1>5. LinearHistory'
  <2> SUFFICES ASSUME NEW s \in Revs, EverApplied(s)'
               PROVE  /\ base'[s] # None => state'[base'[s]] \in {"superseded", "rolled_back"}
                      /\ \A u \in Revs : EverApplied(u)' /\ u # s => base'[u] # base'[s]
    BY DEF LinearHistory
  <2>1. CASE s = n
    BY <2>1, <1>0, <1>1, <1>2, NoneNotRev
  <2>2. CASE s # n
    BY <2>2, <1>0, <1>1, <1>2, NoneNotRev DEF IInv, LinearHistory
  <2> QED BY <2>1, <2>2
<1>6. UndoIsBase'
  <2> SUFFICES ASSUME NEW s \in Revs, undo[s] # None
               PROVE  EverApplied(s)' /\ base'[s] # None /\ undo[s] = doc'[base'[s]]
    BY <1>0 DEF UndoIsBase
  <2>1. EverApplied(s) /\ base[s] # None /\ undo[s] = doc[base[s]]
    BY DEF IInv, UndoIsBase
  <2> QED BY <2>1, <1>0, <1>1, <1>2, <1>3
<1>7. RollbackRestoresBase'
  <2> SUFFICES ASSUME NEW s \in Revs, EverApplied(s)', base'[s] # None,
                      state'[base'[s]] = "rolled_back"
               PROVE  base'[base'[s]] # None /\ doc'[s] = doc'[base'[base'[s]]]
    BY DEF RollbackRestoresBase
  <2>1. CASE s = n
    <3>1. base[t] # None /\ undo[t] = doc[base[t]]
      BY <1>0 DEF IInv, UndoIsBase
    <3> QED BY <2>1, <3>1, <1>0, <1>2, <1>3
  <2>2. CASE s # n
    <3>1. EverApplied(s) /\ base[s] # None /\ state[base[s]] = "rolled_back"
      BY <2>2, <1>0, <1>1, <1>2
    <3>2. base[s] \in Revs /\ EverApplied(base[s]) /\ base[s] # n
      BY <3>1, <1>2 DEF EverApplied
    <3>3. base[base[s]] # None /\ doc[s] = doc[base[base[s]]]
      BY <3>1 DEF IInv, RollbackRestoresBase
    <3>4. base[base[s]] \in Revs /\ base[base[s]] # n
      BY <3>2, <3>3, <1>2
    <3> QED BY <2>2, <3>2, <3>3, <3>4, <1>0
  <2> QED BY <2>1, <2>2
<1> QED BY <1>4, <1>5, <1>6, <1>7

\* A step that leaves the rows alone keeps the history invariants.
LEMMA RowsKept ==
    ASSUME IInv, UNCHANGED Rows
    PROVE  OneApplied' /\ LinearHistory' /\ UndoIsBase' /\ RollbackRestoresBase'
  BY DEF IInv, Rows, OneApplied, LinearHistory, UndoIsBase, RollbackRestoresBase,
         EverApplied

\* The row locks of Apply keep a pending revision validated.
LEMMA NextPending == IInv /\ [Next]_vars => PendingHeld'
<1> SUFFICES ASSUME IInv, [Next]_vars PROVE PendingHeld'
  OBVIOUS
<1> USE NoneNotRev DEF content, tx, sync
<1>0. TypeOK /\ PendingHeld
  BY DEF IInv
<1>1. ASSUME NEW r \in Revs, UNCHANGED tx, ~Locked(r), 
             \A s \in Revs : s # r => state'[s] = state[s] \/ state[s] # "validated"
      PROVE  PendingHeld'
  BY <1>0, <1>1 DEF PendingHeld, Locked, TypeOK
<1>2. ASSUME NEW r \in Revs, NEW b \in Revs \cup {None}, Create(r, b) PROVE PendingHeld'
  <2>1. ~Locked(r)
    BY <1>0, <1>2 DEF Create, Fresh, Locked, PendingHeld
  <2> QED BY <1>0, <1>1, <1>2, <2>1 DEF Create, TypeOK
<1>3. ASSUME NEW r \in Revs, NEW ok \in BOOLEAN, MarkValidated(r, ok) PROVE PendingHeld'
  BY <1>0, <1>1, <1>3 DEF MarkValidated, TypeOK
<1>4. ASSUME NEW r \in Revs, FinishFailedApply(r) PROVE PendingHeld'
  BY <1>0, <1>1, <1>4 DEF FinishFailedApply, TypeOK
<1>5. ASSUME UNCHANGED <<state, pending>> PROVE PendingHeld'
  BY <1>0, <1>5 DEF PendingHeld
<1>6. ASSUME NEW t \in Revs, NEW n \in Revs, Rollback(t, n) PROVE PendingHeld'
  <2>1. \A s \in Revs : state[s] = "validated" => state'[s] = state[s]
    BY <1>0, <1>6 DEF Rollback, Fresh, TypeOK
  <2> QED BY <1>0, <1>6, <2>1 DEF Rollback, PendingHeld, TypeOK
<1>7. ASSUME NEW a \in Appliers, NEW r \in Revs, ApplyBegin(a, r) PROVE PendingHeld'
  BY <1>0, <1>7 DEF ApplyBegin, PendingHeld, Locked, TypeOK
<1>8. ASSUME NEW a \in Appliers, ApplyCommit(a) PROVE PendingHeld'
  <2>1. /\ \A s \in Revs : s # pending[a] /\ s # Current(a) => state'[s] = state[s]
        /\ Current(a) # None => state[Current(a)] = "applied"
    BY <1>8, ApplyStep
  <2>2. pending' = [pending EXCEPT ![a] = None]
    BY <1>8 DEF ApplyCommit, End
  <2>3. \A b \in Appliers : pending'[b] # None => b # a /\ pending'[b] = pending[b]
                                                  /\ pending[b] # pending[a]
    BY <1>0, <1>8, <2>2 DEF TypeOK, PendingHeld, ApplyCommit
  <2> QED BY <1>0, <2>1, <2>3 DEF TypeOK, PendingHeld
<1>9. ASSUME NEW a \in Appliers, ApplyAbort(a) PROVE PendingHeld'
  BY <1>0, <1>9 DEF ApplyAbort, End, PendingHeld, TypeOK
<1>10. ASSUME NEW r \in Revs, RecordHealth(r) \/ GitSync(r) PROVE PendingHeld'
  BY <1>5, <1>10 DEF RecordHealth, GitSync
<1>11. CASE Drain \/ DrainStops \/ UNCHANGED vars
  BY <1>5, <1>11 DEF Drain, DrainStops, vars
<1> QED BY <1>2, <1>3, <1>4, <1>6, <1>7, <1>8, <1>9, <1>10, <1>11 DEF Next

\* Validation, apply and rollback keep the candidates validated.
LEMMA NextPassed == IInv /\ [Next]_vars => PassedDocs'
<1> SUFFICES ASSUME IInv, [Next]_vars PROVE PassedDocs'
  OBVIOUS
<1> USE NoneNotRev DEF content, tx, sync
<1>0. TypeOK /\ PendingHeld /\ PassedDocs
  BY DEF IInv
<1>1. ASSUME NEW r \in Revs, NEW b \in Revs \cup {None}, Create(r, b) PROVE PassedDocs'
  BY <1>0, <1>1 DEF Create, Fresh, PassedDocs, EverApplied, TypeOK
<1>2. ASSUME NEW r \in Revs, NEW ok \in BOOLEAN, MarkValidated(r, ok) PROVE PassedDocs'
  <2>1. /\ passed \subseteq passed' /\ doc' = doc
        /\ \A s \in Revs : s # r => state'[s] = state[s]
    BY <1>0, <1>2 DEF MarkValidated, TypeOK
  <2>2. state'[r] = "draft" \/ (state'[r] = "validated" /\ r \in passed')
    BY <1>0, <1>2 DEF MarkValidated, NextState, TypeOK
  <2>3. doc[r] = r
    BY <1>0, <1>2 DEF MarkValidated, PassedDocs
  <2> QED BY <1>0, <2>1, <2>2, <2>3 DEF PassedDocs, EverApplied
<1>3. ASSUME NEW r \in Revs, FinishFailedApply(r) PROVE PassedDocs'
  BY <1>0, <1>3 DEF FinishFailedApply, PassedDocs, EverApplied, TypeOK
<1>4. ASSUME NEW t \in Revs, NEW n \in Revs, Rollback(t, n) PROVE PassedDocs'
  <2>1. undo[t] \in passed
    BY <1>4 DEF Rollback, IInv, UndoIsBase, LinearHistory, PassedDocs, EverApplied, TypeOK
  <2>2. /\ passed' = passed /\ doc'[n] \in passed /\ state'[n] = "applied"
        /\ \A s \in Revs : s # n => doc'[s] = doc[s]
        /\ \A s \in Revs : s # n /\ s # t => state'[s] = state[s]
        /\ n # t => state'[t] = "rolled_back"
        /\ state[t] = "applied"
    BY <1>0, <1>4, <2>1 DEF Rollback, Restored, Fresh, TypeOK
  <2> QED BY <1>0, <2>2 DEF PassedDocs, EverApplied
<1>5. ASSUME NEW a \in Appliers, ApplyCommit(a) PROVE PassedDocs'
  <2>1. \A s \in Revs : s # pending[a] /\ s # Current(a) => state'[s] = state[s]
    BY <1>5, ApplyStep
  <2>2. state[pending[a]] = "validated" /\ state'[pending[a]] = "applied"
    BY <1>0, <1>5 DEF ApplyCommit, PendingHeld, TypeOK
  <2>3. Current(a) # None => /\ state[Current(a)] = "applied"
                             /\ Current(a) \in Revs
                             /\ state'[Current(a)] = "superseded"
    BY <1>0, <1>5, <2>2 DEF ApplyCommit, Current, TypeOK
  <2>4. doc' = doc /\ passed' = passed
    BY <1>5 DEF ApplyCommit
  <2>5. \A s \in Revs : state'[s] = "draft" => state[s] = "draft"
    BY <2>1, <2>2, <2>3
  <2>6. \A s \in Revs : state'[s] = "validated" \/ EverApplied(s)'
                            => state[s] = "validated" \/ EverApplied(s)
    BY <2>1, <2>2, <2>3 DEF EverApplied
  <2> QED BY <1>0, <2>4, <2>5, <2>6 DEF PassedDocs
<1>6. ASSUME UNCHANGED <<state, doc, passed>> PROVE PassedDocs'
  BY <1>0, <1>6 DEF PassedDocs, EverApplied
<1>7. ASSUME NEW r \in Revs, RecordHealth(r) \/ GitSync(r) PROVE PassedDocs'
  BY <1>6, <1>7 DEF RecordHealth, GitSync
<1>8. ASSUME NEW a \in Appliers, NEW r \in Revs, ApplyBegin(a, r) PROVE PassedDocs'
  BY <1>6, <1>8 DEF ApplyBegin
<1>9. ASSUME NEW a \in Appliers, ApplyAbort(a) PROVE PassedDocs'
  BY <1>6, <1>9 DEF ApplyAbort
<1>10. CASE Drain \/ DrainStops \/ UNCHANGED vars
  BY <1>6, <1>10 DEF Drain, DrainStops, vars
<1> QED BY <1>1, <1>2, <1>3, <1>4, <1>5, <1>7, <1>8, <1>9, <1>10 DEF Next

\* Every step keeps the inductive invariant.
LEMMA NextIInv == IInv /\ [Next]_vars => IInv'
<1> SUFFICES ASSUME IInv, [Next]_vars PROVE IInv'
  OBVIOUS
<1> USE DEF content, tx, sync
<1>0. TypeOK /\ TypeOK' /\ PendingHeld' /\ PassedDocs'
  BY NextType, NextPending, NextPassed DEF IInv
<1> DEFINE Kept == OneApplied' /\ LinearHistory' /\ UndoIsBase' /\ RollbackRestoresBase'
<1>1. ASSUME NEW r \in Revs, NEW b \in Revs \cup {None}, Create(r, b) PROVE Kept
  <2>1. Preliminary(r)
    BY <1>0, <1>1 DEF Create, Fresh, Preliminary, TypeOK
  <2> QED BY <1>0, <2>1, PreliminaryKeeps
<1>2. ASSUME NEW r \in Revs, NEW ok \in BOOLEAN, MarkValidated(r, ok) PROVE Kept
  <2>1. Preliminary(r)
    BY <1>0, <1>2 DEF MarkValidated, NextState, Preliminary, TypeOK
  <2> QED BY <1>0, <2>1, PreliminaryKeeps
<1>3. ASSUME NEW r \in Revs, FinishFailedApply(r) PROVE Kept
  <2>1. Preliminary(r)
    BY <1>0, <1>3 DEF FinishFailedApply, Preliminary, TypeOK
  <2> QED BY <1>0, <2>1, PreliminaryKeeps
<1>4. ASSUME NEW t \in Revs, NEW n \in Revs, Rollback(t, n) PROVE Kept
  BY <1>0, <1>4, RollbackKeeps
<1>5. ASSUME NEW a \in Appliers, ApplyCommit(a) PROVE Kept
  BY <1>0, <1>5, ApplyKeeps
<1>6. ASSUME NEW r \in Revs, RecordHealth(r) \/ GitSync(r) PROVE Kept
  <2>1. UNCHANGED Rows
    BY <1>6 DEF RecordHealth, GitSync, Rows
  <2> QED BY <2>1, RowsKept
<1>7. ASSUME NEW a \in Appliers, NEW r \in Revs, ApplyBegin(a, r) PROVE Kept
  <2>1. UNCHANGED Rows
    BY <1>7 DEF ApplyBegin, Rows
  <2> QED BY <2>1, RowsKept
<1>8. ASSUME NEW a \in Appliers, ApplyAbort(a) PROVE Kept
  <2>1. UNCHANGED Rows
    BY <1>8 DEF ApplyAbort, Rows
  <2> QED BY <2>1, RowsKept
<1>9. ASSUME Drain \/ DrainStops \/ UNCHANGED vars PROVE Kept
  <2>1. UNCHANGED Rows
    BY <1>9 DEF Drain, DrainStops, vars, Rows
  <2> QED BY <2>1, RowsKept
<1> HIDE DEF Kept
<1>10. Kept
  BY <1>1, <1>2, <1>3, <1>4, <1>5, <1>6, <1>7, <1>8, <1>9 DEF Next
<1> QED BY <1>0, <1>10 DEF Kept, IInv

\* The empty table satisfies the inductive invariant.
LEMMA InitIInv == Init => IInv
<1> SUFFICES ASSUME Init PROVE IInv
  OBVIOUS
<1>1. TypeOK
  BY DrainsAssumption DEF Init, TypeOK, States
<1>2. PendingHeld
  BY DEF Init, PendingHeld
<1>3. \A r \in Revs : ~EverApplied(r) /\ state[r] # "applied" /\ undo[r] = None
  BY DEF Init, EverApplied
<1>4. PassedDocs
  BY DEF Init, PassedDocs, EverApplied
<1> QED BY <1>1, <1>2, <1>3, <1>4
        DEF IInv, OneApplied, LinearHistory, UndoIsBase, RollbackRestoresBase

-----------------------------------------------------------------------------
(* The theorems *)

\* The conjunction of the row locks, the history and the rollback states is an
\* invariant of the lifecycle.
THEOREM Inductive == Spec => []IInv
  BY InitIInv, NextIInv, PTL DEF Spec

\* The variables keep their types.
THEOREM TypeCorrect == Spec => []TypeOK
<1>1. IInv => TypeOK
  BY DEF IInv
<1> QED BY <1>1, Inductive, PTL

\* Whatever applies and rollbacks race, one revision is in force from the first
\* apply on (Apply, Rollback and the index of migration 0010).
THEOREM OneInForce == Spec => []OneApplied
<1>1. IInv => OneApplied
  BY DEF IInv
<1> QED BY <1>1, Inductive, PTL

\* Optimistic concurrency loses no update: no two revisions that were ever in
\* force were derived from the same base (the base check of Apply).
THEOREM NoLostUpdate == Spec => []LinearHistory
<1>1. IInv => LinearHistory
  BY DEF IInv
<1> QED BY <1>1, Inductive, PTL

\* Rollback restores the candidate that the revision it reverts had replaced.
THEOREM RollbackCorrect == Spec => []RollbackRestoresBase
<1>1. IInv => RollbackRestoresBase
  BY DEF IInv
<1> QED BY <1>1, Inductive, PTL

\* Rollback validates nothing, and still only puts in force what once passed
\* validation.
THEOREM OnlyValidatedInForce == Spec => []DocumentsValidated
<1>1. IInv => DocumentsValidated
  BY DEF IInv, PassedDocs, DocumentsValidated
<1> QED BY <1>1, Inductive, PTL

\* Documents in force can be relied on, for any number of revisions and appliers.
THEOREM DocumentsAreSound == Spec => []DocumentsSound
<1>1. TypeOK /\ RollbackRestoresBase /\ DocumentsValidated => DocumentsSound
  BY DEF DocumentsSound
<1> QED BY <1>1, TypeCorrect, RollbackCorrect, OnlyValidatedInForce, PTL

-----------------------------------------------------------------------------
(* The Git mirror *)

\* A row waits for the sync worker from its insert on, and ids are given out in order.
InIdOrder ==
    /\ \A r \in Revs : state[r] = "absent" <=> git[r] = "none"
    /\ \A r, s \in Revs : state[r] # "absent" /\ s < r => state[s] # "absent"

\* A pass has read the whole backlog: what has come since is newer.
BacklogRead ==
    /\ \A r \in batch : git[r] = "pending"
    /\ \A r \in batch, s \in Revs : git[s] = "pending" /\ s \notin batch => s > r

\* The mirror holds a stored revision, and the backlog is newer than it.
MirrorBehind ==
    /\ mirror # None => git[mirror] # "none"
    /\ \A r \in Revs : git[r] = "pending" => r > mirror

MirrorInv == IInv /\ InIdOrder /\ BacklogRead /\ MirrorBehind

LEMMA MirrorInit == Init => MirrorInv
<1> SUFFICES ASSUME Init PROVE MirrorInv
  OBVIOUS
<1>1. IInv
  BY InitIInv
<1> QED BY <1>1 DEF Init, MirrorInv, InIdOrder, BacklogRead, MirrorBehind

\* Steps that insert no row and are not the sync worker's leave the mirror alone.
LEMMA MirrorUntouched ==
    ASSUME MirrorInv, IInv', UNCHANGED sync,
           \A r \in Revs : state'[r] = "absent" <=> state[r] = "absent"
    PROVE  MirrorInv'
  BY DEF MirrorInv, InIdOrder, BacklogRead, MirrorBehind, sync

\* An insert joins the backlog behind everything that is there.
LEMMA InsertKeepsMirror ==
    ASSUME MirrorInv, IInv', NEW n \in Revs, Fresh(n), UNCHANGED <<mirror, batch>>,
           git' = [git EXCEPT ![n] = "pending"], state'[n] # "absent",
           \A r \in Revs \ {n} : state'[r] = "absent" <=> state[r] = "absent"
    PROVE  MirrorInv'
<1>1. \A r \in Revs : r # n => git'[r] = git[r]
  BY DEF MirrorInv, IInv, TypeOK
<1>2. git'[n] = "pending"
  BY DEF MirrorInv, IInv, TypeOK
<1>3. \A r \in Revs : git[r] # "none" => r < n
  BY RevsAssumption DEF MirrorInv, InIdOrder, Fresh, Revs
<1>4. InIdOrder'
  <2>1. ASSUME NEW r \in Revs PROVE state'[r] = "absent" <=> git'[r] = "none"
    BY <1>1, <1>2, <2>1 DEF MirrorInv, InIdOrder
  <2>2. ASSUME NEW r \in Revs, NEW s \in Revs, state'[r] # "absent", s < r PROVE state'[s] # "absent"
    <3>1. CASE s = n
      BY <3>1
    <3>2. CASE r = n /\ s # n
      BY <3>2, <2>2 DEF Fresh
    <3>3. CASE r # n /\ s # n
      BY <3>3, <2>2 DEF MirrorInv, InIdOrder
    <3> QED BY <3>1, <3>2, <3>3
  <2> QED BY <2>1, <2>2 DEF InIdOrder
<1>5. batch \subseteq Revs /\ n \notin batch
  BY DEF MirrorInv, IInv, TypeOK, BacklogRead, InIdOrder, Fresh
<1>6. BacklogRead'
  <2>1. ASSUME NEW r \in batch PROVE git'[r] = "pending" /\ r < n
    BY <2>1, <1>1, <1>3, <1>5 DEF MirrorInv, BacklogRead
  <2>2. ASSUME NEW r \in batch, NEW s \in Revs, git'[s] = "pending", s \notin batch PROVE s > r
    <3>1. CASE s = n
      BY <3>1, <2>1, <2>2, <1>5 DEF Revs
    <3>2. CASE s # n
      BY <3>2, <2>2, <1>1 DEF MirrorInv, BacklogRead
    <3> QED BY <3>1, <3>2
  <2> QED BY <2>1, <2>2 DEF BacklogRead
<1>7. MirrorBehind'
  <2>1. mirror \in Revs \cup {None}
    BY DEF MirrorInv, IInv, TypeOK
  <2>2. mirror # None => git'[mirror] # "none" /\ n > mirror
    BY <2>1, <1>1, <1>2, <1>3 DEF MirrorInv, MirrorBehind, Revs
  <2>3. mirror = None => n > mirror
    BY DEF None, Revs
  <2>4. ASSUME NEW r \in Revs, git'[r] = "pending" PROVE r > mirror
    <3>1. CASE r = n
      BY <3>1, <2>2, <2>3
    <3>2. CASE r # n
      BY <3>2, <2>4, <1>1 DEF MirrorInv, MirrorBehind
    <3> QED BY <3>1, <3>2
  <2> QED BY <2>2, <2>4 DEF MirrorBehind
<1> QED BY <1>4, <1>6, <1>7 DEF MirrorInv

\* A push that is marked leaves the backlog behind it.
LEMMA SyncKeepsMirror ==
    ASSUME ~MarkErrors, MirrorInv, IInv', NEW r \in Revs, GitSync(r)
    PROVE  MirrorInv' /\ mirror' >= mirror
<1>1. r \in batch /\ git[r] = "pending" /\ r > mirror /\ \A s \in batch : r <= s
  BY DEF GitSync, Oldest, MirrorInv, BacklogRead, MirrorBehind
<1>2. PICK m \in {"synced", "failed", "not_required"} : git' = [git EXCEPT ![r] = m]
  BY DEF GitSync
<1>3. git'[r] = m /\ \A s \in Revs : s # r => git'[s] = git[s]
  BY <1>2 DEF MirrorInv, IInv, TypeOK
<1>4. mirror' \in {mirror, r} /\ batch' = batch \ {r} /\ state' = state
  BY DEF GitSync
<1>5. batch \subseteq Revs /\ mirror \in Revs \cup {None}
  BY DEF MirrorInv, IInv, TypeOK
<1>6. InIdOrder'
  BY <1>1, <1>3, <1>4 DEF MirrorInv, InIdOrder
<1>7. BacklogRead'
  <2>1. ASSUME NEW q \in batch', NEW s \in Revs, git'[s] = "pending", s \notin batch' PROVE s > q
    <3>1. s # r
      BY <2>1, <1>3
    <3> QED BY <3>1, <2>1, <1>3, <1>4 DEF MirrorInv, BacklogRead
  <2>2. ASSUME NEW q \in batch' PROVE git'[q] = "pending"
    BY <2>2, <1>3, <1>4, <1>5 DEF MirrorInv, BacklogRead
  <2> QED BY <2>1, <2>2 DEF BacklogRead
<1>8. MirrorBehind'
  <2>1. ASSUME NEW s \in Revs, git'[s] = "pending" PROVE s > mirror'
    <3>1. s # r /\ git[s] = "pending"
      BY <2>1, <1>3
    <3>2. s > r
      <4>1. CASE s \in batch
        BY <4>1, <3>1, <1>1, <1>5 DEF Revs
      <4>2. CASE s \notin batch
        BY <4>2, <3>1, <1>1 DEF MirrorInv, BacklogRead
      <4> QED BY <4>1, <4>2
    <3>3. s > mirror
      BY <3>1 DEF MirrorInv, MirrorBehind
    <3> QED BY <3>2, <3>3, <1>4
  <2>2. mirror' # None => git'[mirror'] # "none"
    BY <1>3, <1>4, <1>5 DEF MirrorInv, MirrorBehind
  <2> QED BY <2>1, <2>2 DEF MirrorBehind
<1>9. mirror' >= mirror
  BY <1>1, <1>4, <1>5 DEF Revs, None
<1> QED BY <1>6, <1>7, <1>8, <1>9 DEF MirrorInv

\* A pass begins with the whole backlog; one that stops leaves none read.
LEMMA DrainKeepsMirror == MirrorInv /\ IInv' /\ (Drain \/ DrainStops) => MirrorInv'
  BY DEF Drain, DrainStops, MirrorInv, InIdOrder, BacklogRead, MirrorBehind

\* An operation on rows that are there, other than the mirror's.
LEMMA RowsMirror ==
    ASSUME MirrorInv, IInv',
           \/ \E r \in Revs : \/ \E ok \in BOOLEAN : MarkValidated(r, ok)
                              \/ FinishFailedApply(r) \/ RecordHealth(r)
           \/ \E a \in Appliers, r \in Revs : ApplyBegin(a, r)
           \/ \E a \in Appliers : ApplyCommit(a) \/ ApplyAbort(a)
           \/ UNCHANGED vars
    PROVE  MirrorInv' /\ mirror' = mirror
<1>1. UNCHANGED sync
  BY DEF MarkValidated, FinishFailedApply, RecordHealth, ApplyBegin, ApplyCommit, ApplyAbort, vars, sync
<1>2. \A r \in Revs : state'[r] = "absent" <=> state[r] = "absent"
  <2>1. ASSUME NEW r \in Revs, NEW s \in States \ {"absent"}, state[r] # "absent", state' = [state EXCEPT ![r] = s]
        PROVE  \A q \in Revs : state'[q] = "absent" <=> state[q] = "absent"
    BY <2>1 DEF MirrorInv, IInv, TypeOK
  <2>2. ASSUME NEW r \in Revs, NEW ok \in BOOLEAN, MarkValidated(r, ok)
        PROVE  \A q \in Revs : state'[q] = "absent" <=> state[q] = "absent"
    <3>1. NextState(ok) \in States \ {"absent"} /\ state[r] # "absent" /\ state' = [state EXCEPT ![r] = NextState(ok)]
      BY <2>2 DEF MarkValidated, NextState, States
    <3> QED BY <3>1, <2>1
  <2>3. ASSUME NEW r \in Revs, FinishFailedApply(r)
        PROVE  \A q \in Revs : state'[q] = "absent" <=> state[q] = "absent"
    BY <2>1, <2>3 DEF FinishFailedApply, States
  <2>4. ASSUME NEW a \in Appliers, ApplyCommit(a)
        PROVE  \A q \in Revs : state'[q] = "absent" <=> state[q] = "absent"
    <3>1. Current(a) # None => state[Current(a)] = "applied"
      BY CurrentIsApplied DEF MirrorInv, IInv
    <3>2. pending[a] \in Revs /\ state[pending[a]] # "absent"
      BY <2>4 DEF ApplyCommit, MirrorInv, IInv, TypeOK, PendingHeld
    <3> QED BY <3>1, <3>2, <2>4, NoneNotRev DEF ApplyCommit, MirrorInv, IInv, TypeOK
  <2> QED BY <2>2, <2>3, <2>4 DEF RecordHealth, ApplyBegin, ApplyAbort, vars
<1> QED BY <1>1, <1>2, MirrorUntouched DEF sync

\* Rollback inserts the row it applies.
LEMMA RollbackInserts ==
    ASSUME MirrorInv, IInv', NEW t \in Revs, NEW n \in Revs, Rollback(t, n)
    PROVE  MirrorInv' /\ mirror' = mirror
<1>1. t # n
  BY DEF Rollback, Fresh
<1>2. state' = [state EXCEPT ![t] = "rolled_back", ![n] = "applied"] /\ state[t] = "applied"
  BY DEF Rollback
<1>3. state'[n] = "applied" /\ state'[t] = "rolled_back" /\ \A r \in Revs : r # t /\ r # n => state'[r] = state[r]
  BY <1>1, <1>2 DEF MirrorInv, IInv, TypeOK
<1>4. \A r \in Revs \ {n} : state'[r] = "absent" <=> state[r] = "absent"
  BY <1>2, <1>3
<1> QED BY <1>3, <1>4, InsertKeepsMirror DEF Rollback

LEMMA CreateInserts ==
    ASSUME MirrorInv, IInv', NEW n \in Revs, NEW b \in Revs \cup {None}, Create(n, b)
    PROVE  MirrorInv' /\ mirror' = mirror
<1>1. state'[n] = "draft" /\ \A r \in Revs : r # n => state'[r] = state[r]
  BY DEF Create, MirrorInv, IInv, TypeOK
<1> QED BY <1>1, InsertKeepsMirror DEF Create

LEMMA MirrorStep == ASSUME ~MarkErrors, MirrorInv, [Next]_vars PROVE MirrorInv' /\ mirror' >= mirror
<1>1. IInv'
  BY NextIInv DEF MirrorInv
<1>2. mirror' = mirror => mirror' >= mirror
  BY DEF MirrorInv, IInv, TypeOK, Revs, None
<1>3. CASE \E r \in Revs : \E b \in Revs \cup {None} : Create(r, b)
  BY <1>1, <1>2, <1>3, CreateInserts
<1>4. CASE \E t, n \in Revs : Rollback(t, n)
  BY <1>1, <1>2, <1>4, RollbackInserts
<1>5. CASE \E r \in Revs : GitSync(r)
  BY <1>1, <1>5, SyncKeepsMirror
<1>6. CASE Drain \/ DrainStops
  <2>1. mirror' = mirror
    BY <1>6 DEF Drain, DrainStops
  <2> QED BY <1>1, <1>2, <1>6, <2>1, DrainKeepsMirror
<1>7. CASE \/ \E r \in Revs : \/ \E ok \in BOOLEAN : MarkValidated(r, ok)
                            \/ FinishFailedApply(r)
                            \/ RecordHealth(r)
           \/ \E a \in Appliers, r \in Revs : ApplyBegin(a, r)
           \/ \E a \in Appliers : ApplyCommit(a) \/ ApplyAbort(a)
           \/ UNCHANGED vars
  BY <1>1, <1>2, <1>7, RowsMirror
<1> QED BY <1>3, <1>4, <1>5, <1>6, <1>7 DEF Next

\* "Oldest first" (revisions.go:400-427; sync.go:60-95), for any number of
\* revisions, applies and passes, passes that stop half-way and pushes that fail after the
\* mirror took them: no push replaces a newer candidate by an older one.  The write that
\* marks a pushed revision must not fail: without the mark the next pass pushes it again.
THEOREM MirrorForward == ASSUME ~MarkErrors PROVE Spec => MirrorInOrder
<1>1. Init => MirrorInv
  BY MirrorInit
<1>2. MirrorInv /\ [Next]_vars => MirrorInv' /\ [mirror' >= mirror]_vars
  BY MirrorStep
<1> QED BY <1>1, <1>2, PTL DEF Spec, MirrorInOrder
=============================================================================
