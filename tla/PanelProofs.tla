---------------------------- MODULE PanelProofs -----------------------------
(***************************************************************************)
(* What the controllers of a panel share through the database besides the  *)
(* jobs: webhooks, notifications, deployment records, DNS credentials and  *)
(* rollouts of updates.                                                    *)
(***************************************************************************)
EXTENDS Delivery, Webhooks, Apps, Dns, Updates, FiniteSetTheorems, TLAPS

-----------------------------------------------------------------------------
(***************************************************************************)
(* Webhooks: HookSentOnce for any number of deliveries, controllers and    *)
(* attempts. The row says nothing of a delivery under way but its lease,   *)
(* so the proof needs what the lease stands for: WebhookInv.               *)
(***************************************************************************)

Holds(l, n) == whHeld[l][n] # 0

\* Every attempt past max_attempts is paid for by a fault.
RowBounded(n) ==
    /\ whRow[n].tries <= MaxHookTries + whFaults
    /\ whRow[n].state = "absent" => whRow[n].tries = 0
    /\ whRow[n].state = "pending" /\ (whRow[n].due \/ \A l \in WhLoops : ~Holds(l, n))
        => whRow[n].tries < MaxHookTries + whFaults

\* A row is claimed again under a loop that holds it only after its lease lapsed.
HeldBounded(l, n) ==
    Holds(l, n) => /\ whHeld[l][n] <= MaxHookTries + whFaults
                   /\ whRow[n].tries <= whHeld[l][n] + whFaults
                   /\ whRow[n].state = "pending" /\ whRow[n].due => whRow[n].tries < whHeld[l][n] + whFaults

\* Without faults, a row that is held is pending under its lease, or was deleted,
\* and one loop holds it.
HeldClean(l, n) ==
    Holds(l, n) => /\ whRow[n].state \in {"absent", "pending"}
                   /\ whRow[n].state = "pending" => ~whRow[n].due
                   /\ \A k \in WhLoops : Holds(k, n) => k = l

Bounded == \A n \in Hooks : RowBounded(n) /\ \A l \in WhLoops : HeldBounded(l, n)
Clean == whHarm = {} => whFaults = 0 /\ \A n \in Hooks, l \in WhLoops : HeldClean(l, n)

WebhookInv == WebhookTypeOK /\ whFaults \in 0..MaxWhFaults /\ Bounded /\ Clean

HookRows == [state : {"absent", "pending", "delivered", "dead_letter"},
         tries : 0..MaxHookTries + MaxWhFaults, due : BOOLEAN]

-----------------------------------------------------------------------------
\* What the invariant says of the run's property.
LEMMA InvSentOnce == WebhookInv => HookSentOnce
<1> SUFFICES ASSUME WebhookInv PROVE HookSentOnce
  OBVIOUS
<1>1. WebhookTypeOK
  BY DEF WebhookInv
<1>2. ASSUME whHarm = {}, NEW n \in Hooks
      PROVE  /\ Cardinality({l \in WhLoops : whHeld[l][n] # 0}) <= 1
             /\ whRow[n].state \in {"delivered", "dead_letter"} => \A l \in WhLoops : whHeld[l][n] = 0
             /\ whRow[n].tries <= MaxHookTries
  <2>1. whFaults = 0 /\ \A l \in WhLoops : HeldClean(l, n)
    BY <1>2 DEF WebhookInv, Clean
  <2>2. whRow[n].state \in {"delivered", "dead_letter"} => \A l \in WhLoops : whHeld[l][n] = 0
    BY <2>1 DEF HeldClean, Holds
  <2>3. whRow[n].tries <= MaxHookTries
    BY <2>1, WebhookAssumption DEF WebhookInv, Bounded, RowBounded
  <2> DEFINE H == {l \in WhLoops : whHeld[l][n] # 0}
  <2>4. CASE H = {}
    <3>1. Cardinality(H) = 0
      BY <2>4, FS_EmptySet
    <3> QED BY <2>2, <2>3, <3>1
  <2>5. ASSUME NEW l \in H PROVE Cardinality(H) <= 1
    <3>1. H = {l}
      BY <2>1, <2>5 DEF HeldClean, Holds
    <3>2. Cardinality(H) = 1
      BY <3>1, FS_Singleton
    <3> QED BY <3>2
  <2> QED BY <2>2, <2>3, <2>4, <2>5
<1> QED BY <1>1, <1>2 DEF HookSentOnce

\* There are no deliveries at first.
LEMMA WebhookStarts == WebhookInit => WebhookInv
<1> SUFFICES ASSUME WebhookInit PROVE WebhookInv
  OBVIOUS
<1>1. NoDelivery \in HookRows
  BY WebhookAssumption DEF NoDelivery, HookRows
<1>2. whRow \in [Hooks -> HookRows] /\ \A n \in Hooks : whRow[n] = NoDelivery
  BY <1>1 DEF WebhookInit
<1>3. \A l \in WhLoops, n \in Hooks : ~Holds(l, n)
  BY DEF WebhookInit, Holds
<1>4. WebhookTypeOK
  BY <1>2, WebhookAssumption DEF WebhookInit, WebhookTypeOK, HookRows
<1>5. Bounded
  BY <1>2, <1>3, WebhookAssumption DEF WebhookInit, Bounded, RowBounded, HeldBounded, NoDelivery
<1>6. Clean
  BY <1>3 DEF WebhookInit, Clean, HeldClean
<1> QED BY <1>4, <1>5, <1>6, WebhookAssumption DEF WebhookInit, WebhookInv

\* The rows as the proofs use them, and the bounds as numbers.
LEMMA Typed ==
  ASSUME WebhookInv
  PROVE  /\ whRow \in [Hooks -> HookRows] /\ whHeld \in [WhLoops -> [Hooks -> 0..MaxHookTries + MaxWhFaults]]
         /\ whFaults \in Nat /\ MaxHookTries \in Nat /\ MaxHookTries >= 1
         /\ \A n \in Hooks : whRow[n].tries \in Nat /\ whRow[n].due \in BOOLEAN
         /\ \A l \in WhLoops, n \in Hooks : whHeld[l][n] \in Nat
<1>1. whRow \in [Hooks -> HookRows] /\ whHeld \in [WhLoops -> [Hooks -> 0..MaxHookTries + MaxWhFaults]]
  BY DEF WebhookInv, WebhookTypeOK, HookRows
<1>2. \A n \in Hooks : whRow[n].tries \in Nat /\ whRow[n].due \in BOOLEAN
  BY <1>1, WebhookAssumption DEF HookRows
<1>3. \A l \in WhLoops, n \in Hooks : whHeld[l][n] \in Nat
  BY <1>1, WebhookAssumption
<1> QED BY <1>1, <1>2, <1>3, WebhookAssumption DEF WebhookInv

-----------------------------------------------------------------------------
\* The actions, one lemma each.

\* Saving or deleting the webhook (automation.go); a deletion takes the rows.
LEMMA EditsKeep == WebhookInv /\ (SaveHook("enabled") \/ SaveHook("disabled") \/ DeleteHook) => WebhookInv'
<1> SUFFICES ASSUME WebhookInv, SaveHook("enabled") \/ SaveHook("disabled") \/ DeleteHook PROVE WebhookInv'
  OBVIOUS
<1> USE Typed
<1>1. CASE SaveHook("enabled") \/ SaveHook("disabled")
  <2>1. whHook' \in {"enabled", "disabled"} /\ UNCHANGED <<whRow, whHeld, whHarm, whFaults>>
    BY <1>1 DEF SaveHook, whFlt
  <2> QED BY <2>1 DEF WebhookInv, WebhookTypeOK, Bounded, RowBounded, HeldBounded, Clean, HeldClean, Holds
<1>2. CASE DeleteHook
  <2>1. whHook' = "absent" /\ whRow' = [n \in Hooks |-> NoDelivery] /\ UNCHANGED <<whHeld, whHarm, whFaults>>
    BY <1>2 DEF DeleteHook, whFlt
  <2>2. NoDelivery \in HookRows /\ \A n \in Hooks : whRow'[n].state = "absent" /\ whRow'[n].tries = 0
    BY <2>1, WebhookAssumption DEF NoDelivery, HookRows
  <2>3. WebhookTypeOK'
    BY <2>1, <2>2 DEF WebhookInv, WebhookTypeOK, HookRows
  <2>4. Bounded'
    <3>1. \A n \in Hooks : RowBounded(n)'
      BY <2>1, <2>2 DEF RowBounded
    <3>2. \A n \in Hooks, l \in WhLoops : HeldBounded(l, n)'
      BY <2>1, <2>2 DEF WebhookInv, Bounded, HeldBounded, Holds
    <3> QED BY <3>1, <3>2 DEF Bounded
  <2>5. Clean'
    BY <2>1, <2>2 DEF WebhookInv, Clean, HeldClean, Holds
  <2> QED BY <2>1, <2>3, <2>4, <2>5 DEF WebhookInv
<1> QED BY <1>1, <1>2

\* handleTestWebhook: the new row is due, and no loop holds it.
LEMMA QueueKeeps == ASSUME NEW n \in Hooks PROVE WebhookInv /\ QueueHook(n) => WebhookInv'
<1> SUFFICES ASSUME WebhookInv, QueueHook(n) PROVE WebhookInv'
  OBVIOUS
<1> USE Typed
<1>1. /\ whRow' = [whRow EXCEPT ![n].state = "pending"] /\ whRow[n].state = "absent"
      /\ \A l \in WhLoops : whHeld[l][n] = 0
      /\ UNCHANGED <<whHook, whHeld, whHarm, whFaults>>
  BY DEF QueueHook, whFlt
<1>2. whRow' \in [Hooks -> HookRows] /\ whRow'[n].tries = whRow[n].tries /\ \A m \in Hooks \ {n} : whRow'[m] = whRow[m]
  BY <1>1 DEF HookRows
<1>3. WebhookTypeOK'
  BY <1>1, <1>2 DEF WebhookInv, WebhookTypeOK, HookRows
<1>4. Bounded'
  <2>1. \A m \in Hooks : RowBounded(m)'
    <3>1. RowBounded(n)'
      BY <1>1, <1>2 DEF WebhookInv, Bounded, RowBounded
    <3>2. \A m \in Hooks \ {n} : RowBounded(m)'
      BY <1>1, <1>2 DEF WebhookInv, Bounded, RowBounded, Holds
    <3> QED BY <3>1, <3>2
  <2>2. \A m \in Hooks, l \in WhLoops : HeldBounded(l, m)'
    BY <1>1, <1>2 DEF WebhookInv, Bounded, HeldBounded, Holds
  <2> QED BY <2>1, <2>2 DEF Bounded
<1>5. Clean'
  BY <1>1, <1>2 DEF WebhookInv, Clean, HeldClean, Holds
<1> QED BY <1>1, <1>3, <1>4, <1>5 DEF WebhookInv

\* drainOnce's claim: rows that are due, so no lease on them is running.
LEMMA HookClaimKeeps == ASSUME NEW l \in WhLoops PROVE WebhookInv /\ ClaimHooks(l) => WebhookInv'
<1> SUFFICES ASSUME WebhookInv, ClaimHooks(l) PROVE WebhookInv'
  OBVIOUS
<1> USE Typed
<1> DEFINE S == {n \in Hooks : HookClaimable(n)}
<1>1. /\ \A n \in Hooks : whHeld[l][n] = 0
      /\ whRow' = [n \in Hooks |-> IF n \in S THEN [whRow[n] EXCEPT !.tries = @ + 1, !.due = FALSE] ELSE whRow[n]]
      /\ whHeld' = [whHeld EXCEPT ![l] = [n \in Hooks |-> IF n \in S THEN whRow[n].tries + 1 ELSE 0]]
      /\ UNCHANGED <<whHook, whHarm, whFaults>>
  BY DEF ClaimHooks, HookIdle, whFlt
<1>2. \A n \in S : n \in Hooks /\ whRow[n].state = "pending" /\ whRow[n].due
  BY DEF HookClaimable
<1>3. \A n \in S : whRow[n].tries < MaxHookTries + whFaults
  BY <1>2 DEF WebhookInv, Bounded, RowBounded
<1> HIDE DEF S
<1>4. \A n \in S : /\ whRow'[n].tries = whRow[n].tries + 1 /\ whRow'[n].state = "pending" /\ ~whRow'[n].due
                   /\ whRow'[n] \in HookRows
  <2> SUFFICES ASSUME NEW n \in S
               PROVE  /\ whRow'[n].tries = whRow[n].tries + 1 /\ whRow'[n].state = "pending" /\ ~whRow'[n].due
                      /\ whRow'[n] \in HookRows
    OBVIOUS
  <2>1. n \in Hooks /\ whRow'[n] = [whRow[n] EXCEPT !.tries = whRow[n].tries + 1, !.due = FALSE]
    BY <1>1, <1>2
  <2>2. whRow[n].tries + 1 \in 0..MaxHookTries + MaxWhFaults
    BY <1>2, <1>3, WebhookAssumption DEF WebhookInv
  <2>3. whRow[n] \in HookRows
    BY <2>1
  <2> QED BY <1>2, <2>1, <2>2, <2>3 DEF HookRows
<1>5. \A n \in Hooks \ S : whRow'[n] = whRow[n]
  BY <1>1
<1>6. \A n \in Hooks : whHeld'[l][n] = IF n \in S THEN whRow[n].tries + 1 ELSE 0
  BY <1>1
<1>7. \A k \in WhLoops \ {l} : whHeld'[k] = whHeld[k]
  BY <1>1
<1>8. WebhookTypeOK'
  <2>1. whRow' \in [Hooks -> HookRows]
    BY <1>1, <1>4, <1>5
  <2>2. [n \in Hooks |-> IF n \in S THEN whRow[n].tries + 1 ELSE 0] \in [Hooks -> 0..MaxHookTries + MaxWhFaults]
    BY <1>3, WebhookAssumption DEF WebhookInv
  <2>3. whHeld' \in [WhLoops -> [Hooks -> 0..MaxHookTries + MaxWhFaults]]
    BY <1>1, <2>2
  <2> QED BY <1>1, <2>1, <2>3 DEF WebhookInv, WebhookTypeOK, HookRows
<1>9. ASSUME NEW n \in Hooks PROVE RowBounded(n)'
  <2>1. CASE n \in S
    <3>1. \E k \in WhLoops : Holds(k, n)'
      BY <1>6, <2>1 DEF Holds
    <3>2. whRow[n].tries \in Nat /\ whRow[n].tries < MaxHookTries + whFaults /\ whFaults' = whFaults
      BY <1>1, <1>2, <1>3, <2>1
    <3>3. whRow'[n].tries = whRow[n].tries + 1 /\ whRow'[n].state = "pending" /\ ~whRow'[n].due
      BY <1>4, <2>1
    <3>4. whRow'[n].tries <= MaxHookTries + whFaults'
      BY <3>2, <3>3
    <3> QED BY <3>1, <3>3, <3>4 DEF RowBounded
  <2>2. CASE n \notin S
    <3>1. \A k \in WhLoops : Holds(k, n)' <=> Holds(k, n)
      BY <1>1, <1>6, <1>7, <2>2 DEF Holds
    <3> QED BY <1>1, <1>5, <2>2, <3>1 DEF WebhookInv, Bounded, RowBounded
  <2> QED BY <2>1, <2>2
<1>10. ASSUME NEW n \in Hooks, NEW k \in WhLoops PROVE HeldBounded(k, n)'
  <2>1. CASE k = l
    <3>1. CASE n \notin S
      BY <1>6, <2>1, <3>1 DEF HeldBounded, Holds
    <3>2. CASE n \in S
      <4>1. whRow[n].tries \in Nat /\ whRow[n].tries < MaxHookTries + whFaults /\ whFaults' = whFaults
        BY <1>1, <1>2, <1>3, <3>2
      <4>2. whHeld'[k][n] = whRow[n].tries + 1 /\ whRow'[n].tries = whRow[n].tries + 1 /\ ~whRow'[n].due
        BY <1>4, <1>6, <2>1, <3>2
      <4>3. whHeld'[k][n] <= MaxHookTries + whFaults' /\ whRow'[n].tries <= whHeld'[k][n] + whFaults'
        BY <4>1, <4>2
      <4> QED BY <4>2, <4>3 DEF HeldBounded
    <3> QED BY <3>1, <3>2
  <2>2. CASE k # l /\ n \in S
    <3>1. whRow[n].due /\ whRow[n].state = "pending" /\ whHeld'[k][n] = whHeld[k][n]
      BY <1>2, <1>7, <2>2
    <3>2. HeldBounded(k, n)
      BY DEF WebhookInv, Bounded
    <3>3. Holds(k, n)' => whRow[n].tries < whHeld[k][n] + whFaults /\ whHeld[k][n] <= MaxHookTries + whFaults
      BY <3>1, <3>2 DEF HeldBounded, Holds
    <3>4. whRow'[n].tries = whRow[n].tries + 1 /\ ~whRow'[n].due
      BY <1>4, <2>2
    <3>5. whHeld'[k][n] = whHeld[k][n] /\ whFaults' = whFaults /\ whRow[n].tries \in Nat /\ whHeld[k][n] \in Nat
      BY <1>1, <3>1
    <3>6. Holds(k, n)' => whHeld'[k][n] <= MaxHookTries + whFaults' /\ whRow'[n].tries <= whHeld'[k][n] + whFaults'
      BY <3>3, <3>4, <3>5
    <3> QED BY <3>4, <3>6 DEF HeldBounded
  <2>3. CASE k # l /\ n \notin S
    BY <1>1, <1>5, <1>7, <2>3 DEF WebhookInv, Bounded, HeldBounded, Holds
  <2> QED BY <2>1, <2>2, <2>3
<1>11. Clean'
  <2> SUFFICES ASSUME whHarm = {}, NEW n \in Hooks, NEW k \in WhLoops PROVE HeldClean(k, n)'
    BY <1>1 DEF WebhookInv, Clean
  <2>1. HeldClean(k, n) /\ HeldClean(l, n)
    BY DEF WebhookInv, Clean
  <2>2. CASE n \in S
    <3>1. \A x \in WhLoops : ~Holds(x, n)
      BY <1>2, <2>2 DEF WebhookInv, Clean, HeldClean
    <3>2. \A x \in WhLoops : Holds(x, n)' => x = l
      BY <1>7, <3>1 DEF Holds
    <3> QED BY <1>4, <2>2, <3>2 DEF HeldClean
  <2>3. CASE n \notin S
    <3>1. \A x \in WhLoops : Holds(x, n)' <=> Holds(x, n)
      BY <1>1, <1>6, <1>7, <2>3 DEF Holds
    <3> QED BY <1>5, <2>1, <2>3, <3>1 DEF HeldClean
  <2> QED BY <2>2, <2>3
<1> QED BY <1>1, <1>8, <1>9, <1>10, <1>11 DEF WebhookInv, Bounded

\* One request's outcome is written, or is not: the row is no longer held by the loop.
LEMMA SendKeeps == ASSUME NEW l \in WhLoops, NEW n \in Hooks PROVE WebhookInv /\ SendHook(l, n) => WebhookInv'
<1> SUFFICES ASSUME WebhookInv, SendHook(l, n) PROVE WebhookInv'
  OBVIOUS
<1> USE Typed
<1>1. Holds(l, n) /\ whHeld' = [whHeld EXCEPT ![l][n] = 0] /\ whHook' = whHook
  BY DEF SendHook, Holds
<1>2. whHeld' \in [WhLoops -> [Hooks -> 0..MaxHookTries + MaxWhFaults]] /\ whHeld'[l][n] = 0
  BY <1>1, WebhookAssumption
<1>3. \A k \in WhLoops, m \in Hooks : k # l \/ m # n => whHeld'[k][m] = whHeld[k][m]
  BY <1>1
<1>4. \A k \in WhLoops, m \in Hooks : Holds(k, m)' => Holds(k, m) /\ whHeld'[k][m] = whHeld[k][m]
  BY <1>2, <1>3 DEF Holds
<1>5. CASE WhFault("unwritten") /\ UNCHANGED whRow
  <2>1. whFaults < MaxWhFaults /\ whFaults' = whFaults + 1 /\ whHarm' # {} /\ whRow' = whRow
    BY <1>5 DEF WhFault
  <2>2. WebhookTypeOK'
    BY <1>1, <1>2, <2>1 DEF WebhookInv, WebhookTypeOK
  <2>3. \A m \in Hooks : RowBounded(m)'
    BY <2>1 DEF WebhookInv, Bounded, RowBounded
  <2>4. \A m \in Hooks, k \in WhLoops : HeldBounded(k, m)'
    BY <1>4, <2>1 DEF WebhookInv, Bounded, HeldBounded
  <2> QED BY <2>1, <2>2, <2>3, <2>4, WebhookAssumption DEF WebhookInv, Bounded, Clean
<1>6. CASE whRow[n].state = "absent" /\ UNCHANGED <<whRow, whFlt>>
  <2>1. UNCHANGED <<whRow, whHarm, whFaults>>
    BY <1>6 DEF whFlt
  <2>2. WebhookTypeOK'
    BY <1>1, <1>2, <2>1 DEF WebhookInv, WebhookTypeOK
  <2>3. \A m \in Hooks \ {n} : RowBounded(m)'
    <3>1. \A k \in WhLoops, m \in Hooks \ {n} : Holds(k, m)' <=> Holds(k, m)
      BY <1>3 DEF Holds
    <3> QED BY <2>1, <3>1 DEF WebhookInv, Bounded, RowBounded
  <2>4. RowBounded(n)'
    BY <1>6, <2>1 DEF WebhookInv, Bounded, RowBounded
  <2>5. \A m \in Hooks, k \in WhLoops : HeldBounded(k, m)'
    BY <1>4, <2>1 DEF WebhookInv, Bounded, HeldBounded
  <2>6. Clean'
    BY <1>4, <2>1 DEF WebhookInv, Clean, HeldClean
  <2> QED BY <2>1, <2>2, <2>3, <2>4, <2>5, <2>6 DEF WebhookInv, Bounded
<1>7. ASSUME NEW new \in {[whRow[n] EXCEPT !.state = "delivered"], HookFailed(whRow[n], whHeld[l][n])},
             whRow[n].state # "absent", whRow' = [whRow EXCEPT ![n] = new], UNCHANGED whFlt
      PROVE  WebhookInv'
  <2>1. UNCHANGED <<whHarm, whFaults>>
    BY <1>7 DEF whFlt
  <2>2. /\ new \in HookRows /\ new.tries = whRow[n].tries /\ new.state \in {"pending", "delivered", "dead_letter"}
        /\ new.state = "pending" => new.due = FALSE /\ whHeld[l][n] < MaxHookTries
    <3>1. whRow[n] \in HookRows
      OBVIOUS
    <3>2. CASE new = [whRow[n] EXCEPT !.state = "delivered"]
      BY <3>1, <3>2 DEF HookRows
    <3>3. CASE new = HookFailed(whRow[n], whHeld[l][n]) /\ whHeld[l][n] >= MaxHookTries
      BY <3>1, <3>3 DEF HookRows, HookFailed
    <3>4. CASE new = HookFailed(whRow[n], whHeld[l][n]) /\ ~(whHeld[l][n] >= MaxHookTries)
      <4>1. new = [whRow[n] EXCEPT !.state = "pending", !.due = FALSE]
        BY <3>4 DEF HookFailed
      <4>2. new \in HookRows /\ new.tries = whRow[n].tries /\ new.state = "pending" /\ new.due = FALSE
        BY <3>1, <4>1 DEF HookRows
      <4>3. whHeld[l][n] < MaxHookTries
        BY <3>4
      <4> QED BY <4>2, <4>3
    <3> QED BY <1>7, <3>2, <3>3, <3>4
  <2>3. whRow' \in [Hooks -> HookRows] /\ whRow'[n] = new /\ \A m \in Hooks \ {n} : whRow'[m] = whRow[m]
    BY <1>7, <2>2
  <2>4. WebhookTypeOK'
    BY <1>1, <1>2, <2>3 DEF WebhookInv, WebhookTypeOK, HookRows
  <2>5. \A m \in Hooks \ {n} : RowBounded(m)'
    <3>1. \A k \in WhLoops, m \in Hooks \ {n} : Holds(k, m)' <=> Holds(k, m)
      BY <1>3 DEF Holds
    <3> QED BY <2>1, <2>3, <3>1 DEF WebhookInv, Bounded, RowBounded
  <2>6. RowBounded(n)'
    <3>1. whRow[n].tries <= whHeld[l][n] + whFaults /\ whRow[n].tries <= MaxHookTries + whFaults
      BY <1>1 DEF WebhookInv, Bounded, HeldBounded, RowBounded
    <3>2. whHeld[l][n] < MaxHookTries => whRow[n].tries < MaxHookTries + whFaults
      BY <3>1
    <3> QED BY <2>1, <2>2, <2>3, <3>1, <3>2 DEF RowBounded
  <2>7. \A m \in Hooks, k \in WhLoops : HeldBounded(k, m)'
    BY <1>4, <2>1, <2>2, <2>3 DEF WebhookInv, Bounded, HeldBounded
  <2>8. Clean'
    <3> SUFFICES ASSUME whHarm = {}, NEW m \in Hooks, NEW k \in WhLoops PROVE HeldClean(k, m)'
      BY <2>1 DEF WebhookInv, Clean
    <3>1. HeldClean(k, m) /\ HeldClean(l, n)
      BY DEF WebhookInv, Clean
    <3>2. CASE m = n
      <4>1. ~Holds(k, n)'
        BY <1>1, <1>2, <1>4, <3>1, <3>2 DEF HeldClean, Holds
      <4> QED BY <3>2, <4>1 DEF HeldClean
    <3>3. CASE m # n
      BY <1>4, <2>3, <3>1, <3>3 DEF HeldClean
    <3> QED BY <3>2, <3>3
  <2> QED BY <2>1, <2>4, <2>5, <2>6, <2>7, <2>8 DEF WebhookInv, Bounded
<1> QED BY <1>5, <1>6, <1>7 DEF SendHook

\* The process of a loop ends: the fault pays for the attempts it had claimed.
LEMMA DeathKeeps == ASSUME NEW l \in WhLoops PROVE WebhookInv /\ HookLoopDies(l) => WebhookInv'
<1> SUFFICES ASSUME WebhookInv, HookLoopDies(l) PROVE WebhookInv'
  OBVIOUS
<1> USE Typed
<1>1. /\ whHeld' = [whHeld EXCEPT ![l] = [n \in Hooks |-> 0]] /\ UNCHANGED <<whHook, whRow>>
      /\ whFaults < MaxWhFaults /\ whFaults' = whFaults + 1 /\ whHarm' # {}
  BY DEF HookLoopDies, WhFault
<1>2. whHeld' \in [WhLoops -> [Hooks -> 0..MaxHookTries + MaxWhFaults]]
  BY <1>1, WebhookAssumption
<1>3. \A k \in WhLoops, m \in Hooks : Holds(k, m)' => Holds(k, m) /\ whHeld'[k][m] = whHeld[k][m]
  BY <1>1 DEF Holds
<1>4. WebhookTypeOK'
  BY <1>1, <1>2 DEF WebhookInv, WebhookTypeOK
<1>5. \A m \in Hooks : RowBounded(m)'
  BY <1>1 DEF WebhookInv, Bounded, RowBounded
<1>6. \A m \in Hooks, k \in WhLoops : HeldBounded(k, m)'
  BY <1>1, <1>3 DEF WebhookInv, Bounded, HeldBounded
<1> QED BY <1>1, <1>4, <1>5, <1>6, WebhookAssumption DEF WebhookInv, Bounded, Clean

\* A backoff or a lease ends; a lease under which a loop still works is a fault.
LEMMA HookElapseKeeps == ASSUME NEW n \in Hooks PROVE WebhookInv /\ HookElapse(n) => WebhookInv'
<1> SUFFICES ASSUME WebhookInv, HookElapse(n) PROVE WebhookInv'
  OBVIOUS
<1> USE Typed
<1>1. /\ ~whRow[n].due /\ whRow[n].state = "pending" /\ whRow' = [whRow EXCEPT ![n].due = TRUE]
      /\ UNCHANGED <<whHook, whHeld>>
  BY DEF HookElapse
<1>2. /\ whRow' \in [Hooks -> HookRows] /\ \A m \in Hooks \ {n} : whRow'[m] = whRow[m]
      /\ whRow'[n].tries = whRow[n].tries /\ whRow'[n].state = "pending"
  BY <1>1 DEF HookRows
<1>3. WebhookTypeOK'
  BY <1>1, <1>2 DEF WebhookInv, WebhookTypeOK, HookRows
<1>4. CASE \E l \in WhLoops : Holds(l, n)
  <2>1. whFaults < MaxWhFaults /\ whFaults' = whFaults + 1 /\ whHarm' # {}
    BY <1>4 DEF HookElapse, WhFault, Holds
  <2>2. \A m \in Hooks : RowBounded(m)'
    <3>1. RowBounded(n)'
      BY <1>2, <2>1 DEF WebhookInv, Bounded, RowBounded
    <3>2. \A m \in Hooks \ {n} : RowBounded(m)'
      BY <1>1, <1>2, <2>1 DEF WebhookInv, Bounded, RowBounded, Holds
    <3> QED BY <3>1, <3>2
  <2>3. \A l \in WhLoops : HeldBounded(l, n)'
    BY <1>1, <1>2, <2>1 DEF WebhookInv, Bounded, HeldBounded, Holds
  <2>4. \A l \in WhLoops, m \in Hooks \ {n} : HeldBounded(l, m)'
    BY <1>1, <1>2, <2>1 DEF WebhookInv, Bounded, HeldBounded, Holds
  <2> QED BY <1>3, <2>1, <2>2, <2>3, <2>4, WebhookAssumption DEF WebhookInv, Bounded, Clean
<1>5. CASE \A l \in WhLoops : ~Holds(l, n)
  <2>1. UNCHANGED <<whHarm, whFaults>>
    BY <1>5 DEF HookElapse, whFlt, Holds
  <2>2. \A l \in WhLoops, m \in Hooks : Holds(l, m)' <=> Holds(l, m)
    BY <1>1 DEF Holds
  <2>3. \A m \in Hooks : RowBounded(m)'
    <3>1. RowBounded(n)'
      BY <1>1, <1>2, <1>5, <2>1 DEF WebhookInv, Bounded, RowBounded
    <3>2. \A m \in Hooks \ {n} : RowBounded(m)'
      BY <1>2, <2>1, <2>2 DEF WebhookInv, Bounded, RowBounded
    <3> QED BY <3>1, <3>2
  <2>4. \A l \in WhLoops, m \in Hooks : HeldBounded(l, m)'
    BY <1>1, <1>2, <1>5, <2>1, <2>2 DEF WebhookInv, Bounded, HeldBounded
  <2>5. Clean'
    BY <1>2, <1>5, <2>1, <2>2 DEF WebhookInv, Clean, HeldClean
  <2> QED BY <1>3, <2>1, <2>3, <2>4, <2>5 DEF WebhookInv, Bounded
<1> QED BY <1>4, <1>5

-----------------------------------------------------------------------------
\* Every step of the webhooks keeps the invariant.
LEMMA WebhookStep == WebhookInv /\ [WebhookNext]_webhookVars => WebhookInv'
<1> SUFFICES ASSUME WebhookInv, [WebhookNext]_webhookVars PROVE WebhookInv'
  OBVIOUS
<1>1. CASE UNCHANGED webhookVars
  BY <1>1 DEF webhookVars, whFlt, WebhookInv, WebhookTypeOK, Bounded, RowBounded, HeldBounded, Clean, HeldClean, Holds
<1>2. CASE SaveHook("enabled") \/ SaveHook("disabled") \/ DeleteHook
  BY <1>2, EditsKeep
<1>3. ASSUME NEW n \in Hooks, QueueHook(n) \/ HookElapse(n) \/ \E l \in WhLoops : SendHook(l, n) PROVE WebhookInv'
  BY <1>3, QueueKeeps, HookElapseKeeps, SendKeeps
<1>4. ASSUME NEW l \in WhLoops, ClaimHooks(l) \/ HookLoopDies(l) PROVE WebhookInv'
  BY <1>4, HookClaimKeeps, DeathKeeps
<1> QED BY <1>1, <1>2, <1>3, <1>4 DEF WebhookNext

\* Without a lapsed lease, a death or a lost write, no delivery is sent twice at
\* once, none after it was delivered, and none more than max_attempts times
\* (webhook/worker.go).
THEOREM DeliveriesCorrect == WebhookSpec => []HookSentOnce
<1>1. WebhookInit => WebhookInv
  BY WebhookStarts
<1>2. WebhookInv /\ [WebhookNext]_webhookVars => WebhookInv'
  BY WebhookStep
<1>3. WebhookInv => HookSentOnce
  BY InvSentOnce
<1> QED BY <1>1, <1>2, <1>3, PTL DEF WebhookSpec

-----------------------------------------------------------------------------
(***************************************************************************)
(* Delivery: DeliveriesAreSound for any number of events, controllers and  *)
(* attempts. Here the row does tell: what a loop holds is sending with the *)
(* attempt of its claim, so a row that can be claimed, or whose lease can  *)
(* lapse, is held by nobody else (RowSound).                               *)
(***************************************************************************)

EventRows == [at : {"none", "open", "doomed", "done"}, sev : 1..2, key : BOOLEAN,
              to : SUBSET Channels, dup : SUBSET Channels]
DeliveryRows == [state : {"absent", "pending", "sending", "delivered", "suppressed", "dead_letter"},
                 tries : 0..MaxTries, due : BOOLEAN]

DeliveryTyped ==
    /\ dvEvent \in [Events -> EventRows] /\ dvRow \in [Rows -> DeliveryRows]
    /\ dvHeld \in [DvLoops -> [Rows -> 0..MaxTries]]

\* An event that is not committed has no delivery yet.
Uncommitted(r) ==
    dvEvent[r[1]].at # "done" => /\ r[1] \notin dvFresh /\ dvRow[r].state = "absent"
                                 /\ \A l \in DvLoops : dvHeld[l][r] = 0

\* A delivery that a loop holds is being sent with the attempt of the claim, or its
\* channel is gone; one that waits has attempts left.
RowSound(r) ==
    /\ Uncommitted(r)
    /\ dvRow[r].state = "pending" => dvRow[r].tries < MaxTries
    /\ \A l \in DvLoops : dvHeld[l][r] # 0 =>
        dvRow[r].state = "absent" \/ (dvRow[r].state = "sending" /\ dvRow[r].tries = dvHeld[l][r])

DeliveryInv == DeliveryTypeOK /\ DeliveryTyped /\ (\A r \in Rows : RowSound(r)) /\ OneSender /\ OneNotice

USE DeliveryAssumption

LEMMA UnsentRows ==
  ASSUME NEW st \in {"absent", "pending", "delivered", "suppressed", "dead_letter"}
  PROVE  /\ [Unsent EXCEPT !.state = st] \in DeliveryRows
         /\ [Unsent EXCEPT !.state = st].state = st
         /\ [Unsent EXCEPT !.state = st].tries = 0
<1>1. Unsent \in DeliveryRows /\ Unsent.tries = 0
  BY DEF Unsent, DeliveryRows
<1> QED BY <1>1 DEF DeliveryRows

LEMMA InvDeliveries == DeliveryInv => DeliveriesAreSound
BY DEF DeliveryInv, DeliveriesAreSound

LEMMA DeliveryInitInv == DeliveryInit => DeliveryInv
<1> SUFFICES ASSUME DeliveryInit PROVE DeliveryInv
  OBVIOUS
<1>1. DeliveryTypeOK
  BY DEF DeliveryInit, DeliveryTypeOK, Unsent, Channels, Senders, Rows, Events
<1>2. DeliveryTyped
  BY DEF DeliveryInit, DeliveryTyped, EventRows, DeliveryRows, Unsent
<1>3. ASSUME NEW r \in Rows PROVE RowSound(r)
  BY DEF DeliveryInit, RowSound, Uncommitted, Unsent, Rows
<1>4. OneSender /\ OneNotice
  BY DEF DeliveryInit, OneSender, OneNotice
<1> QED BY <1>1, <1>2, <1>3, <1>4 DEF DeliveryInv

\* Notices are only taken back: no row comes to tell the user something.
LEMMA NoNewNotice ==
  ASSUME OneNotice, dvHarm \subseteq dvHarm', dvFresh' \subseteq dvFresh, dvFresh \subseteq Events,
         \A e \in dvFresh : dvEvent'[e].key = dvEvent[e].key,
         \A r \in Rows : dvRow'[r].state \notin {"absent", "suppressed"}
                           => dvRow[r].state \notin {"absent", "suppressed"}
  PROVE  OneNotice'
<1> SUFFICES ASSUME "raced" \notin dvHarm', NEW e \in dvFresh', NEW f \in dvFresh', NEW c \in Channels,
                    dvEvent'[e].key, dvRow'[<<e, c>>].state \notin {"absent", "suppressed"},
                    dvEvent'[f].key, dvRow'[<<f, c>>].state \notin {"absent", "suppressed"}
             PROVE  e = f
  BY DEF OneNotice
<1>1. <<e, c>> \in Rows /\ <<f, c>> \in Rows
  BY DEF Rows
<1>2. /\ dvRow[<<e, c>>].state \notin {"absent", "suppressed"}
      /\ dvRow[<<f, c>>].state \notin {"absent", "suppressed"}
  BY <1>1
<1>3. dvEvent[e].key /\ dvEvent[f].key
  OBVIOUS
<1> QED BY <1>2, <1>3 DEF OneNotice

\* Channels, routes and faults.
LEMMA EditKeeps ==
  ASSUME DeliveryInv, DeliveryTypeOK', UNCHANGED <<dvEvent, dvRow, dvFresh, dvHeld>>, dvHarm \subseteq dvHarm'
  PROVE  DeliveryInv'
<1>1. OneNotice'
  BY NoNewNotice DEF DeliveryInv, DeliveryTypeOK
<1>2. (\A r \in Rows : RowSound(r))' /\ OneSender' /\ DeliveryTyped'
  BY DEF DeliveryInv, RowSound, Uncommitted, OneSender, DeliveryTyped
<1> QED BY <1>1, <1>2 DEF DeliveryInv

LEMMA ChannelSaved == ASSUME DeliveryInv, NEW c \in Channels, NEW s \in {"enabled", "disabled"}, SaveChannel(c, s)
                      PROVE DeliveryInv'
<1>1. UNCHANGED <<dvEvent, dvRow, dvFresh, dvHeld, dvHarm>>
  BY DEF SaveChannel, DvEdit
<1>2. DeliveryTypeOK'
  BY <1>1 DEF SaveChannel, DeliveryInv, DeliveryTypeOK
<1> QED BY <1>1, <1>2, EditKeeps

LEMMA RouteSaved == ASSUME DeliveryInv, NEW c \in Channels, NEW m \in 0..2, SaveRoute(c, m) PROVE DeliveryInv'
<1>1. UNCHANGED <<dvEvent, dvRow, dvFresh, dvHeld, dvHarm>>
  BY DEF SaveRoute, DvEdit
<1>2. DeliveryTypeOK'
  BY <1>1 DEF SaveRoute, DeliveryInv, DeliveryTypeOK
<1> QED BY <1>1, <1>2, EditKeeps

LEMMA ChannelDeleted == ASSUME DeliveryInv, NEW c \in Channels, DeleteChannel(c) PROVE DeliveryInv'
<1> USE DEF DeliveryInv
<1>1. /\ dvChannel' = [dvChannel EXCEPT ![c] = "absent"] /\ dvRoute' = [dvRoute EXCEPT ![c] = 0]
      /\ UNCHANGED <<dvFresh, dvHeld, dvHarm>>
  BY DEF DeleteChannel, DvEdit
<1>2. \A r \in Rows : dvRow'[r] = IF r[2] = c THEN Unsent ELSE dvRow[r]
  BY DEF DeleteChannel
<1>3. dvRow' \in [Rows -> DeliveryRows]
  <2>1. Unsent \in DeliveryRows
    BY DEF Unsent, DeliveryRows
  <2> QED BY <2>1 DEF DeleteChannel, DeliveryTyped
<1>4. dvEvent' \in [Events -> EventRows]
  <2>1. \A e \in Events : [dvEvent[e] EXCEPT !.at = "doomed"] \in EventRows
    BY DEF DeliveryTyped, EventRows
  <2> QED BY <2>1 DEF DeleteChannel, DeliveryTyped
<1>5. \A e \in Events : /\ dvEvent'[e].to = dvEvent[e].to /\ dvEvent'[e].dup = dvEvent[e].dup
                        /\ dvEvent'[e].key = dvEvent[e].key
                        /\ dvEvent'[e].at # "done" => dvEvent[e].at # "done"
  BY DEF DeleteChannel, DeliveryTyped, EventRows
<1>6. DeliveryTyped'
  BY <1>1, <1>3, <1>4 DEF DeliveryTyped
<1>7. DeliveryTypeOK'
  <2>1. dvRow' \in [Rows -> [state : {"absent", "pending", "sending", "delivered", "suppressed", "dead_letter"},
                             tries : 0..MaxTries + 1, due : BOOLEAN]]
    BY <1>3 DEF DeliveryRows
  <2> QED BY <1>1, <1>5, <2>1 DEF DeliveryTypeOK
<1>8. \A r \in Rows : dvRow'[r].state \notin {"absent", "suppressed"} => dvRow'[r] = dvRow[r]
  BY <1>2 DEF Unsent
<1>9. OneNotice'
  BY <1>1, <1>5, <1>8, NoNewNotice DEF DeliveryTypeOK
<1>10. ASSUME NEW r \in Rows PROVE RowSound(r)'
  <2>1. r[1] \in Events
    BY DEF Rows
  <2>2. RowSound(r)
    OBVIOUS
  <2> QED BY <1>1, <1>2, <1>5, <2>1, <2>2 DEF RowSound, Uncommitted, Unsent
<1>11. OneSender'
  BY <1>1 DEF OneSender
<1> QED BY <1>6, <1>7, <1>9, <1>10, <1>11
\* A step on the events, which are typed after it.
LEMMA EventTyped ==
  ASSUME DeliveryInv, NEW e \in Events, NEW new \in EventRows, new.dup \subseteq new.to,
         dvEvent' = [dvEvent EXCEPT ![e] = new], UNCHANGED <<dvChannel, dvRoute, dvHeld>>,
         dvRow' \in [Rows -> DeliveryRows], dvFresh' \subseteq Events
  PROVE  DeliveryTypeOK' /\ DeliveryTyped'
<1>1. dvEvent' \in [Events -> EventRows]
  BY DEF DeliveryInv, DeliveryTyped
<1>2. \A f \in Events : dvEvent'[f].to \subseteq Channels /\ dvEvent'[f].dup \subseteq dvEvent'[f].to
  BY DEF DeliveryInv, DeliveryTyped, DeliveryTypeOK, EventRows
<1>3. dvRow' \in [Rows -> [state : {"absent", "pending", "sending", "delivered", "suppressed", "dead_letter"},
                           tries : 0..MaxTries + 1, due : BOOLEAN]]
  BY DEF DeliveryRows
<1> QED BY <1>1, <1>2, <1>3 DEF DeliveryInv, DeliveryTyped, DeliveryTypeOK

LEMMA ReadKeeps == ASSUME DeliveryInv, NEW e \in Events, NEW sev \in 1..2, NEW key \in BOOLEAN,
                          PublishRead(e, sev, key)
                   PROVE DeliveryInv'
<1> USE DEF DeliveryInv
<1> DEFINE new == [at |-> "open", sev |-> sev, key |-> key, to |-> Recipients(sev),
                   dup |-> IF key THEN {c \in Recipients(sev) : Notified(c)} ELSE {}]
<1>1. /\ dvEvent[e].at = "none" /\ dvEvent' = [dvEvent EXCEPT ![e] = new]
      /\ UNCHANGED <<dvChannel, dvRoute, dvRow, dvFresh, dvHeld, dvHarm>>
  BY DEF PublishRead, dvFlt
<1>2. new \in EventRows /\ new.dup \subseteq new.to /\ new.at = "open"
  BY DEF EventRows, Recipients
<1> HIDE DEF new
<1>3. \A f \in Events : dvEvent'[f] = IF f = e THEN new ELSE dvEvent[f]
  BY <1>1 DEF DeliveryTyped
<1>4. DeliveryTypeOK' /\ DeliveryTyped'
  BY <1>1, <1>2, EventTyped DEF DeliveryTyped, DeliveryTypeOK
<1>5. e \notin dvFresh
  <2>1. <<e, "email">> \in Rows
    BY DEF Rows, Channels
  <2>2. Uncommitted(<<e, "email">>)
    BY <2>1 DEF RowSound
  <2> QED BY <1>1, <2>2 DEF Uncommitted
<1>6. OneNotice'
  BY <1>1, <1>3, <1>5, NoNewNotice DEF DeliveryTypeOK
<1>7. ASSUME NEW r \in Rows PROVE RowSound(r)'
  <2>1. r[1] \in Events /\ RowSound(r)
    BY DEF Rows
  <2> QED BY <1>1, <1>3, <2>1 DEF RowSound, Uncommitted
<1>8. OneSender'
  BY <1>1 DEF OneSender
<1> QED BY <1>4, <1>6, <1>7, <1>8

\* A publication that raced another is a fault; without one, no fresh event of the
\* key has told the recipients it inserts pending rows for.
LEMMA CommitKeeps == ASSUME DeliveryInv, NEW e \in Events, PublishCommit(e) PROVE DeliveryInv'
<1> USE DEF DeliveryInv
<1> DEFINE ev == dvEvent[e]
           new == [at |-> "done", sev |-> 1, key |-> ev.key, to |-> {}, dup |-> {}]
           state(c) == IF c \in ev.dup THEN "suppressed" ELSE "pending"
<1>1. /\ ev.at = "open" /\ dvEvent' = [dvEvent EXCEPT ![e] = new] /\ dvFresh' = dvFresh \cup {e}
      /\ UNCHANGED <<dvChannel, dvRoute, dvHeld>>
  BY DEF PublishCommit
<1>2. \A r \in Rows : dvRow'[r] = IF r[1] = e /\ r[2] \in ev.to
                                  THEN [Unsent EXCEPT !.state = state(r[2])] ELSE dvRow[r]
  BY DEF PublishCommit
<1>3. /\ dvHarm \subseteq dvHarm'
      /\ "raced" \notin dvHarm' /\ ev.key => \A c \in ev.to \ ev.dup : ~Notified(c)
  BY DEF PublishCommit, DvFault, dvFlt
<1>4. ev \in EventRows
  BY DEF DeliveryTyped
<1>5. new \in EventRows /\ new.dup \subseteq new.to /\ new.key = ev.key /\ new.at = "done"
  BY <1>4 DEF EventRows
<1>6. \A c \in Channels : /\ [Unsent EXCEPT !.state = state(c)] \in DeliveryRows
                          /\ [Unsent EXCEPT !.state = state(c)].state = state(c)
                          /\ [Unsent EXCEPT !.state = state(c)].tries = 0
  BY UnsentRows
<1> HIDE DEF new
<1>7. dvRow' \in [Rows -> DeliveryRows]
  <2>1. \A r \in Rows : r[2] \in Channels
    BY DEF Rows
  <2>2. dvRow' = [r \in Rows |-> dvRow'[r]]
    BY DEF PublishCommit
  <2>3. \A r \in Rows : dvRow'[r] \in DeliveryRows
    BY <1>2, <1>6, <2>1 DEF DeliveryTyped
  <2> QED BY <2>2, <2>3
<1>8. DeliveryTypeOK' /\ DeliveryTyped'
  BY <1>1, <1>5, <1>7, EventTyped DEF DeliveryTypeOK
<1>9. \A f \in Events : dvEvent'[f] = IF f = e THEN new ELSE dvEvent[f]
  BY <1>1 DEF DeliveryTyped
<1>10. \A f \in Events : dvEvent'[f].key = dvEvent[f].key
  BY <1>5, <1>9
<1>11. \A c \in Channels : /\ <<e, c>> \in Rows /\ dvRow[<<e, c>>].state = "absent" /\ e \notin dvFresh
                           /\ \A l \in DvLoops : dvHeld[l][<<e, c>>] = 0
  <2> SUFFICES ASSUME NEW c \in Channels
               PROVE  /\ <<e, c>> \in Rows /\ dvRow[<<e, c>>].state = "absent" /\ e \notin dvFresh
                      /\ \A l \in DvLoops : dvHeld[l][<<e, c>>] = 0
    OBVIOUS
  <2>1. <<e, c>> \in Rows
    BY DEF Rows
  <2>2. Uncommitted(<<e, c>>)
    BY <2>1 DEF RowSound
  <2> QED BY <1>1, <2>1, <2>2 DEF Uncommitted
<1>12. ASSUME NEW c \in Channels, "raced" \notin dvHarm', ev.key,
              dvRow'[<<e, c>>].state \notin {"absent", "suppressed"}
       PROVE  ~Notified(c)
  <2>1. c \in ev.to \ ev.dup
    BY <1>2, <1>6, <1>11, <1>12
  <2> QED BY <1>3, <1>12, <2>1
<1>13. OneNotice'
  <2> SUFFICES ASSUME "raced" \notin dvHarm', NEW f \in dvFresh', NEW g \in dvFresh', NEW c \in Channels,
                      dvEvent'[f].key, dvRow'[<<f, c>>].state \notin {"absent", "suppressed"},
                      dvEvent'[g].key, dvRow'[<<g, c>>].state \notin {"absent", "suppressed"}
               PROVE  f = g
    BY DEF OneNotice
  <2>1. "raced" \notin dvHarm /\ f \in Events /\ g \in Events /\ dvEvent[f].key /\ dvEvent[g].key
    BY <1>1, <1>3, <1>10 DEF DeliveryTypeOK
  <2>2. ASSUME NEW h \in Events, h # e, dvRow'[<<h, c>>].state \notin {"absent", "suppressed"}
        PROVE  dvRow[<<h, c>>].state \notin {"absent", "suppressed"}
    <3>1. <<h, c>> \in Rows
      BY DEF Rows
    <3> QED BY <1>2, <2>2, <3>1
  <2>3. CASE f # e /\ g # e
    BY <1>1, <2>1, <2>2, <2>3 DEF OneNotice
  <2>4. CASE f = e /\ g # e
    <3>1. ~Notified(c)
      BY <1>12, <2>1, <2>4
    <3> QED BY <1>1, <2>1, <2>2, <2>4, <3>1 DEF Notified
  <2>5. CASE g = e /\ f # e
    <3>1. ~Notified(c)
      BY <1>12, <2>1, <2>5
    <3> QED BY <1>1, <2>1, <2>2, <2>5, <3>1 DEF Notified
  <2> QED BY <2>3, <2>4, <2>5
<1>14. ASSUME NEW r \in Rows PROVE RowSound(r)'
  <2>1. r[1] \in Events /\ r[2] \in Channels /\ r = <<r[1], r[2]>> /\ RowSound(r)
    BY DEF Rows
  <2>2. CASE r[1] = e
    <3>1. dvRow[r].state = "absent" /\ \A l \in DvLoops : dvHeld[l][r] = 0
      BY <1>11, <2>1, <2>2
    <3>2. dvRow'[r].state = "pending" => dvRow'[r].tries = 0
      BY <1>2, <1>6, <2>1, <3>1
    <3>3. dvEvent'[r[1]].at = "done"
      BY <1>5, <1>9, <2>1, <2>2
    <3>4. \A l \in DvLoops : dvHeld'[l][r] = 0
      BY <1>1, <3>1
    <3> QED BY <3>2, <3>3, <3>4 DEF RowSound, Uncommitted
  <2>3. CASE r[1] # e
    BY <1>1, <1>2, <1>9, <2>1, <2>3 DEF RowSound, Uncommitted
  <2> QED BY <2>2, <2>3
<1>15. OneSender'
  BY <1>1 DEF OneSender
<1> QED BY <1>8, <1>13, <1>14, <1>15

LEMMA FailsKeeps == ASSUME DeliveryInv, NEW e \in Events, PublishFails(e) PROVE DeliveryInv'
<1> USE DEF DeliveryInv
<1> DEFINE new == [dvEvent[e] EXCEPT !.at = "done"]
<1>1. /\ dvEvent[e].at = "doomed" /\ dvEvent' = [dvEvent EXCEPT ![e] = new]
      /\ UNCHANGED <<dvChannel, dvRoute, dvRow, dvFresh, dvHeld, dvHarm>>
  BY DEF PublishFails, dvFlt
<1>2. new \in EventRows /\ new.dup \subseteq new.to /\ new.at = "done" /\ new.key = dvEvent[e].key
  BY ZenonT(60) DEF EventRows, DeliveryTyped, DeliveryTypeOK
<1> HIDE DEF new
<1>3. \A f \in Events : dvEvent'[f] = IF f = e THEN new ELSE dvEvent[f]
  BY <1>1 DEF DeliveryTyped
<1>4. DeliveryTypeOK' /\ DeliveryTyped'
  BY <1>1, <1>2, EventTyped DEF DeliveryTyped, DeliveryTypeOK
<1>5. OneNotice'
  BY <1>1, <1>2, <1>3, NoNewNotice DEF DeliveryTypeOK
<1>6. ASSUME NEW r \in Rows PROVE RowSound(r)'
  <2>1. r[1] \in Events /\ RowSound(r)
    BY DEF Rows
  <2> QED BY <1>1, <1>2, <1>3, <2>1 DEF RowSound, Uncommitted
<1>7. OneSender'
  BY <1>1 DEF OneSender
<1> QED BY <1>4, <1>5, <1>6, <1>7

LEMMA WindowKeeps == ASSUME DeliveryInv, NEW e \in Events, WindowPasses(e) PROVE DeliveryInv'
<1> USE DEF DeliveryInv
<1>1. /\ dvFresh' \subseteq dvFresh /\ UNCHANGED <<dvChannel, dvRoute, dvEvent, dvRow, dvHeld, dvHarm>>
  BY DEF WindowPasses, dvFlt
<1>2. OneNotice'
  BY <1>1, NoNewNotice DEF DeliveryTypeOK
<1> QED BY <1>1, <1>2 DEF DeliveryTypeOK, DeliveryTyped, RowSound, Uncommitted, OneSender

-----------------------------------------------------------------------------
\* The loop.

\* A step on rows and batches.
LEMMA LoopKeeps ==
  ASSUME DeliveryInv, UNCHANGED <<dvChannel, dvRoute, dvEvent, dvFresh>>, dvHarm \subseteq dvHarm',
         DeliveryTyped', \A r \in Rows : RowSound(r)', OneSender',
         \A r \in Rows : dvRow'[r].state \notin {"absent", "suppressed"}
                         => dvRow[r].state \notin {"absent", "suppressed"}
  PROVE  DeliveryInv'
<1> USE DEF DeliveryInv
<1>1. OneNotice'
  BY NoNewNotice DEF DeliveryTypeOK
<1>2. dvRow' \in [Rows -> [state : {"absent", "pending", "sending", "delivered", "suppressed", "dead_letter"},
                           tries : 0..MaxTries + 1, due : BOOLEAN]]
  BY DEF DeliveryTyped, DeliveryRows
<1>3. dvHeld' \in [DvLoops -> [Rows -> 0..MaxTries + 1]]
  BY DEF DeliveryTyped
<1>4. DeliveryTypeOK'
  BY <1>2, <1>3 DEF DeliveryTypeOK
<1> QED BY <1>1, <1>4

LEMMA ElapseKeeps == ASSUME DeliveryInv, NEW r \in Rows, Elapse(r) PROVE DeliveryInv'
<1> USE DEF DeliveryInv
<1> DEFINE new == [dvRow[r] EXCEPT !.due = TRUE]
<1>1. dvRow' = [dvRow EXCEPT ![r] = new] /\ UNCHANGED <<dvChannel, dvRoute, dvEvent, dvFresh, dvHeld, dvHarm>>
  BY DEF Elapse, dvFlt
<1>2. new \in DeliveryRows /\ new.state = dvRow[r].state /\ new.tries = dvRow[r].tries
  BY DEF DeliveryTyped, DeliveryRows
<1> HIDE DEF new
<1>3. \A q \in Rows : dvRow'[q].state = dvRow[q].state /\ dvRow'[q].tries = dvRow[q].tries
  BY <1>1, <1>2 DEF DeliveryTyped
<1>4. DeliveryTyped' /\ OneSender'
  BY <1>1, <1>2 DEF DeliveryTyped, OneSender
<1>5. \A q \in Rows : RowSound(q)'
  BY <1>1, <1>3 DEF RowSound, Uncommitted
<1> QED BY <1>1, <1>3, <1>4, <1>5, LoopKeeps

LEMMA RedeliverKeeps == ASSUME DeliveryInv, NEW r \in Rows, Redeliver(r) PROVE DeliveryInv'
<1> USE DEF DeliveryInv
<1> DEFINE new == [Unsent EXCEPT !.state = "pending"]
<1>1. /\ dvRow' = [dvRow EXCEPT ![r] = new] /\ dvRow[r].state = "dead_letter"
      /\ UNCHANGED <<dvChannel, dvRoute, dvEvent, dvFresh, dvHeld, dvHarm>>
  BY DEF Redeliver, dvFlt
<1>2. new \in DeliveryRows /\ new.state = "pending" /\ new.tries = 0
  BY UnsentRows
<1> HIDE DEF new
<1>3. \A q \in Rows : dvRow'[q] = IF q = r THEN new ELSE dvRow[q]
  BY <1>1 DEF DeliveryTyped
<1>4. DeliveryTyped' /\ OneSender'
  BY <1>1, <1>2 DEF DeliveryTyped, OneSender
<1>5. \A q \in Rows : RowSound(q)'
  BY <1>1, <1>2, <1>3 DEF RowSound, Uncommitted
<1> QED BY <1>1, <1>2, <1>3, <1>4, <1>5, LoopKeeps

\* No loop holds what it may claim, and only the claim lets it hold anything.
LEMMA ClaimKeeps == ASSUME DeliveryInv, NEW l \in DvLoops, ClaimBatch(l) PROVE DeliveryInv'
<1> USE DEF DeliveryInv
<1> DEFINE S == {r \in Rows : Claimable(r)}
           sent(r) == [Claimed(dvRow[r]) EXCEPT !.state = "sending"]
<1>1. /\ dvRow' = [r \in Rows |-> IF r \in S THEN sent(r) ELSE dvRow[r]]
      /\ dvHeld' = [dvHeld EXCEPT ![l] = [r \in Rows |-> IF r \in S THEN dvRow[r].tries + 1 ELSE 0]]
      /\ UNCHANGED <<dvChannel, dvRoute, dvEvent, dvFresh, dvHarm>>
  BY DEF ClaimBatch, dvFlt
<1>2. \A r \in S : /\ dvRow[r].state = "pending" /\ dvRow[r].tries + 1 \in 1..MaxTries
                   /\ dvEvent[r[1]].at = "done" /\ \A k \in DvLoops : dvHeld[k][r] = 0
  <2> SUFFICES ASSUME NEW r \in S
               PROVE  /\ dvRow[r].state = "pending" /\ dvRow[r].tries + 1 \in 1..MaxTries
                      /\ dvEvent[r[1]].at = "done" /\ \A k \in DvLoops : dvHeld[k][r] = 0
    OBVIOUS
  <2>1. r \in Rows /\ dvRow[r].state = "pending" /\ RowSound(r)
    BY DEF Claimable
  <2>2. dvRow[r].tries \in 0..MaxTries /\ dvRow[r].tries < MaxTries
    BY <2>1 DEF RowSound, DeliveryTyped, DeliveryRows
  <2> QED BY <2>1, <2>2 DEF RowSound, Uncommitted
<1>3. \A r \in S : sent(r) \in DeliveryRows /\ sent(r).state = "sending" /\ sent(r).tries = dvRow[r].tries + 1
  <2> SUFFICES ASSUME NEW r \in S
               PROVE  sent(r) \in DeliveryRows /\ sent(r).state = "sending" /\ sent(r).tries = dvRow[r].tries + 1
    OBVIOUS
  <2>1. dvRow[r] \in DeliveryRows /\ dvRow[r].tries + 1 \in 0..MaxTries
    BY <1>2 DEF DeliveryTyped
  <2> QED BY <2>1 DEF Claimed, DeliveryRows
<1> HIDE DEF sent
<1>4. dvRow' \in [Rows -> DeliveryRows]
  BY <1>1, <1>3 DEF DeliveryTyped
<1>5. /\ dvHeld' \in [DvLoops -> [Rows -> 0..MaxTries]]
      /\ \A r \in Rows : dvHeld'[l][r] = IF r \in S THEN dvRow[r].tries + 1 ELSE 0
      /\ \A k \in DvLoops : k # l => dvHeld'[k] = dvHeld[k]
  <2>1. [r \in Rows |-> IF r \in S THEN dvRow[r].tries + 1 ELSE 0] \in [Rows -> 0..MaxTries]
    BY <1>2
  <2> QED BY <1>1, <2>1 DEF DeliveryTyped
<1>6. DeliveryTyped'
  BY <1>1, <1>4, <1>5 DEF DeliveryTyped
<1>7. ASSUME NEW r \in Rows PROVE RowSound(r)'
  <2>1. CASE r \in S
    <3>1. dvRow'[r].state = "sending" /\ dvRow'[r].tries = dvRow[r].tries + 1 /\ dvEvent'[r[1]].at = "done"
      BY <1>1, <1>2, <1>3, <2>1
    <3>2. \A k \in DvLoops : dvHeld'[k][r] \in {0, dvRow[r].tries + 1}
      BY <1>2, <1>5, <2>1
    <3> QED BY <3>1, <3>2 DEF RowSound, Uncommitted
  <2>2. CASE r \notin S
    <3>1. RowSound(r)
      OBVIOUS
    <3>2. dvRow'[r] = dvRow[r] /\ \A k \in DvLoops : dvHeld'[k][r] \in {0, dvHeld[k][r]}
      BY <1>1, <1>5, <2>2
    <3> QED BY <1>1, <3>1, <3>2 DEF RowSound, Uncommitted
  <2> QED BY <2>1, <2>2
<1>8. OneSender'
  <2> SUFFICES ASSUME NEW r \in Rows, NEW j \in DvLoops, NEW k \in DvLoops, dvHeld'[j][r] # 0, dvHeld'[k][r] # 0
               PROVE  j = k
    BY DEF OneSender
  <2>1. CASE r \in S
    BY <1>2, <1>5, <2>1
  <2>2. CASE r \notin S
    BY <1>5, <2>2 DEF OneSender
  <2> QED BY <2>1, <2>2
<1>9. \A r \in Rows : dvRow'[r].state \notin {"absent", "suppressed"}
                       => dvRow[r].state \notin {"absent", "suppressed"}
  BY <1>1, <1>2
<1> QED BY <1>1, <1>6, <1>7, <1>8, <1>9, LoopKeeps

LEMMA DeliverKeeps == ASSUME DeliveryInv, NEW l \in DvLoops, NEW r \in Rows, Deliver(l, r) PROVE DeliveryInv'
<1> USE DEF DeliveryInv
<1>1. /\ dvHeld[l][r] # 0 /\ dvHeld' = [dvHeld EXCEPT ![l][r] = 0]
      /\ UNCHANGED <<dvChannel, dvRoute, dvEvent, dvFresh, dvHarm>>
  BY DEF Deliver, dvFlt
<1>2. /\ dvRow[r].state \in {"absent", "sending"} /\ dvRow[r] \in DeliveryRows /\ RowSound(r)
      /\ dvEvent[r[1]].at = "done" /\ \A k \in DvLoops : k # l => dvHeld[k][r] = 0
  BY <1>1 DEF RowSound, Uncommitted, OneSender, DeliveryTyped
<1>3. dvHeld[l][r] \in 1..MaxTries
  BY <1>1 DEF DeliveryTyped
<1>4. PICK new \in DeliveryRows :
        /\ Written(r, new)
        /\ new.state = "pending" => new.tries < MaxTries
  <2> DEFINE n == IF dvRow[r].tries > 0 THEN dvRow[r].tries - 1 ELSE 0
             back == [Backoff(dvRow[r]) EXCEPT !.tries = n]
  <2>1. CASE Written(r, [Backoff(dvRow[r]) EXCEPT !.tries = IF @ > 0 THEN @ - 1 ELSE 0])
    <3>1. dvRow[r].tries \in 0..MaxTries
      BY <1>2 DEF DeliveryRows
    <3>2. n \in 0..MaxTries /\ n < MaxTries
      BY <3>1
    <3>3. [Backoff(dvRow[r]) EXCEPT !.tries = IF @ > 0 THEN @ - 1 ELSE 0] = back
      BY <1>2 DEF Backoff, DeliveryRows
    <3> HIDE DEF n
    <3>4. back \in DeliveryRows /\ back.tries = n
      BY <1>2, <3>2 DEF Backoff, DeliveryRows
    <3> QED BY <2>1, <3>2, <3>3, <3>4
  <2>2. CASE Written(r, [Unsent EXCEPT !.state = "delivered"])
    <3>1. [Unsent EXCEPT !.state = "delivered"] \in DeliveryRows /\ [Unsent EXCEPT !.state = "delivered"].state = "delivered"
      BY UnsentRows
    <3> QED BY <2>2, <3>1
  <2>3. CASE Written(r, Failed(dvRow[r], dvHeld[l][r]))
    <3>1. CASE Exhausted(dvHeld[l][r])
      <4>1. [Unsent EXCEPT !.state = "dead_letter"] \in DeliveryRows
            /\ [Unsent EXCEPT !.state = "dead_letter"].state = "dead_letter"
        BY UnsentRows
      <4> QED BY <2>3, <3>1, <4>1 DEF Failed
    <3>2. CASE ~Exhausted(dvHeld[l][r])
      <4>1. Backoff(dvRow[r]) \in DeliveryRows /\ Backoff(dvRow[r]).tries = dvRow[r].tries
        BY <1>2 DEF Backoff, DeliveryRows
      <4>2. CASE dvRow[r].state = "absent"
        <5>1. dvRow[r] \in DeliveryRows /\ dvRow[r].state # "pending" /\ dvRow' = dvRow
          BY <1>2, <2>3, <4>2 DEF Written
        <5> QED BY <4>2, <5>1 DEF Written
      <4>3. CASE dvRow[r].state # "absent"
        <5>1. dvRow[r].tries = dvHeld[l][r] /\ dvHeld[l][r] < MaxTries
          BY <1>1, <1>2, <1>3, <3>2, <4>3 DEF RowSound, Exhausted
        <5> QED BY <2>3, <3>2, <4>1, <5>1 DEF Failed
      <4> QED BY <4>2, <4>3
    <3> QED BY <3>1, <3>2
  <2> QED BY <2>1, <2>2, <2>3 DEF Deliver
<1>5. /\ dvHeld' \in [DvLoops -> [Rows -> 0..MaxTries]]
      /\ dvHeld'[l][r] = 0
      /\ \A k \in DvLoops, q \in Rows : k # l \/ q # r => dvHeld'[k][q] = dvHeld[k][q]
  BY <1>1 DEF DeliveryTyped
<1>6. /\ dvRow' \in [Rows -> DeliveryRows]
      /\ \A q \in Rows : q # r => dvRow'[q] = dvRow[q]
      /\ dvRow'[r] = IF dvRow[r].state = "absent" THEN dvRow[r] ELSE new
  BY <1>4 DEF Written, DeliveryTyped
<1>7. DeliveryTyped'
  BY <1>1, <1>5, <1>6 DEF DeliveryTyped
<1>8. ASSUME NEW q \in Rows PROVE RowSound(q)'
  <2>1. CASE q = r
    <3>1. \A k \in DvLoops : dvHeld'[k][r] = 0
      BY <1>2, <1>5
    <3>2. dvRow'[r].state = "pending" => dvRow'[r].tries < MaxTries
      BY <1>2, <1>4, <1>6
    <3> QED BY <1>1, <1>2, <2>1, <3>1, <3>2 DEF RowSound, Uncommitted
  <2>2. CASE q # r
    BY <1>1, <1>5, <1>6, <2>2 DEF RowSound, Uncommitted
  <2> QED BY <2>1, <2>2
<1>9. OneSender'
  BY <1>5 DEF OneSender
<1>10. \A q \in Rows : dvRow'[q].state \notin {"absent", "suppressed"}
                        => dvRow[q].state \notin {"absent", "suppressed"}
  BY <1>2, <1>6
<1> QED BY <1>1, <1>7, <1>8, <1>9, <1>10, LoopKeeps

LEMMA BreaksKeeps == ASSUME DeliveryInv, NEW l \in DvLoops, LoopBreaks(l) PROVE DeliveryInv'
<1> USE DEF DeliveryInv
<1>1. /\ dvHeld' = [dvHeld EXCEPT ![l] = [r \in Rows |-> 0]]
      /\ UNCHANGED <<dvChannel, dvRoute, dvEvent, dvRow, dvFresh>> /\ dvHarm \subseteq dvHarm'
  BY DEF LoopBreaks, DvFault
<1>2. /\ dvHeld' \in [DvLoops -> [Rows -> 0..MaxTries]]
      /\ \A k \in DvLoops, q \in Rows : dvHeld'[k][q] \in {0, dvHeld[k][q]}
  <2>1. [r \in Rows |-> 0] \in [Rows -> 0..MaxTries]
    OBVIOUS
  <2> QED BY <1>1, <2>1 DEF DeliveryTyped
<1>3. DeliveryTyped'
  BY <1>1, <1>2 DEF DeliveryTyped
<1>4. \A q \in Rows : RowSound(q)'
  BY <1>1, <1>2 DEF RowSound, Uncommitted
<1>5. OneSender'
  BY <1>2 DEF OneSender
<1> QED BY <1>1, <1>3, <1>4, <1>5, LoopKeeps

LEMMA DeliveryStep == ASSUME DeliveryInv, [DeliveryNext]_deliveryVars PROVE DeliveryInv'
<1>1. CASE UNCHANGED deliveryVars
  BY <1>1 DEF deliveryVars, dvFlt, DeliveryInv, DeliveryTypeOK, DeliveryTyped, RowSound, Uncommitted, OneSender, OneNotice
<1>2. ASSUME NEW c \in Channels,
             \/ SaveChannel(c, "enabled") \/ SaveChannel(c, "disabled") \/ DeleteChannel(c)
             \/ SaveRoute(c, 1) \/ SaveRoute(c, 2) \/ SaveRoute(c, 0)
      PROVE  DeliveryInv'
  <2>1. 0 \in 0..2 /\ 1 \in 0..2 /\ 2 \in 0..2
    OBVIOUS
  <2> QED BY <1>2, <2>1, ChannelSaved, ChannelDeleted, RouteSaved
<1>3. ASSUME NEW e \in Events,
             \/ (\E sev \in 1..2, key \in BOOLEAN : PublishRead(e, sev, key))
             \/ PublishCommit(e) \/ PublishFails(e) \/ WindowPasses(e)
      PROVE  DeliveryInv'
  BY <1>3, ReadKeeps, CommitKeeps, FailsKeeps, WindowKeeps
<1>4. ASSUME NEW r \in Rows, Elapse(r) \/ Redeliver(r) \/ \E l \in DvLoops : Deliver(l, r)
      PROVE  DeliveryInv'
  BY <1>4, ElapseKeeps, RedeliverKeeps, DeliverKeeps
<1>5. ASSUME NEW l \in DvLoops, ClaimBatch(l) \/ LoopBreaks(l) PROVE DeliveryInv'
  BY <1>5, ClaimKeeps, BreaksKeeps
<1> QED BY <1>1, <1>2, <1>3, <1>4, <1>5 DEF DeliveryNext

\* Notifications (delivery.go:113-227, notify.go), for any number of events,
\* controllers, attempts, edits and faults: two controllers never send one delivery at
\* the same time, and within the dedup window a user is notified once of one
\* condition, unless two publications were in their transactions together.
THEOREM NoticesCorrect == DeliverySpec => []DeliveriesAreSound
<1>1. DeliveryInv /\ [DeliveryNext]_deliveryVars => DeliveryInv'
  BY DeliveryStep
<1> QED BY <1>1, DeliveryInitInv, InvDeliveries, PTL DEF DeliverySpec

HIDE DeliveryAssumption

-----------------------------------------------------------------------------
(***************************************************************************)
(* Apps: OnePushOneDeployment for any number of deployments, requests and  *)
(* commits: what the two unique indexes of migration 0016 refuse at the    *)
(* insert stays refused, whatever requests and jobs do later.              *)
(***************************************************************************)

Triggers == {"none", "manual", "rollback", "webhook"}
AppRows ==
    [state : {"absent", "queued", "running", "succeeded", "failed"}, trigger : Triggers,
     commit : ApCommits \cup {0}, push : BOOLEAN, job : BOOLEAN]
AppRequests ==
    [at : {"idle", "insert", "enqueue"}, trigger : Triggers, commit : ApCommits \cup {0}, push : BOOLEAN]

AppsTypeOK ==
    /\ apDep \in [ApDeps -> AppRows] /\ apReq \in [ApRequests -> AppRequests]
    /\ apReleases \subseteq ApDeps

AppsInv == AppsTypeOK /\ OnePushOneDeployment

-----------------------------------------------------------------------------
\* There is no deployment at first.
LEMMA AppsStarts == AppsInit => AppsInv
<1> SUFFICES ASSUME AppsInit PROVE AppsInv
  OBVIOUS
<1>1. NoDep \in AppRows /\ NoRequest \in AppRequests
  BY DEF NoDep, NoRequest, AppRows, AppRequests, Triggers
<1>2. AppsTypeOK
  BY <1>1 DEF AppsInit, AppsTypeOK
<1>3. \A d \in ApDeps : apDep[d] = NoDep
  BY DEF AppsInit
<1>4. OnePushOneDeployment
  BY <1>3 DEF OnePushOneDeployment, ApActive, NoDep
<1> QED BY <1>2, <1>4 DEF AppsInv

\* A step after which every deployment is active or a push only if it was before.
LEMMA NothingBegins ==
  ASSUME AppsInv,
         \A d \in ApDeps : /\ ApActive(d)' => ApActive(d)
                           /\ apDep'[d].push = apDep[d].push /\ apDep'[d].commit = apDep[d].commit
  PROVE  OnePushOneDeployment'
BY DEF AppsInv, OnePushOneDeployment

\* The requests that only read, and the inventory.
LEMMA ReadsKeep ==
  ASSUME AppsInv, NEW r \in ApRequests, NEW trigger \in Triggers, NEW c \in ApCommits \cup {0}, NEW push \in BOOLEAN,
         Reads(r, trigger, c, push)
  PROVE  AppsInv'
<1>1. /\ apReq' = [apReq EXCEPT ![r] = [at |-> "insert", trigger |-> trigger, commit |-> c, push |-> push]]
      /\ UNCHANGED <<apDep, apReleases>>
  BY DEF Reads, appDeps
<1>2. [at |-> "insert", trigger |-> trigger, commit |-> c, push |-> push] \in AppRequests
  BY DEF AppRequests
<1>3. AppsTypeOK'
  BY <1>1, <1>2 DEF AppsInv, AppsTypeOK
<1>4. OnePushOneDeployment'
  BY <1>1, NothingBegins DEF ApActive
<1> QED BY <1>3, <1>4 DEF AppsInv

\* CreateDeployment: the indexes let a row in only if it conflicts with none.
LEMMA InsertKeeps == ASSUME AppsInv, NEW r \in ApRequests, InsertDep(r) PROVE AppsInv'
<1> DEFINE q == apReq[r]
<1>1. q \in AppRequests /\ apReleases' = apReleases
  BY DEF AppsInv, AppsTypeOK, InsertDep
<1>2. CASE Refused(q) /\ apReq' = [apReq EXCEPT ![r] = NoRequest] /\ UNCHANGED apDep
  <2>1. NoRequest \in AppRequests
    BY DEF NoRequest, AppRequests, Triggers
  <2>2. AppsTypeOK'
    BY <1>1, <1>2, <2>1 DEF AppsInv, AppsTypeOK
  <2>3. OnePushOneDeployment'
    BY <1>2, NothingBegins DEF ApActive
  <2> QED BY <2>2, <2>3 DEF AppsInv
<1>3. ASSUME ~Refused(q), apReq' = [apReq EXCEPT ![r].at = "enqueue"], NEW d \in ApDeps,
             apDep' = [apDep EXCEPT ![d] = [state |-> "queued", trigger |-> q.trigger, commit |-> q.commit,
                                            push |-> q.push, job |-> FALSE]]
      PROVE  AppsInv'
  <2> DEFINE new == [state |-> "queued", trigger |-> q.trigger, commit |-> q.commit, push |-> q.push, job |-> FALSE]
  <2>1. new \in AppRows /\ new.push = q.push /\ new.commit = q.commit
    BY <1>1 DEF AppRows, AppRequests
  <2>2. [q EXCEPT !.at = "enqueue"] \in AppRequests
    BY <1>1 DEF AppRequests
  <2>3. AppsTypeOK'
    BY <1>1, <1>3, <2>1, <2>2 DEF AppsInv, AppsTypeOK
  <2> HIDE DEF new
  <2>4. apDep'[d] = new /\ \A e \in ApDeps \ {d} : apDep'[e] = apDep[e]
    BY <1>3 DEF AppsInv, AppsTypeOK, new
  <2>5. \A e \in ApDeps : ~ApActive(e) /\ ~(q.push /\ apDep[e].push /\ apDep[e].commit = q.commit)
    BY <1>3 DEF Refused
  <2>6. \A e \in ApDeps \ {d} : ~ApActive(e)'
    BY <2>4, <2>5 DEF ApActive
  <2>7. \A e \in ApDeps \ {d} : ~(apDep'[d].push /\ apDep'[e].push /\ apDep'[d].commit = apDep'[e].commit)
    BY <2>1, <2>4, <2>5
  <2>8. \A e, f \in ApDeps \ {d} : e # f => ~(apDep'[e].push /\ apDep'[f].push /\ apDep'[e].commit = apDep'[f].commit)
    BY <2>4 DEF AppsInv, OnePushOneDeployment
  <2>9. OnePushOneDeployment'
    BY <2>6, <2>7, <2>8 DEF OnePushOneDeployment
  <2> QED BY <2>3, <2>9 DEF AppsInv
<1> QED BY <1>2, <1>3 DEF InsertDep

\* A deployment gets its job or ends: nothing else about its row changes.
LEMMA ChangeKeeps ==
  ASSUME AppsInv, NEW d \in ApDeps, ApActive(d), AppsTypeOK',
         \/ apDep' = apDep
         \/ apDep' = [apDep EXCEPT ![d].job = TRUE]
         \/ \E state \in {"succeeded", "failed"} : apDep' = [apDep EXCEPT ![d].state = state]
  PROVE  AppsInv'
<1>1. \A e \in ApDeps : /\ ApActive(e)' => ApActive(e)
                        /\ apDep'[e].push = apDep[e].push /\ apDep'[e].commit = apDep[e].commit
  BY DEF AppsInv, AppsTypeOK, AppRows, ApActive
<1> QED BY <1>1, NothingBegins DEF AppsInv

LEMMA Retyped ==
  ASSUME AppsTypeOK, NEW d \in ApDeps
  PROVE  /\ [apDep EXCEPT ![d].job = TRUE] \in [ApDeps -> AppRows]
         /\ \A state \in {"succeeded", "failed"} : [apDep EXCEPT ![d].state = state] \in [ApDeps -> AppRows]
BY DEF AppsTypeOK, AppRows

\* Enqueue, which may fail, and then the write that ends the deployment as well.
LEMMA EnqueueKeeps == ASSUME AppsInv, NEW r \in ApRequests, EnqueueDep(r) PROVE AppsInv'
<1>1. PICK d \in ApDeps : /\ ApActive(d)
                          /\ \/ apDep' = [apDep EXCEPT ![d].job = TRUE]
                             \/ apDep' \in {apDep, [apDep EXCEPT ![d].state = "failed"]}
  BY DEF EnqueueDep
<1>2. apReq' = [apReq EXCEPT ![r] = NoRequest] /\ apReleases' = apReleases
  BY DEF EnqueueDep
<1>3. NoRequest \in AppRequests
  BY DEF NoRequest, AppRequests, Triggers
<1>4. AppsTypeOK'
  BY <1>1, <1>2, <1>3, Retyped DEF AppsInv, AppsTypeOK
<1> QED BY <1>1, <1>4, ChangeKeeps

\* The job ends, with or without a release.
LEMMA EndKeeps == ASSUME AppsInv, NEW d \in ApDeps, JobEnds(d) PROVE AppsInv'
<1>1. /\ ApActive(d) /\ apReq' = apReq /\ (apReleases' = apReleases \/ apReleases' = apReleases \cup {d})
      /\ \E state \in {"succeeded", "failed"} : apDep' = [apDep EXCEPT ![d].state = state]
  BY DEF JobEnds
<1>2. AppsTypeOK
  BY DEF AppsInv
<1>3. apDep' \in [ApDeps -> AppRows]
  <2>1. PICK state \in {"succeeded", "failed"} : apDep' = [apDep EXCEPT ![d].state = state]
    BY <1>1
  <2>2. [apDep EXCEPT ![d].state = state] \in [ApDeps -> AppRows]
    BY <1>2, Retyped, Zenon
  <2> QED BY <2>1, <2>2
<1>4. apReleases' \subseteq ApDeps
  BY <1>1, <1>2 DEF AppsTypeOK
<1>5. AppsTypeOK'
  BY <1>1, <1>2, <1>3, <1>4 DEF AppsTypeOK
<1> QED BY <1>1, <1>5, ChangeKeeps

-----------------------------------------------------------------------------
\* Every step keeps the invariant.
LEMMA AppsStep == AppsInv /\ [AppsNext]_appsVars => AppsInv'
<1> SUFFICES ASSUME AppsInv, [AppsNext]_appsVars PROVE AppsInv'
  OBVIOUS
<1>1. ASSUME UNCHANGED <<apDep, apReq, apReleases>> PROVE AppsInv'
  <2>1. OnePushOneDeployment'
    BY <1>1, NothingBegins DEF ApActive
  <2> QED BY <1>1, <2>1 DEF AppsInv, AppsTypeOK
<1>2. \A d \in ApDeps : apDep[d].commit \in ApCommits \cup {0}
  BY DEF AppsInv, AppsTypeOK, AppRows
<1>3. CASE UNCHANGED appsVars
  BY <1>1, <1>3 DEF appsVars, appDeps
<1>4. CASE CreateApp \/ DeleteApp \/ CreateWebhookToken \/ RevokeWebhookToken
  BY <1>1, <1>4 DEF CreateApp, DeleteApp, CreateWebhookToken, RevokeWebhookToken, appDeps
<1>5. ASSUME NEW r \in ApRequests, RollbackApp(r) PROVE AppsInv'
  <2>1. PICK d \in RollbackTarget : Reads(r, "rollback", apDep[d].commit, FALSE)
    BY <1>5 DEF RollbackApp
  <2>2. d \in ApDeps
    BY DEF RollbackTarget, AppsInv, AppsTypeOK
  <2> QED BY <1>2, <2>1, <2>2, ReadsKeep DEF Triggers
<1>6. ASSUME NEW r \in ApRequests, InsertDep(r) \/ EnqueueDep(r) PROVE AppsInv'
  BY <1>6, InsertKeeps, EnqueueKeeps
<1>7. ASSUME NEW r \in ApRequests, NEW c \in ApCommits, DeployApp(r, c) \/ GitWebhook(r, c) PROVE AppsInv'
  BY <1>7, ReadsKeep DEF DeployApp, GitWebhook, Triggers
<1>8. ASSUME NEW r \in ApRequests, NEW d \in ApDeps, Redeploy(r, d) PROVE AppsInv'
  BY <1>2, <1>8, ReadsKeep DEF Redeploy, Triggers
<1>9. ASSUME NEW d \in ApDeps, JobEnds(d) PROVE AppsInv'
  BY <1>9, EndKeeps
<1> QED BY <1>3, <1>4, <1>5, <1>6, <1>7, <1>8, <1>9 DEF AppsNext

\* A push makes one deployment however often it is delivered, and no two
\* deployments of an application are under way (apps.go, migration 0016).
THEOREM DeploymentsCorrect == AppsSpec => []OnePushOneDeployment
<1>1. AppsInit => AppsInv
  BY AppsStarts
<1>2. AppsInv /\ [AppsNext]_appsVars => AppsInv'
  BY AppsStep
<1>3. AppsInv => OnePushOneDeployment
  BY DEF AppsInv
<1> QED BY <1>1, <1>2, <1>3, PTL DEF AppsSpec

-----------------------------------------------------------------------------
(***************************************************************************)
(* Dns: CredentialsAreKept for any number of providers, requests, zones    *)
(* and records. The providers share one token reference; that none loses   *)
(* its token rests on the order of the two writes of each request, which   *)
(* OwnersAlone states.                                                     *)
(***************************************************************************)

\* The requests between their two writes: the token is sealed and the row is not
\* there yet, or the row is gone and the token is not.
Owner(r) == dnReq[r].at \in {"insert", "unseal"}

DnTypeOK ==
    /\ dnProv \in [DnProviders -> {"absent", "live", "deleted"}]
    /\ dnReq \in [DnRequests -> [at : {"idle", "insert", "delete", "unseal"}, prov : DnProviders \cup {0}]]
    /\ dnZone \in [DnZones -> DnProviders \cup {0}]
    /\ dnRec \in [DnRecords -> [zone : DnZones \cup {0}, sync : {"none", "pending", "deleting"}]]

\* One request at a time is between its writes, the token is its provider's, and
\* that provider is not in use.
OwnersAlone ==
    /\ \A r \in DnRequests : Owner(r) =>
        /\ dnReq[r].prov \in DnProviders /\ dnToken = dnReq[r].prov
        /\ dnReq[r].at = "insert" => dnProv[dnReq[r].prov] = "absent"
        /\ dnReq[r].at = "unseal" => dnProv[dnReq[r].prov] = "deleted"
    /\ \A r, q \in DnRequests : Owner(r) /\ Owner(q) => r = q
    /\ \A r \in DnRequests : dnReq[r].at = "delete" => dnReq[r].prov \in DnProviders

LiveHaveTokens == \A p \in DnProviders : dnProv[p] = "live" => dnToken = p
ZonesHaveProviders == \A z \in DnZones : dnZone[z] # 0 => dnProv[dnZone[z]] = "live"
RecordsHaveZones == \A k \in DnRecords : dnRec[k].zone # 0 => dnZone[dnRec[k].zone] # 0
CertsHaveKeys == dnCert \in {"sealing", "active", "revoked"} => dnKey

ProviderInv == DnTypeOK /\ OwnersAlone /\ LiveHaveTokens /\ ZonesHaveProviders /\ RecordsHaveZones
DnsInv == ProviderInv /\ CertsHaveKeys

-----------------------------------------------------------------------------
\* Nothing exists at first.
LEMMA DnsStarts == DnsInit => DnsInv
<1> SUFFICES ASSUME DnsInit PROVE DnsInv
  OBVIOUS
<1>1. \A r \in DnRequests : dnReq[r].at = "idle" /\ dnReq[r].prov = 0
  BY DEF DnsInit, DnIdle
<1>2. DnTypeOK
  BY DEF DnsInit, DnTypeOK, DnIdle, NoRec
<1>3. OwnersAlone
  BY <1>1 DEF OwnersAlone, Owner
<1>4. LiveHaveTokens /\ ZonesHaveProviders /\ RecordsHaveZones
  BY DEF DnsInit, LiveHaveTokens, ZonesHaveProviders, RecordsHaveZones, NoRec
<1>5. CertsHaveKeys
  BY DEF DnsInit, CertsHaveKeys
<1> QED BY <1>2, <1>3, <1>4, <1>5 DEF DnsInv, ProviderInv

\* A step that leaves rows, token and requests alone.
LEMMA ProvidersUnchanged ==
  ASSUME ProviderInv, UNCHANGED <<dnProv, dnToken, dnReq, dnZone, dnRec>>
  PROVE  ProviderInv'
<1>1. DnTypeOK' /\ OwnersAlone'
  BY DEF ProviderInv, DnTypeOK, OwnersAlone, Owner
<1> QED BY <1>1 DEF ProviderInv, LiveHaveTokens, ZonesHaveProviders, RecordsHaveZones

\* What a request's next place is (dns_tls.go).
LEMMA Moves ==
  ASSUME ProviderInv, NEW r \in DnRequests, NEW at \in {"idle", "insert", "delete", "unseal"},
         NEW p \in DnProviders \cup {0}, dnReq' = [dnReq EXCEPT ![r] = [at |-> at, prov |-> p]]
  PROVE  /\ dnReq' \in [DnRequests -> [at : {"idle", "insert", "delete", "unseal"}, prov : DnProviders \cup {0}]]
         /\ dnReq'[r].at = at /\ dnReq'[r].prov = p
         /\ Owner(r)' <=> at \in {"insert", "unseal"}
         /\ \A q \in DnRequests \ {r} : dnReq'[q] = dnReq[q] /\ (Owner(q)' <=> Owner(q))
BY DEF ProviderInv, DnTypeOK, Owner

-----------------------------------------------------------------------------
\* Sealing finds the reference free, so no request is between its writes and no
\* provider is live.
LEMMA SealKeeps ==
  ASSUME ProviderInv, NEW r \in DnRequests, NEW p \in DnProviders, SealToken(r, p)
  PROVE  ProviderInv'
<1>1. /\ dnToken = 0 /\ dnToken' = p /\ dnProv[p] = "absent"
      /\ dnReq' = [dnReq EXCEPT ![r] = [at |-> "insert", prov |-> p]]
      /\ UNCHANGED <<dnProv, dnZone, dnRec>>
  BY DEF SealToken, TokenFree, DnAt, dnRows
<1>2. \A q \in DnRequests : ~Owner(q)
  BY <1>1, DnsAssumption DEF ProviderInv, OwnersAlone
<1>3. \A q \in DnProviders : dnProv[q] # "live"
  BY <1>1, DnsAssumption DEF ProviderInv, LiveHaveTokens
<1>4. /\ dnReq' \in [DnRequests -> [at : {"idle", "insert", "delete", "unseal"}, prov : DnProviders \cup {0}]]
      /\ dnReq'[r].at = "insert" /\ dnReq'[r].prov = p
      /\ \A q \in DnRequests \ {r} : dnReq'[q] = dnReq[q] /\ ~Owner(q)'
  BY <1>1, <1>2, Moves
<1>5. OwnersAlone'
  <2>1. \A q \in DnRequests : Owner(q)' => q = r
    BY <1>4
  <2> QED BY <1>1, <1>4, <2>1 DEF ProviderInv, OwnersAlone
<1>6. LiveHaveTokens'
  BY <1>1, <1>3 DEF LiveHaveTokens
<1> QED BY <1>1, <1>4, <1>5, <1>6 DEF ProviderInv, DnTypeOK, ZonesHaveProviders, RecordsHaveZones

\* The row of the one request between its writes appears, or its token goes with it.
LEMMA DnsInsertKeeps ==
  ASSUME ProviderInv, NEW r \in DnRequests, InsertProvider(r) \/ InsertFails(r)
  PROVE  ProviderInv'
<1> DEFINE p == dnReq[r].prov
<1>1. /\ Owner(r) /\ dnReq[r].at = "insert" /\ dnReq' = [dnReq EXCEPT ![r] = [at |-> "idle", prov |-> 0]]
      /\ UNCHANGED <<dnZone, dnRec>>
  BY DEF InsertProvider, InsertFails, DnEnds, DnIdle, Owner, dnRows
<1>2. p \in DnProviders /\ dnToken = p /\ dnProv[p] = "absent"
  BY <1>1 DEF ProviderInv, OwnersAlone
<1>3. \A q \in DnRequests : Owner(q) => q = r
  BY <1>1 DEF ProviderInv, OwnersAlone
<1>4. /\ dnReq' \in [DnRequests -> [at : {"idle", "insert", "delete", "unseal"}, prov : DnProviders \cup {0}]]
      /\ \A q \in DnRequests : ~Owner(q)'
      /\ \A q \in DnRequests : dnReq'[q].at = "delete" => dnReq'[q].prov \in DnProviders
  <2>1. /\ dnReq' \in [DnRequests -> [at : {"idle", "insert", "delete", "unseal"}, prov : DnProviders \cup {0}]]
        /\ dnReq'[r].at = "idle" /\ (Owner(r)' <=> "idle" \in {"insert", "unseal"})
        /\ \A q \in DnRequests \ {r} : dnReq'[q] = dnReq[q] /\ (Owner(q)' <=> Owner(q))
    BY <1>1, Moves
  <2>2. \A q \in DnRequests : dnReq[q].at = "delete" => dnReq[q].prov \in DnProviders
    BY DEF ProviderInv, OwnersAlone
  <2> QED BY <1>3, <2>1, <2>2
<1>5. OwnersAlone'
  BY <1>4 DEF OwnersAlone
<1> HIDE DEF p
<1>6. CASE InsertProvider(r)
  <2>1. dnProv' = [dnProv EXCEPT ![p] = "live"] /\ dnToken' = dnToken
    BY <1>6 DEF InsertProvider, p
  <2>2. dnProv' \in [DnProviders -> {"absent", "live", "deleted"}] /\ dnProv'[p] = "live"
        /\ \A q \in DnProviders \ {p} : dnProv'[q] = dnProv[q]
    BY <1>2, <2>1 DEF ProviderInv, DnTypeOK
  <2>3. LiveHaveTokens'
    BY <1>2, <2>1, <2>2 DEF ProviderInv, LiveHaveTokens
  <2>4. ZonesHaveProviders'
    BY <1>1, <2>2 DEF ProviderInv, DnTypeOK, ZonesHaveProviders
  <2> QED BY <1>1, <1>4, <1>5, <2>2, <2>3, <2>4 DEF ProviderInv, DnTypeOK, RecordsHaveZones
<1>7. CASE InsertFails(r)
  <2>1. dnProv' = dnProv
    BY <1>7 DEF InsertFails
  <2>2. \A q \in DnProviders : dnProv[q] # "live"
    BY <1>2 DEF ProviderInv, LiveHaveTokens
  <2>3. LiveHaveTokens'
    BY <2>1, <2>2 DEF LiveHaveTokens
  <2>4. ZonesHaveProviders'
    BY <1>1, <2>1 DEF ProviderInv, ZonesHaveProviders
  <2> QED BY <1>1, <1>4, <1>5, <2>1, <2>3, <2>4 DEF ProviderInv, DnTypeOK, RecordsHaveZones
<1> QED BY <1>6, <1>7

\* A request that reads a provider to delete it, or finds that it cannot.
LEMMA DnsReadKeeps ==
  ASSUME ProviderInv, NEW r \in DnRequests, ~Owner(r), NEW at \in {"idle", "delete"}, NEW p \in DnProviders \cup {0},
         at = "delete" => p \in DnProviders,
         dnReq' = [dnReq EXCEPT ![r] = [at |-> at, prov |-> p]], UNCHANGED <<dnProv, dnToken, dnZone, dnRec>>
  PROVE  ProviderInv'
<1>1. /\ dnReq' \in [DnRequests -> [at : {"idle", "insert", "delete", "unseal"}, prov : DnProviders \cup {0}]]
      /\ dnReq'[r].at = at /\ dnReq'[r].prov = p /\ (Owner(r)' <=> at \in {"insert", "unseal"})
      /\ \A q \in DnRequests \ {r} : dnReq'[q] = dnReq[q] /\ (Owner(q)' <=> Owner(q))
  BY Moves
<1>2. ~Owner(r)'
  BY <1>1
<1>3. OwnersAlone'
  BY <1>1, <1>2 DEF ProviderInv, OwnersAlone
<1> QED BY <1>1, <1>3 DEF ProviderInv, DnTypeOK, LiveHaveTokens, ZonesHaveProviders, RecordsHaveZones

\* A provider that is live has the token, so that no other request is between its writes.
LEMMA DeleteKeeps ==
  ASSUME ProviderInv, NEW r \in DnRequests, DeleteProvider(r)
  PROVE  ProviderInv'
<1> DEFINE p == dnReq[r].prov
           hit == dnProv[p] = "live" /\ \A z \in DnZones : dnZone[z] # p
<1>1. dnReq[r].at = "delete" /\ ~Owner(r) /\ UNCHANGED <<dnToken, dnZone, dnRec>>
  BY DEF DeleteProvider, Owner, dnRows
<1>2. p \in DnProviders
  BY <1>1 DEF ProviderInv, OwnersAlone
<1>3. CASE ~hit
  <2>1. dnProv' = dnProv /\ dnReq' = [dnReq EXCEPT ![r] = [at |-> "idle", prov |-> 0]]
    BY <1>3 DEF DeleteProvider, DnEnds, DnIdle
  <2> QED BY <1>1, <2>1, DnsReadKeeps
<1>4. CASE hit
  <2>1. dnProv' = [dnProv EXCEPT ![p] = "deleted"] /\ dnReq' = [dnReq EXCEPT ![r] = [at |-> "unseal", prov |-> p]]
    BY <1>4 DEF DeleteProvider, DnAt
  <2>2. dnToken = p /\ \A z \in DnZones : dnZone[z] # p
    BY <1>2, <1>4 DEF ProviderInv, LiveHaveTokens
  <2>3. \A q \in DnRequests : ~Owner(q)
    <3> SUFFICES ASSUME NEW q \in DnRequests, Owner(q) PROVE FALSE
      OBVIOUS
    <3>1. dnReq[q].prov = p /\ dnProv[p] # "live"
      BY <2>2 DEF ProviderInv, OwnersAlone, Owner
    <3> QED BY <1>4, <3>1
  <2> HIDE DEF p, hit
  <2>4. /\ dnReq' \in [DnRequests -> [at : {"idle", "insert", "delete", "unseal"}, prov : DnProviders \cup {0}]]
        /\ dnReq'[r].at = "unseal" /\ dnReq'[r].prov = p
        /\ \A q \in DnRequests \ {r} : dnReq'[q] = dnReq[q] /\ (Owner(q)' <=> Owner(q))
    BY <1>2, <2>1, Moves
  <2>5. /\ dnProv' \in [DnProviders -> {"absent", "live", "deleted"}] /\ dnProv'[p] = "deleted"
        /\ \A q \in DnProviders \ {p} : dnProv'[q] = dnProv[q]
    BY <1>2, <2>1 DEF ProviderInv, DnTypeOK
  <2>6. OwnersAlone'
    <3>1. \A q \in DnRequests : Owner(q)' => q = r
      BY <2>3, <2>4
    <3> QED BY <1>1, <1>2, <2>2, <2>4, <2>5, <3>1 DEF ProviderInv, OwnersAlone
  <2>7. LiveHaveTokens'
    BY <1>1, <2>5 DEF ProviderInv, LiveHaveTokens
  <2>8. ZonesHaveProviders'
    BY <1>1, <2>2, <2>5 DEF ProviderInv, DnTypeOK, ZonesHaveProviders
  <2> QED BY <1>1, <2>4, <2>5, <2>6, <2>7, <2>8 DEF ProviderInv, DnTypeOK, RecordsHaveZones
<1> QED BY <1>3, <1>4

\* The token of a deleted provider goes, or stays behind.
LEMMA UnsealKeeps ==
  ASSUME ProviderInv, NEW r \in DnRequests, DeleteToken(r) \/ DeleteTokenFails(r)
  PROVE  ProviderInv'
<1>1. /\ Owner(r) /\ dnReq[r].at = "unseal" /\ dnReq' = [dnReq EXCEPT ![r] = [at |-> "idle", prov |-> 0]]
      /\ UNCHANGED <<dnProv, dnZone, dnRec>>
  BY DEF DeleteToken, DeleteTokenFails, DnEnds, DnIdle, Owner, dnRows
<1>2. dnToken = dnReq[r].prov /\ dnProv[dnReq[r].prov] = "deleted"
  BY <1>1 DEF ProviderInv, OwnersAlone
<1>3. \A q \in DnRequests : Owner(q) => q = r
  BY <1>1 DEF ProviderInv, OwnersAlone
<1>4. /\ dnReq' \in [DnRequests -> [at : {"idle", "insert", "delete", "unseal"}, prov : DnProviders \cup {0}]]
      /\ dnReq'[r].at = "idle" /\ (Owner(r)' <=> "idle" \in {"insert", "unseal"})
      /\ \A q \in DnRequests \ {r} : dnReq'[q] = dnReq[q] /\ (Owner(q)' <=> Owner(q))
  BY <1>1, Moves
<1>5. \A q \in DnRequests : ~Owner(q)' /\ (dnReq'[q].at = "delete" => dnReq'[q].prov \in DnProviders)
  BY <1>3, <1>4 DEF ProviderInv, OwnersAlone
<1>6. OwnersAlone'
  BY <1>5 DEF OwnersAlone
<1>7. \A q \in DnProviders : dnProv[q] # "live"
  BY <1>2 DEF ProviderInv, LiveHaveTokens
<1>8. LiveHaveTokens'
  BY <1>1, <1>7 DEF LiveHaveTokens
<1> QED BY <1>1, <1>4, <1>6, <1>8 DEF ProviderInv, DnTypeOK, ZonesHaveProviders, RecordsHaveZones

\* A zone needs its provider when it is made, and takes its records when it goes.
LEMMA ZoneKeeps ==
  ASSUME ProviderInv, NEW z \in DnZones, DeleteZone(z) \/ \E p \in DnProviders : CreateZone(z, p)
  PROVE  ProviderInv'
<1>1. UNCHANGED <<dnProv, dnToken, dnReq>>
  BY DEF DeleteZone, CreateZone
<1>2. OwnersAlone' /\ LiveHaveTokens'
  BY <1>1 DEF ProviderInv, OwnersAlone, Owner, LiveHaveTokens
<1>3. CASE DeleteZone(z)
  <2>1. /\ dnZone' = [dnZone EXCEPT ![z] = 0]
        /\ dnRec' = [k \in DnRecords |-> IF dnRec[k].zone = z THEN NoRec ELSE dnRec[k]]
    BY <1>3 DEF DeleteZone
  <2>2. DnTypeOK'
    BY <1>1, <2>1 DEF ProviderInv, DnTypeOK, NoRec
  <2>3. ZonesHaveProviders'
    BY <1>1, <2>1 DEF ProviderInv, DnTypeOK, ZonesHaveProviders
  <2>4. RecordsHaveZones'
    <3> SUFFICES ASSUME NEW k \in DnRecords, dnRec'[k].zone # 0 PROVE dnZone'[dnRec'[k].zone] # 0
      BY DEF RecordsHaveZones
    <3>1. dnRec'[k] = dnRec[k] /\ dnRec[k].zone # z
      BY <2>1 DEF NoRec
    <3>2. dnRec[k].zone \in DnZones /\ dnZone[dnRec[k].zone] # 0
      BY <3>1 DEF ProviderInv, DnTypeOK, RecordsHaveZones
    <3> QED BY <2>1, <3>1, <3>2 DEF ProviderInv, DnTypeOK
  <2> QED BY <1>2, <2>2, <2>3, <2>4 DEF ProviderInv
<1>4. ASSUME NEW p \in DnProviders, CreateZone(z, p) PROVE ProviderInv'
  <2>1. dnProv[p] = "live" /\ dnZone' = [dnZone EXCEPT ![z] = p] /\ dnRec' = dnRec
    BY <1>4 DEF CreateZone
  <2>2. DnTypeOK'
    BY <1>1, <2>1 DEF ProviderInv, DnTypeOK
  <2>3. ZonesHaveProviders'
    BY <1>1, <2>1 DEF ProviderInv, DnTypeOK, ZonesHaveProviders
  <2>4. RecordsHaveZones'
    BY <2>1, DnsAssumption DEF ProviderInv, DnTypeOK, RecordsHaveZones
  <2> QED BY <1>2, <2>2, <2>3, <2>4 DEF ProviderInv
<1> QED BY <1>3, <1>4

\* A record is made in a zone that exists, and stays in its zone.
LEMMA RecordKeeps ==
  ASSUME ProviderInv, NEW k \in DnRecords,
         UpdateRecord(k) \/ DeleteRecord(k) \/ \E z \in DnZones : CreateRecord(k, z)
  PROVE  ProviderInv'
<1>1. UNCHANGED <<dnProv, dnToken, dnReq, dnZone>>
  BY DEF UpdateRecord, DeleteRecord, CreateRecord, SetRecord
<1>2. PICK zone \in DnZones \cup {0}, sync \in {"pending", "deleting"} :
        /\ zone # 0 => dnZone[zone] # 0
        /\ dnRec' = [dnRec EXCEPT ![k] = [zone |-> zone, sync |-> sync]]
  <2>1. dnRec[k].zone \in DnZones \cup {0} /\ (dnRec[k].zone # 0 => dnZone[dnRec[k].zone] # 0)
    BY DEF ProviderInv, DnTypeOK, RecordsHaveZones
  <2>2. CASE UpdateRecord(k) \/ DeleteRecord(k)
    BY <2>1, <2>2 DEF UpdateRecord, DeleteRecord, SetRecord
  <2>3. CASE \E z \in DnZones : CreateRecord(k, z)
    BY <2>3 DEF CreateRecord, SetRecord
  <2> QED BY <2>2, <2>3
<1>3. DnTypeOK'
  BY <1>1, <1>2 DEF ProviderInv, DnTypeOK
<1>4. RecordsHaveZones'
  BY <1>1, <1>2 DEF ProviderInv, DnTypeOK, RecordsHaveZones
<1> QED BY <1>1, <1>3, <1>4 DEF ProviderInv, OwnersAlone, Owner, LiveHaveTokens, ZonesHaveProviders

-----------------------------------------------------------------------------
\* Every step keeps the invariant.
LEMMA DnsStep == DnsInv /\ [DnsNext]_dnsVars => DnsInv'
<1> SUFFICES ASSUME DnsInv, [DnsNext]_dnsVars PROVE DnsInv'
  OBVIOUS
<1>1. ProviderInv /\ CertsHaveKeys
  BY DEF DnsInv
<1>2. ASSUME UNCHANGED <<dnCert, dnKey>>, ProviderInv' PROVE DnsInv'
  BY <1>1, <1>2 DEF DnsInv, CertsHaveKeys
<1>3. ASSUME UNCHANGED <<dnProv, dnToken, dnReq, dnZone, dnRec>>, CertsHaveKeys' PROVE DnsInv'
  BY <1>1, <1>3, ProvidersUnchanged DEF DnsInv
<1>4. CASE UNCHANGED dnsVars
  <2>1. UNCHANGED <<dnProv, dnToken, dnReq, dnZone, dnRec, dnCert, dnKey>>
    BY <1>4 DEF dnsVars, dnRows, dnTls
  <2> QED BY <1>1, <1>2, <2>1, ProvidersUnchanged
<1>5. ASSUME NEW r \in DnRequests, NEW p \in DnProviders, SealToken(r, p) \/ ReadProvider(r, p) PROVE DnsInv'
  <2>1. UNCHANGED <<dnCert, dnKey>>
    BY <1>5 DEF SealToken, ReadProvider, dnTls
  <2>2. ASSUME ReadProvider(r, p) PROVE ProviderInv'
    <3>1. /\ ~Owner(r) /\ dnReq' = [dnReq EXCEPT ![r] = [at |-> "delete", prov |-> p]]
          /\ UNCHANGED <<dnProv, dnToken, dnZone, dnRec>>
      BY <2>2 DEF ReadProvider, DnAt, DnIdle, Owner, dnRows
    <3> QED BY <1>1, <3>1, DnsReadKeeps
  <2> QED BY <1>1, <1>2, <1>5, <2>1, <2>2, SealKeeps
<1>6. ASSUME NEW r \in DnRequests,
             \/ InsertProvider(r) \/ InsertFails(r) \/ DeleteProvider(r)
             \/ DeleteToken(r) \/ DeleteTokenFails(r)
      PROVE  DnsInv'
  <2>1. UNCHANGED <<dnCert, dnKey>>
    BY <1>6 DEF InsertProvider, InsertFails, DeleteProvider, DeleteToken, DeleteTokenFails, dnTls
  <2> QED BY <1>1, <1>2, <1>6, <2>1, DnsInsertKeeps, DeleteKeeps, UnsealKeeps
<1>7. ASSUME NEW z \in DnZones, DeleteZone(z) \/ \E p \in DnProviders : CreateZone(z, p) PROVE DnsInv'
  <2>1. UNCHANGED <<dnCert, dnKey>>
    BY <1>7 DEF DeleteZone, CreateZone, dnTls
  <2> QED BY <1>1, <1>2, <1>7, <2>1, ZoneKeeps
<1>8. ASSUME NEW k \in DnRecords, UpdateRecord(k) \/ DeleteRecord(k) \/ \E z \in DnZones : CreateRecord(k, z)
      PROVE  DnsInv'
  <2>1. UNCHANGED <<dnCert, dnKey>>
    BY <1>8 DEF UpdateRecord, DeleteRecord, CreateRecord, SetRecord, dnTls
  <2> QED BY <1>1, <1>2, <1>8, <2>1, RecordKeeps
<1>9. CASE CreateOrder \/ \E i \in {1, 2} : ReadOrder(i) \/ CancelOrder(i)
  <2>1. UNCHANGED <<dnProv, dnToken, dnReq, dnZone, dnRec, dnCert, dnKey>>
    BY <1>9 DEF CreateOrder, ReadOrder, CancelOrder, dnRows
  <2> QED BY <1>1, <1>2, <2>1, ProvidersUnchanged
<1>10. CASE SealKey \/ ImportCert \/ ImportFails \/ RevokeCert
  <2>1. UNCHANGED <<dnProv, dnToken, dnReq, dnZone, dnRec>>
    BY <1>10 DEF SealKey, ImportCert, ImportFails, RevokeCert, dnRows
  <2>2. CertsHaveKeys'
    BY <1>1, <1>10 DEF SealKey, ImportCert, ImportFails, RevokeCert, CertsHaveKeys
  <2> QED BY <1>3, <2>1, <2>2
<1> QED BY <1>4, <1>5, <1>6, <1>7, <1>8, <1>9, <1>10 DEF DnsNext

\* No interleaving or failure of requests leaves a provider without its own
\* token, a zone or record without its parent, or a certificate without its key
\* (dns_tls.go:187-203, 241-256).
THEOREM CredentialsCorrect == DnsSpec => []CredentialsAreKept
<1>1. DnsInit => DnsInv
  BY DnsStarts
<1>2. DnsInv /\ [DnsNext]_dnsVars => DnsInv'
  BY DnsStep
<1>3. DnsInv => CredentialsAreKept
  BY DEF DnsInv, ProviderInv, LiveHaveTokens, ZonesHaveProviders, RecordsHaveZones, CertsHaveKeys, CredentialsAreKept
<1> QED BY <1>1, <1>2, <1>3, PTL DEF DnsSpec

-----------------------------------------------------------------------------
(***************************************************************************)
(* Updates: CanaryTellsTruth for any number of releases, jobs, servers and *)
(* requests. What a row of a rollout says was decided by a request some    *)
(* steps earlier; the invariant follows the request from the release that  *)
(* it read to the answer that it writes (RequestSound, OpSound), while     *)
(* others edit the release.                                                *)
(***************************************************************************)

UpReqs == [at : {"idle", "rows", "mark", "body", "sent", "settle"}, job : UpJobs \cup {"none"},
           srv : UpServers \cup {"none"}, url : UpUrls \cup {"none"}, sum : UpUrls \cup {"none"},
           left : SUBSET UpServers, out : {"none", "done", "failed"}]
UpOps == [at : {"none", "get", "write", "ok", "failed"}, srv : UpServers \cup {"none"},
          url : UpUrls \cup {"none"}, sum : UpUrls \cup {"none"}, data : UpUrls \cup {"none", "cut"}]
UpRels == [url : UpUrls \cup {"none"}, compat : {"unknown", "yes"}]
UpRowStates == {"none", "pending", "applying", "done", "failed"}

UpdateTyped ==
    /\ upRel \in [UpVersions -> UpRels] /\ upHad \in [UpVersions -> SUBSET UpUrls]
    /\ upJob \in [UpJobs -> UpVersions \cup {"none"}] /\ upRow \in [UpJobs -> [UpServers -> UpRowStates]]
    /\ upLive \subseteq UpServers /\ upReq \in [UpRequests -> UpReqs] /\ upOp \in [UpRequests -> UpOps]
    /\ upWas \in [UpServers -> SUBSET [data : UpUrls, sum : UpUrls]]

\* A release that exists has the artifact it was last given.
ReleaseSound(v) == upRel[v] = NoRelease \/ upRel[v].url \in upHad[v]

\* A job is for a release that exists.
JobSound(j) == upJob[j] \in UpVersions => upRel[upJob[j]].url \in upHad[upJob[j]]

Installed(s, url) == \E was \in upWas[s] : was.data = url

\* What a request knows: its job has a release, the artifact it read is one the
\* release has had, the operation it waits for is its own, and a success that it
\* is about to write is an installation on its server.
RequestSound(r) ==
    /\ upReq[r].at # "idle" => upReq[r].job \in UpJobs /\ upJob[upReq[r].job] \in UpVersions
    /\ upReq[r].at \in {"mark", "body", "sent", "settle"} =>
        upReq[r].srv \in UpServers /\ upReq[r].url \in upHad[upJob[upReq[r].job]]
    /\ upReq[r].at \in {"rows", "mark", "body"} => upOp[r] = NoUpdateOp
    /\ upReq[r].at = "sent" => /\ upOp[r].at # "none" /\ upOp[r].srv = upReq[r].srv
                               /\ upOp[r].url = upReq[r].url
    /\ upReq[r].at = "settle" => /\ upReq[r].out # "none"
                                 /\ upReq[r].out = "done" => Installed(upReq[r].srv, upReq[r].url)

\* What the agent does: an operation that answers ok has installed its artifact.
OpSound(r) ==
    /\ upOp[r].at = "none" => upOp[r] = NoUpdateOp
    /\ upOp[r].at # "none" => upOp[r].srv \in UpServers /\ upOp[r].sum \in UpUrls
    /\ upOp[r].at = "write" => upOp[r].data \in {upOp[r].url, "cut"}
    /\ upOp[r].at = "ok" => Installed(upOp[r].srv, upOp[r].url)

StepOf(r, j, s) == upReq[r].job = j /\ upReq[r].srv = s /\ upReq[r].at \in {"body", "sent", "settle"}

RolloutTrue(j, s) ==
    /\ upRow[j][s] # "none" => upJob[j] \in UpVersions
    /\ upRow[j][s] = "done" => \E was \in upWas[s] : was.data \in upHad[upJob[j]]
    /\ upRow[j][s] = "applying" => (\E r \in UpRequests : StepOf(r, j, s)) \/ <<j, s>> \in upLeft
    /\ \A r \in UpRequests : StepOf(r, j, s) => upRow[j][s] \notin {"none", "pending"}

InstallsComplete == \A s \in UpServers : \A was \in upWas[s] : was.data = was.sum

UpdateInv ==
    /\ UpdateTyped /\ InstallsComplete
    /\ \A v \in UpVersions : ReleaseSound(v)
    /\ \A j \in UpJobs : JobSound(j)
    /\ \A r \in UpRequests : RequestSound(r) /\ OpSound(r)
    /\ \A j \in UpJobs, s \in UpServers : RolloutTrue(j, s)

USE UpUrlsAssumption, UpNamesAssumption

LEMMA InvCanary == UpdateInv => CanaryTellsTruth
<1> SUFFICES ASSUME UpdateInv PROVE CanaryTellsTruth
  OBVIOUS
<1> USE DEF UpdateInv
<1>1. ASSUME NEW j \in UpJobs, NEW s \in UpServers
      PROVE  LET steps == {r \in UpRequests : upReq[r].job = j /\ upReq[r].srv = s
                                              /\ upReq[r].at \in {"body", "sent", "settle"}}
             IN /\ upRow[j][s] = "done" => \E was \in upWas[s] : was.data \in upHad[upJob[j]]
                /\ upRow[j][s] = "applying" => steps # {} \/ <<j, s>> \in upLeft
                /\ steps # {} => upRow[j][s] \notin {"none", "pending"}
  BY DEF RolloutTrue, StepOf
<1>2. \A s \in UpServers : \A was \in upWas[s] : was.data = was.sum /\ was.data # "cut"
  BY DEF InstallsComplete, UpdateTyped
<1> QED BY <1>1, <1>2 DEF CanaryTellsTruth

LEMMA NoneTyped == NoUpdate \in UpReqs /\ NoUpdateOp \in UpOps /\ NoRelease \in UpRels
BY DEF NoUpdate, UpReqs, NoUpdateOp, UpOps, NoRelease, UpRels

LEMMA UpdateInitInv == UpdateInit => UpdateInv
<1> SUFFICES ASSUME UpdateInit PROVE UpdateInv
  OBVIOUS
<1>1. UpdateTyped
  BY NoneTyped DEF UpdateInit, UpdateTyped, UpRowStates
<1>2. \A v \in UpVersions : ReleaseSound(v)
  BY DEF UpdateInit, ReleaseSound
<1>3. \A r \in UpRequests : RequestSound(r) /\ OpSound(r)
  BY DEF UpdateInit, RequestSound, OpSound, NoUpdate, NoUpdateOp
<1>4. \A j \in UpJobs, s \in UpServers : RolloutTrue(j, s)
  BY DEF UpdateInit, RolloutTrue, StepOf, NoUpdate
<1>5. \A j \in UpJobs : JobSound(j)
  BY DEF UpdateInit, JobSound
<1> QED BY <1>1, <1>2, <1>3, <1>4, <1>5 DEF UpdateInit, UpdateInv, InstallsComplete

\* Jobs keep their release, releases their history and servers theirs.
Grows == /\ \A j \in UpJobs : upJob[j] \in UpVersions => upJob'[j] = upJob[j]
         /\ \A v \in UpVersions : upHad[v] \subseteq upHad'[v]
         /\ \A s \in UpServers : upWas[s] \subseteq upWas'[s]

LEMMA SameGrows == UNCHANGED <<upJob, upHad, upWas>> => Grows
BY DEF Grows

\* A request and an operation that a step leaves alone stay sound.
LEMMA OthersSound ==
  ASSUME UpdateInv, Grows, NEW r \in UpRequests
  PROVE  /\ upReq'[r] = upReq[r] /\ upOp'[r] = upOp[r] => RequestSound(r)'
         /\ upOp'[r] = upOp[r] => OpSound(r)'
<1> USE DEF UpdateInv
<1>1. \A s \in UpServers, url \in UpUrls : Installed(s, url) => Installed(s, url)'
  BY DEF Grows, Installed
<1>2. upReq[r] \in UpReqs /\ upOp[r] \in UpOps /\ RequestSound(r) /\ OpSound(r)
  BY DEF UpdateTyped
<1>3. ASSUME upReq'[r] = upReq[r], upOp'[r] = upOp[r] PROVE RequestSound(r)'
  <2>1. upReq[r].at # "idle" => /\ upReq[r].job \in UpJobs /\ upJob'[upReq[r].job] = upJob[upReq[r].job]
                                /\ upHad[upJob[upReq[r].job]] \subseteq upHad'[upJob[upReq[r].job]]
                                /\ upHad[upJob[upReq[r].job]] \subseteq UpUrls
    BY <1>2 DEF RequestSound, Grows, UpdateTyped
  <2> QED BY <1>1, <1>2, <1>3, <2>1 DEF RequestSound
<1>4. ASSUME upOp'[r] = upOp[r] PROVE OpSound(r)'
  <2>1. \A s \in UpServers : \A url : Installed(s, url) => Installed(s, url)'
    BY DEF Grows, Installed
  <2> QED BY <1>2, <1>4, <2>1 DEF OpSound
<1> QED BY <1>3, <1>4

\* Rows that a step does not write stay true while the steps of their server stay.
LEMMA RowsKept ==
  ASSUME UpdateInv, Grows, NEW j \in UpJobs, NEW s \in UpServers, upRow'[j][s] = upRow[j][s], upLeft \subseteq upLeft',
         \A r \in UpRequests : StepOf(r, j, s) => StepOf(r, j, s)' \/ <<j, s>> \in upLeft',
         \A r \in UpRequests : StepOf(r, j, s)' => StepOf(r, j, s)
  PROVE  RolloutTrue(j, s)'
<1>1. RolloutTrue(j, s) /\ upJob[j] \in UpVersions \cup {"none"}
  BY DEF UpdateInv, UpdateTyped
<1>2. upRow'[j][s] # "none" => upJob'[j] \in UpVersions
  BY <1>1 DEF RolloutTrue, Grows
<1>3. upRow'[j][s] = "done" => \E was \in upWas'[s] : was.data \in upHad'[upJob'[j]]
  BY <1>1 DEF RolloutTrue, Grows
<1>4. upRow'[j][s] = "applying" => (\E r \in UpRequests : StepOf(r, j, s)') \/ <<j, s>> \in upLeft'
  BY <1>1 DEF RolloutTrue
<1>5. \A r \in UpRequests : StepOf(r, j, s)' => upRow'[j][s] \notin {"none", "pending"}
  BY <1>1 DEF RolloutTrue
<1> QED BY <1>2, <1>3, <1>4, <1>5 DEF RolloutTrue

\* A step that writes no row and begins or ends no step of a server.
NoRowStep == /\ upRow' = upRow /\ upLeft' = upLeft
             /\ \A r \in UpRequests : \A j \in UpJobs, s \in UpServers : StepOf(r, j, s)' <=> StepOf(r, j, s)

LEMMA RowsStay ==
  ASSUME UpdateInv, Grows, NoRowStep
  PROVE  \A j \in UpJobs, s \in UpServers : RolloutTrue(j, s)'
<1> SUFFICES ASSUME NEW j \in UpJobs, NEW s \in UpServers PROVE RolloutTrue(j, s)'
  OBVIOUS
<1> QED BY RowsKept DEF NoRowStep

\* A step of one request or its operation, which changes nothing else.
OnlyRequest(r, req, op) ==
    /\ upReq' = [upReq EXCEPT ![r] = req] /\ upOp' = [upOp EXCEPT ![r] = op]
    /\ UNCHANGED <<upRel, upHad, upJob, upRow, upLive, upWas, upLeft>>

SameStep(old, new) == /\ new.at \in {"body", "sent", "settle"} <=> old.at \in {"body", "sent", "settle"}
                      /\ old.at \in {"body", "sent", "settle"} => new.job = old.job /\ new.srv = old.srv

LEMMA OneRequest ==
  ASSUME UpdateInv, NEW r \in UpRequests, NEW req \in UpReqs, NEW op \in UpOps, OnlyRequest(r, req, op),
         RequestSound(r)', OpSound(r)', SameStep(upReq[r], req)
  PROVE  UpdateInv'
<1> USE DEF UpdateInv, OnlyRequest
<1>1. UpdateTyped'
  BY DEF UpdateTyped
<1>2. Grows
  BY SameGrows
<1>3. /\ \A q \in UpRequests : upReq'[q] = IF q = r THEN req ELSE upReq[q]
      /\ \A q \in UpRequests : upOp'[q] = IF q = r THEN op ELSE upOp[q]
  BY DEF UpdateTyped
<1>4. \A q \in UpRequests : RequestSound(q)' /\ OpSound(q)'
  BY <1>2, <1>3, OthersSound
<1>5. NoRowStep
  BY <1>3 DEF NoRowStep, StepOf, SameStep
<1>6. \A v \in UpVersions : ReleaseSound(v)'
  BY DEF ReleaseSound
<1>7. InstallsComplete' /\ \A j \in UpJobs : JobSound(j)'
  BY DEF InstallsComplete, JobSound
<1> HIDE DEF OnlyRequest
<1> QED BY <1>1, <1>2, <1>4, <1>5, <1>6, <1>7, RowsStay

\* What holds of a request and its operation before a step.
LEMMA RequestFacts ==
  ASSUME UpdateInv, NEW r \in UpRequests
  PROVE  /\ upReq[r] \in UpReqs /\ upOp[r] \in UpOps /\ RequestSound(r) /\ OpSound(r)
         /\ UpdateTyped
BY DEF UpdateInv, UpdateTyped

LEMMA CanaryStartsInv ==
  ASSUME UpdateInv, NEW r \in UpRequests, NEW j \in UpJobs, NEW s \in UpServers, NEW sum \in UpUrls \cup {"none"},
         CanaryStarts(r, j, s, sum)
  PROVE  UpdateInv'
<1> USE DEF CanaryStarts
<1> DEFINE req == [NoUpdate EXCEPT !.at = "mark", !.job = j, !.srv = s, !.url = upRel[upJob[j]].url, !.sum = sum]
<1>1. upJob[j] \in UpVersions /\ upHad[upJob[j]] \subseteq UpUrls
  BY DEF UpdateInv, UpdateTyped
<1>2. req.url \in upHad[upJob[j]]
  BY <1>1 DEF UpdateInv, JobSound, NoUpdate
<1>3. req \in UpReqs /\ req.at = "mark" /\ req.job = j /\ req.srv = s
  BY <1>1, <1>2 DEF UpReqs, NoUpdate
<1> HIDE DEF req
<1>4. OnlyRequest(r, req, NoUpdateOp) /\ upReq[r].at = "idle" /\ upReq'[r] = req /\ upOp'[r] = NoUpdateOp
  BY DEF req, OnlyRequest, UpSlot, upRows, upNodes, UpdateInv, UpdateTyped, NoUpdate
<1>5. RequestSound(r)'
  BY <1>1, <1>2, <1>3, <1>4 DEF RequestSound, OnlyRequest
<1>6. OpSound(r)'
  BY <1>4 DEF OpSound, NoUpdateOp
<1>7. SameStep(upReq[r], req)
  BY <1>3, <1>4 DEF SameStep
<1> HIDE DEF CanaryStarts
<1> QED BY <1>3, <1>4, <1>5, <1>6, <1>7, OneRequest, NoneTyped

LEMMA RefuseInv ==
  ASSUME UpdateInv, NEW r \in UpRequests, NEW out \in {"done", "failed"}, Settles(r, out),
         UNCHANGED <<upRel, upHad, upJob, upRow, upLive, upOp, upWas, upLeft>>,
         upReq[r].at \in {"body", "sent"}, out = "done" => upOp[r].at = "ok" /\ upReq[r].at = "sent"
  PROVE  UpdateInv'
<1> DEFINE req == [upReq[r] EXCEPT !.at = "settle", !.out = out]
<1>1. upReq[r] \in UpReqs /\ upOp[r] \in UpOps /\ RequestSound(r) /\ OpSound(r) /\ UpdateTyped
  BY RequestFacts
<1>2. req \in UpReqs /\ req.at = "settle" /\ req.job = upReq[r].job /\ req.srv = upReq[r].srv
      /\ req.url = upReq[r].url /\ req.out = out
  BY <1>1 DEF UpReqs
<1>3. upReq' = [upReq EXCEPT ![r] = req]
  BY <1>1 DEF Settles, UpdateTyped, UpReqs
<1> HIDE DEF req
<1>4. OnlyRequest(r, req, upOp[r]) /\ upReq'[r] = req /\ upOp'[r] = upOp[r]
  BY <1>1, <1>3 DEF OnlyRequest, UpdateTyped
<1>5. RequestSound(r)'
  BY <1>1, <1>2, <1>4 DEF RequestSound, OpSound, Installed
<1>6. OpSound(r)'
  BY <1>1, <1>4 DEF OpSound, Installed
<1>7. SameStep(upReq[r], req)
  BY <1>2 DEF SameStep
<1> QED BY <1>1, <1>2, <1>4, <1>5, <1>6, <1>7, OneRequest

LEMMA SettlesInv ==
  ASSUME UpdateInv, NEW r \in UpRequests, Refuse(r) \/ UpdateAnswered(r) \/ UpdateLost(r)
  PROVE  UpdateInv'
<1> USE DEF upRows, upNodes
<1>1. CASE Refuse(r)
  BY <1>1, RefuseInv DEF Refuse
<1>2. CASE UpdateAnswered(r)
  BY <1>2, RefuseInv DEF UpdateAnswered
<1>3. CASE UpdateLost(r)
  BY <1>3, RefuseInv DEF UpdateLost
<1> QED BY <1>1, <1>2, <1>3

LEMMA DispatchUpdateInv ==
  ASSUME UpdateInv, NEW r \in UpRequests, DispatchUpdate(r)
  PROVE  UpdateInv'
<1> USE DEF DispatchUpdate
<1> DEFINE req == [upReq[r] EXCEPT !.at = "sent"]
           op == [NoUpdateOp EXCEPT !.at = "get", !.srv = upReq[r].srv, !.url = upReq[r].url, !.sum = upReq[r].sum]
<1>1. upReq[r] \in UpReqs /\ upOp[r] \in UpOps /\ RequestSound(r) /\ OpSound(r) /\ UpdateTyped
  BY RequestFacts
<1>2. req \in UpReqs /\ req.at = "sent" /\ req.job = upReq[r].job /\ req.srv = upReq[r].srv /\ req.url = upReq[r].url
  BY <1>1 DEF UpReqs
<1>3. op \in UpOps /\ op.at = "get" /\ op.srv = upReq[r].srv /\ op.url = upReq[r].url /\ op.sum = upReq[r].sum
  BY <1>1 DEF UpReqs, UpOps, NoUpdateOp
<1>4. upReq' = [upReq EXCEPT ![r] = req] /\ upOp' = [upOp EXCEPT ![r] = op]
  BY <1>1 DEF UpdateTyped, UpReqs
<1> HIDE DEF req, op
<1>5. OnlyRequest(r, req, op) /\ upReq'[r] = req /\ upOp'[r] = op
  BY <1>1, <1>4 DEF OnlyRequest, UpdateTyped, upRows
<1>6. RequestSound(r)'
  BY <1>1, <1>2, <1>3, <1>5 DEF RequestSound, upRows
<1>7. OpSound(r)'
  BY <1>1, <1>3, <1>5 DEF OpSound, RequestSound, UpReqs
<1>8. SameStep(upReq[r], req)
  BY <1>2 DEF SameStep
<1> HIDE DEF DispatchUpdate
<1> QED BY <1>2, <1>3, <1>5, <1>6, <1>7, <1>8, OneRequest

\* The agent's steps: only the operation changes, to one that is sound.
LEMMA OpStep ==
  ASSUME UpdateInv, NEW r \in UpRequests, NEW op \in UpOps, upOp' = [upOp EXCEPT ![r] = op],
         UNCHANGED <<upRel, upHad, upJob, upRow, upLive, upReq, upWas, upLeft>>, OpSound(r)',
         upReq[r].at \in {"rows", "mark", "body"} => op = NoUpdateOp,
         upReq[r].at = "sent" => op.at # "none" /\ op.srv = upOp[r].srv /\ op.url = upOp[r].url
  PROVE  UpdateInv'
<1>1. upReq[r] \in UpReqs /\ upOp[r] \in UpOps /\ RequestSound(r) /\ OpSound(r) /\ UpdateTyped
  BY RequestFacts
<1>2. upReq' = [upReq EXCEPT ![r] = upReq[r]] /\ upReq'[r] = upReq[r] /\ upOp'[r] = op
  BY <1>1 DEF UpdateTyped
<1>3. RequestSound(r)'
  BY <1>1, <1>2 DEF RequestSound, Installed
<1>4. OnlyRequest(r, upReq[r], op) /\ SameStep(upReq[r], upReq[r])
  BY <1>2 DEF OnlyRequest, SameStep
<1> QED BY <1>1, <1>3, <1>4, OneRequest

LEMMA DownloadInv ==
  ASSUME UpdateInv, NEW r \in UpRequests, Download(r)
  PROVE  UpdateInv'
<1> USE DEF Download, upRows
<1>1. upReq[r] \in UpReqs /\ upOp[r] \in UpOps /\ RequestSound(r) /\ OpSound(r) /\ UpdateTyped
  BY RequestFacts
<1>2. PICK data \in {upOp[r].url, "cut"} : upOp' = [upOp EXCEPT ![r].at = "write", ![r].data = data]
  OBVIOUS
<1> DEFINE op == [upOp[r] EXCEPT !.at = "write", !.data = data]
<1>3. op \in UpOps /\ op.at = "write" /\ op.srv = upOp[r].srv /\ op.url = upOp[r].url /\ op.sum = upOp[r].sum
      /\ op.data = data
  BY <1>1 DEF UpOps
<1>4. upOp' = [upOp EXCEPT ![r] = op]
  BY <1>1, <1>2 DEF UpdateTyped, UpOps
<1> HIDE DEF op
<1>5. OpSound(r)'
  BY <1>1, <1>2, <1>3, <1>4 DEF OpSound, UpdateTyped
<1>6. upReq[r].at \notin {"rows", "mark", "body"}
  BY <1>1 DEF RequestSound, NoUpdateOp
<1>7. UNCHANGED <<upRel, upHad, upJob, upRow, upLive, upReq, upWas, upLeft>>
  OBVIOUS
<1> HIDE DEF Download
<1> QED BY <1>3, <1>4, <1>5, <1>6, <1>7, OpStep

LEMMA UpdateFailsInv ==
  ASSUME UpdateInv, NEW r \in UpRequests, UpdateFails(r)
  PROVE  UpdateInv'
<1> USE DEF UpdateFails, upRows
<1>1. upReq[r] \in UpReqs /\ upOp[r] \in UpOps /\ RequestSound(r) /\ OpSound(r) /\ UpdateTyped
  BY RequestFacts
<1> DEFINE op == [upOp[r] EXCEPT !.at = "failed"]
<1>3. op \in UpOps /\ op.at = "failed" /\ op.srv = upOp[r].srv /\ op.url = upOp[r].url /\ op.sum = upOp[r].sum
  BY <1>1 DEF UpOps
<1>4. upOp' = [upOp EXCEPT ![r] = op]
  BY <1>1 DEF UpdateTyped, UpOps
<1> HIDE DEF op
<1>5. OpSound(r)'
  BY <1>1, <1>3, <1>4 DEF OpSound, UpdateTyped
<1>6. upReq[r].at \notin {"rows", "mark", "body"}
  BY <1>1 DEF RequestSound, NoUpdateOp
<1>7. UNCHANGED <<upRel, upHad, upJob, upRow, upLive, upReq, upWas, upLeft>>
  OBVIOUS
<1> HIDE DEF UpdateFails
<1> QED BY <1>3, <1>4, <1>5, <1>6, <1>7, OpStep

LEMMA OpOverInv ==
  ASSUME UpdateInv, NEW r \in UpRequests, OpOver(r)
  PROVE  UpdateInv'
<1> USE DEF OpOver, upRows
<1>1. upReq[r] \in UpReqs /\ UpdateTyped
  BY RequestFacts
<1>2. OpSound(r)'
  BY <1>1 DEF OpSound, UpdateTyped, NoUpdateOp
<1>3. UNCHANGED <<upRel, upHad, upJob, upRow, upLive, upReq, upWas, upLeft>>
      /\ upReq[r].at # "sent" /\ upOp' = [upOp EXCEPT ![r] = NoUpdateOp]
  OBVIOUS
<1> HIDE DEF OpOver
<1> QED BY <1>2, <1>3, OpStep, NoneTyped

LEMMA InstallBinaryInv ==
  ASSUME UpdateInv, NEW r \in UpRequests, InstallBinary(r)
  PROVE  UpdateInv'
<1> USE DEF InstallBinary, upRows
<1>1. upReq[r] \in UpReqs /\ upOp[r] \in UpOps /\ RequestSound(r) /\ OpSound(r) /\ UpdateTyped
  BY RequestFacts
<1> DEFINE op == [upOp[r] EXCEPT !.at = "ok"]
           was == [data |-> upOp[r].data, sum |-> upOp[r].sum]
<1>2. /\ op \in UpOps /\ op.at = "ok" /\ op.srv = upOp[r].srv /\ op.url = upOp[r].url /\ op.sum = upOp[r].sum
      /\ upOp[r].srv \in UpServers /\ upOp[r].sum \in UpUrls /\ upOp[r].data = upOp[r].url /\ upOp[r].url \in UpUrls
      /\ was \in [data : UpUrls, sum : UpUrls] /\ was.data = was.sum /\ was.data = upOp[r].url
  BY <1>1 DEF UpOps, OpSound
<1>3. upOp' = [upOp EXCEPT ![r] = op] /\ upWas' = [upWas EXCEPT ![upOp[r].srv] = @ \cup {was}]
  BY <1>1 DEF UpdateTyped, UpOps
<1> HIDE DEF op, was
<1>4. /\ \A q \in UpRequests : upOp'[q] = IF q = r THEN op ELSE upOp[q]
      /\ \A s \in UpServers : upWas'[s] = IF s = upOp[r].srv THEN upWas[s] \cup {was} ELSE upWas[s]
  BY <1>1, <1>3 DEF UpdateTyped
<1>5. UpdateTyped'
  <2>1. upWas' \in [UpServers -> SUBSET [data : UpUrls, sum : UpUrls]]
    <3>1. \A s \in UpServers : upWas[s] \subseteq [data : UpUrls, sum : UpUrls]
      BY <1>1 DEF UpdateTyped
    <3>2. upWas[upOp[r].srv] \cup {was} \in SUBSET [data : UpUrls, sum : UpUrls]
      BY <1>2, <3>1
    <3> QED BY <1>1, <1>3, <3>2 DEF UpdateTyped
  <2>2. upOp' \in [UpRequests -> UpOps]
    BY <1>1, <1>2, <1>3 DEF UpdateTyped
  <2> QED BY <1>1, <2>1, <2>2 DEF UpdateTyped
<1>6. Grows
  BY <1>4 DEF Grows
<1>7. OpSound(r)'
  <2>1. upWas'[upOp[r].srv] = upWas[upOp[r].srv] \cup {was}
    BY <1>2, <1>4
  <2>2. upOp'[r] = op /\ was \in upWas'[upOp[r].srv] /\ was.data = upOp[r].url
    BY <1>2, <1>4, <2>1
  <2> QED BY <1>2, <2>2 DEF OpSound, Installed
<1>8. RequestSound(r)'
  <2>1. upReq[r].at \notin {"rows", "mark", "body"}
    BY <1>1 DEF RequestSound, NoUpdateOp
  <2>2. \A url : upReq[r].srv \in UpServers /\ Installed(upReq[r].srv, url) => Installed(upReq[r].srv, url)'
    BY <1>6 DEF Grows, Installed
  <2> QED BY <1>1, <1>2, <1>4, <2>1, <2>2 DEF RequestSound
<1>9. \A q \in UpRequests : RequestSound(q)' /\ OpSound(q)'
  BY <1>4, <1>6, <1>7, <1>8, OthersSound
<1>10. NoRowStep
  BY DEF NoRowStep, StepOf
<1>11. InstallsComplete'
  BY <1>2, <1>4 DEF InstallsComplete, UpdateInv
<1>12. /\ \A v \in UpVersions : ReleaseSound(v)'
       /\ \A j \in UpJobs : JobSound(j)'
  BY DEF ReleaseSound, JobSound, UpdateInv
<1> HIDE DEF InstallBinary
<1> QED BY <1>5, <1>6, <1>9, <1>10, <1>11, <1>12, RowsStay DEF UpdateInv

LEMMA AgentDiesInv ==
  ASSUME UpdateInv, NEW s \in UpServers, AgentDies(s)
  PROVE  UpdateInv'
<1> USE DEF AgentDies, upRows
<1>1. UpdateTyped' /\ Grows
  <2>1. ASSUME NEW r \in UpRequests PROVE upOp[r] \in UpOps /\ [upOp[r] EXCEPT !.at = "failed"] \in UpOps
    <3>1. upOp[r] \in UpOps
      BY DEF UpdateInv, UpdateTyped
    <3>2. [upOp[r] EXCEPT !.at = "failed"] \in UpOps
      BY <3>1 DEF UpOps
    <3> QED BY <3>1, <3>2
  <2>2. upOp' \in [UpRequests -> UpOps]
    BY <2>1
  <2> QED BY <2>2, SameGrows DEF UpdateInv, UpdateTyped
<1>2. ASSUME NEW r \in UpRequests PROVE RequestSound(r)' /\ OpSound(r)'
  <2>1. upReq[r] \in UpReqs /\ upOp[r] \in UpOps /\ RequestSound(r) /\ OpSound(r) /\ UpdateTyped
    BY RequestFacts
  <2>2. CASE upOp[r].srv = s
    <3> DEFINE op == [upOp[r] EXCEPT !.at = "failed"]
    <3>1. op.at = "failed" /\ op.srv = s /\ op.url = upOp[r].url /\ op.sum = upOp[r].sum
      BY <2>1, <2>2 DEF UpOps
    <3>2. upOp'[r] = op
      BY <2>2
    <3>3. upOp[r].at # "none" /\ upReq[r].at \notin {"rows", "mark", "body"}
      BY <2>1, <2>2 DEF OpSound, RequestSound, NoUpdateOp
    <3> HIDE DEF op
    <3>4. OpSound(r)'
      BY <2>1, <3>1, <3>2, <3>3 DEF OpSound
    <3>5. RequestSound(r)'
      BY <2>1, <2>2, <3>1, <3>2, <3>3 DEF RequestSound, Installed
    <3> QED BY <3>4, <3>5
  <2>3. CASE upOp[r].srv # s
    BY <1>1, <2>3, OthersSound
  <2> QED BY <2>2, <2>3
<1>3. NoRowStep
  BY DEF NoRowStep, StepOf
<1>4. /\ \A v \in UpVersions : ReleaseSound(v)'
      /\ \A j \in UpJobs : JobSound(j)'
      /\ InstallsComplete'
  BY DEF ReleaseSound, JobSound, InstallsComplete, UpdateInv
<1> HIDE DEF AgentDies
<1> QED BY <1>1, <1>2, <1>3, <1>4, RowsStay DEF UpdateInv


\* A step of one request that ends or begins no step of a server but on its own
\* row, which it writes.
WritesRow(r, j, s, row, req) ==
    /\ upRow' = [upRow EXCEPT ![j][s] = row] /\ upReq' = [upReq EXCEPT ![r] = req]
    /\ UNCHANGED <<upRel, upHad, upJob, upLive, upOp, upWas, upLeft>>

LEMMA RowWritten ==
  ASSUME UpdateInv, NEW r \in UpRequests, NEW req \in UpReqs, NEW j \in UpJobs, NEW s \in UpServers,
         NEW row \in UpRowStates, WritesRow(r, j, s, row, req), RequestSound(r)', RolloutTrue(j, s)',
         upReq[r].at \in {"body", "sent", "settle"} => upReq[r].job = j /\ upReq[r].srv = s,
         req.at \in {"body", "sent", "settle"} => req.job = j /\ req.srv = s
  PROVE  UpdateInv'
<1> USE DEF UpdateInv
<1>1. UpdateTyped' /\ Grows
  <2>1. upRow' \in [UpJobs -> [UpServers -> UpRowStates]]
    BY DEF WritesRow, UpdateTyped
  <2>2. upReq' \in [UpRequests -> UpReqs]
    BY DEF WritesRow, UpdateTyped
  <2>3. UNCHANGED <<upRel, upHad, upJob, upLive, upOp, upWas>>
    BY DEF WritesRow
  <2> QED BY <2>1, <2>2, <2>3, SameGrows DEF UpdateTyped
<1>2. /\ \A q \in UpRequests : upReq'[q] = IF q = r THEN req ELSE upReq[q]
      /\ \A k \in UpJobs, t \in UpServers : upRow'[k][t] = IF k = j /\ t = s THEN row ELSE upRow[k][t]
  BY DEF WritesRow, UpdateTyped
<1>3. \A q \in UpRequests : RequestSound(q)' /\ OpSound(q)'
  BY <1>1, <1>2, OthersSound DEF WritesRow
<1>4. ASSUME NEW k \in UpJobs, NEW t \in UpServers PROVE RolloutTrue(k, t)'
  <2>1. CASE k = j /\ t = s
    BY <2>1
  <2>2. CASE ~(k = j /\ t = s)
    <3>1. \A q \in UpRequests : StepOf(q, k, t)' <=> StepOf(q, k, t)
      BY <1>2, <2>2 DEF StepOf
    <3>2. upRow'[k][t] = upRow[k][t] /\ upLeft' = upLeft
      BY <1>2, <2>2 DEF WritesRow
    <3> QED BY <1>1, <3>1, <3>2, RowsKept
  <2> QED BY <2>1, <2>2
<1>5. /\ \A v \in UpVersions : ReleaseSound(v)'
      /\ \A k \in UpJobs : JobSound(k)'
      /\ InstallsComplete'
  BY DEF ReleaseSound, JobSound, InstallsComplete, WritesRow
<1> QED BY <1>1, <1>3, <1>4, <1>5

LEMMA MarkApplyingInv ==
  ASSUME UpdateInv, NEW r \in UpRequests, MarkApplying(r)
  PROVE  UpdateInv'
<1> USE DEF MarkApplying, SetRow, upRows, upNodes
<1> DEFINE req == [upReq[r] EXCEPT !.at = "body"]
<1>1. upReq[r] \in UpReqs /\ upOp[r] \in UpOps /\ RequestSound(r) /\ OpSound(r) /\ UpdateTyped
  BY RequestFacts
<1>2. PICK j \in UpJobs, s \in UpServers : j = upReq[r].job /\ s = upReq[r].srv /\ upJob[j] \in UpVersions
  BY <1>1 DEF RequestSound
<1>3. req \in UpReqs /\ req.at = "body" /\ req.job = j /\ req.srv = s /\ req.url = upReq[r].url
  BY <1>1, <1>2 DEF UpReqs
<1>4. WritesRow(r, j, s, "applying", req)
  BY <1>1, <1>2 DEF WritesRow, UpdateTyped, UpReqs
<1> HIDE DEF req
<1>5. upReq'[r] = req /\ upRow'[j][s] = "applying" /\ upJob' = upJob /\ upHad' = upHad /\ upOp' = upOp
  BY <1>1, <1>2, <1>4 DEF WritesRow, UpdateTyped
<1>6. RequestSound(r)'
  BY <1>1, <1>2, <1>3, <1>5 DEF RequestSound
<1>7. RolloutTrue(j, s)'
  <2>1. StepOf(r, j, s)'
    BY <1>3, <1>5 DEF StepOf
  <2> QED BY <1>2, <1>5, <2>1 DEF RolloutTrue
<1>8. upReq[r].at = "mark" /\ "applying" \in UpRowStates
  BY DEF UpRowStates
<1> HIDE DEF MarkApplying, SetRow
<1> QED BY <1>2, <1>3, <1>4, <1>6, <1>7, <1>8, RowWritten

LEMMA WriteOutcomeInv ==
  ASSUME UpdateInv, NEW r \in UpRequests, WriteOutcome(r)
  PROVE  UpdateInv'
<1> USE DEF WriteOutcome, SetRow, upRows, upNodes
<1>1. upReq[r] \in UpReqs /\ upOp[r] \in UpOps /\ RequestSound(r) /\ OpSound(r) /\ UpdateTyped
  BY RequestFacts
<1>2. PICK j \in UpJobs, s \in UpServers, out \in {"done", "failed"} :
      /\ j = upReq[r].job /\ s = upReq[r].srv /\ out = upReq[r].out /\ upJob[j] \in UpVersions
      /\ upReq[r].url \in upHad[upJob[j]]
      /\ out = "done" => Installed(s, upReq[r].url)
  BY <1>1 DEF RequestSound, UpReqs
<1>3. WritesRow(r, j, s, out, NoUpdate)
  BY <1>1, <1>2 DEF WritesRow, UpdateTyped
<1>4. upReq'[r] = NoUpdate /\ upRow'[j][s] = out /\ upJob' = upJob /\ upHad' = upHad /\ upWas' = upWas
  BY <1>1, <1>2, <1>3 DEF WritesRow, UpdateTyped
<1>5. RequestSound(r)'
  BY <1>4 DEF RequestSound, NoUpdate
<1>6. RolloutTrue(j, s)'
  <2>1. upRow'[j][s] \in {"done", "failed"} /\ upJob'[j] \in UpVersions
    BY <1>2, <1>4
  <2>2. upRow'[j][s] = "done" => \E was \in upWas'[s] : was.data \in upHad'[upJob'[j]]
    <3> SUFFICES ASSUME out = "done" PROVE \E was \in upWas'[s] : was.data \in upHad'[upJob'[j]]
      BY <1>4
    <3>1. PICK was \in upWas[s] : was.data = upReq[r].url
      BY <1>2 DEF Installed
    <3>2. was \in upWas'[s] /\ was.data \in upHad'[upJob'[j]]
      BY <1>2, <1>4, <3>1
    <3> QED BY <3>2
  <2> HIDE DEF WriteOutcome, SetRow
  <2> QED BY <2>1, <2>2 DEF RolloutTrue
<1>7. NoUpdate.at = "idle" /\ out \in UpRowStates /\ upReq[r].job = j /\ upReq[r].srv = s
  BY <1>2 DEF NoUpdate, UpRowStates
<1> HIDE DEF WriteOutcome, SetRow
<1> QED BY <1>2, <1>3, <1>5, <1>6, <1>7, RowWritten, NoneTyped

LEMMA InsertRowInv ==
  ASSUME UpdateInv, NEW r \in UpRequests, NEW s \in UpServers, InsertRow(r, s)
  PROVE  UpdateInv'
<1> USE DEF InsertRow, SetRow, upRows, upNodes
<1> DEFINE req == IF upReq[r].left = {s} THEN NoUpdate ELSE [upReq[r] EXCEPT !.left = upReq[r].left \ {s}]
<1>1. upReq[r] \in UpReqs /\ upOp[r] \in UpOps /\ RequestSound(r) /\ OpSound(r) /\ UpdateTyped
  BY RequestFacts
<1>2. PICK j \in UpJobs : j = upReq[r].job /\ upJob[j] \in UpVersions /\ upOp[r] = NoUpdateOp
  BY <1>1 DEF RequestSound
<1>3. req \in UpReqs /\ req.at \in {"idle", "rows"} /\ (req.at = "rows" => req.job = j)
  BY <1>1, <1>2, NoneTyped DEF UpReqs, NoUpdate
<1>4. PICK row \in UpRowStates : row = Inserted(upRow[j][s])
  BY <1>1, <1>2 DEF Inserted, UpdateTyped, UpRowStates
<1>5. WritesRow(r, j, s, row, req)
  <2>1. upReq' = [upReq EXCEPT ![r] = req]
    <3>1. CASE upReq[r].left = {s}
      BY <3>1
    <3>2. CASE upReq[r].left # {s}
      BY <3>2
    <3> QED BY <3>1, <3>2
  <2>2. upRow' = [upRow EXCEPT ![j][s] = row]
    BY <1>2, <1>4
  <2> QED BY <2>1, <2>2 DEF WritesRow
<1>6. upReq'[r] = req /\ upRow'[j][s] = row /\ upJob' = upJob /\ upOp' = upOp
  <2> HIDE DEF InsertRow, SetRow, req
  <2> QED BY <1>1, <1>2, <1>5 DEF WritesRow, UpdateTyped
<1>9. upReq[r].at = "rows"
  OBVIOUS
<1>10. /\ UNCHANGED <<upJob, upHad, upWas, upOp, upLeft>>
       /\ \A q \in UpRequests : upReq'[q] = IF q = r THEN req ELSE upReq[q]
  BY <1>1, <1>5 DEF UpdateTyped, WritesRow
<1>11. Grows
  BY <1>10, SameGrows
<1> HIDE DEF req, InsertRow, SetRow
<1>12. \A q \in UpRequests, k \in UpJobs, t \in UpServers : StepOf(q, k, t)' <=> StepOf(q, k, t)
  BY <1>3, <1>9, <1>10 DEF StepOf
<1>7. RequestSound(r)'
  BY <1>2, <1>3, <1>6 DEF RequestSound
<1>8. RolloutTrue(j, s)'
  <2>1. RolloutTrue(j, s) /\ upRow[j][s] \in UpRowStates
    BY <1>1, <1>2 DEF UpdateInv, UpdateTyped
  <2>2. CASE upRow[j][s] = "none"
    <3>1. upRow'[j][s] = "pending" /\ upJob'[j] \in UpVersions
      BY <1>2, <1>4, <1>6, <2>2 DEF Inserted
    <3>2. \A q \in UpRequests : ~StepOf(q, j, s)'
      BY <1>2, <1>12, <2>1, <2>2 DEF RolloutTrue
    <3> QED BY <3>1, <3>2 DEF RolloutTrue
  <2>3. CASE upRow[j][s] # "none"
    <3>1. upRow'[j][s] = upRow[j][s]
      BY <1>4, <1>6, <2>3 DEF Inserted
    <3> QED BY <1>2, <1>10, <1>11, <1>12, <3>1, RowsKept
  <2> QED BY <2>2, <2>3
<1> QED BY <1>2, <1>3, <1>4, <1>5, <1>7, <1>8, <1>9, RowWritten

LEMMA RequestsEndInv ==
  ASSUME UpdateInv, NEW gone \in SUBSET UpRequests, RequestsEnd(gone)
  PROVE  UpdateInv'
<1> USE DEF RequestsEnd, upRows, upNodes
<1>1. UpdateTyped' /\ Grows
  BY SameGrows, NoneTyped DEF UpdateInv, UpdateTyped
<1>2. ASSUME NEW r \in UpRequests PROVE RequestSound(r)' /\ OpSound(r)'
  <2>1. CASE r \in gone
    <3>1. upReq'[r] = NoUpdate /\ upOp'[r] = upOp[r]
      BY <2>1
    <3>2. RequestSound(r)'
      BY <3>1 DEF RequestSound, NoUpdate
    <3> QED BY <1>1, <3>1, <3>2, OthersSound
  <2>2. CASE r \notin gone
    BY <1>1, <2>2, OthersSound
  <2> QED BY <2>1, <2>2
<1>3. ASSUME NEW j \in UpJobs, NEW s \in UpServers PROVE RolloutTrue(j, s)'
  <2>1. \A r \in UpRequests : StepOf(r, j, s) => StepOf(r, j, s)' \/ <<j, s>> \in upLeft'
    BY DEF StepOf
  <2>2. \A r \in UpRequests : StepOf(r, j, s)' => StepOf(r, j, s)
    BY DEF StepOf, NoUpdate
  <2>3. upRow'[j][s] = upRow[j][s] /\ upLeft \subseteq upLeft'
    OBVIOUS
  <2> HIDE DEF RequestsEnd
  <2> QED BY <1>1, <2>1, <2>2, <2>3, RowsKept
<1>4. /\ \A v \in UpVersions : ReleaseSound(v)'
      /\ \A j \in UpJobs : JobSound(j)'
      /\ InstallsComplete'
  BY DEF ReleaseSound, JobSound, InstallsComplete, UpdateInv
<1> HIDE DEF RequestsEnd
<1> QED BY <1>1, <1>2, <1>3, <1>4 DEF UpdateInv

\* Releases and jobs.
LEMMA ReleaseStepInv ==
  ASSUME UpdateInv, UpdateTyped', Grows, \A v \in UpVersions : ReleaseSound(v)', \A j \in UpJobs : JobSound(j)',
         UNCHANGED <<upRow, upReq, upOp, upWas, upLeft>>
  PROVE  UpdateInv'
<1>1. \A r \in UpRequests : RequestSound(r)' /\ OpSound(r)'
  BY OthersSound
<1>2. NoRowStep
  BY DEF NoRowStep, StepOf
<1>3. InstallsComplete'
  BY DEF InstallsComplete, UpdateInv
<1> QED BY <1>1, <1>2, <1>3, RowsStay DEF UpdateInv

LEMMA SyncReleaseInv ==
  ASSUME UpdateInv, NEW v \in UpVersions, NEW url \in UpUrls, SyncRelease(v, url)
  PROVE  UpdateInv'
<1> USE DEF SyncRelease, UpdateInv, upNodes
<1>1. UpdateTyped'
  BY DEF UpdateTyped, UpRels
<1>2. /\ \A w \in UpVersions : upHad'[w] = IF w = v THEN upHad[w] \cup {url} ELSE upHad[w]
      /\ \A w \in UpVersions : w # v => upRel'[w] = upRel[w]
      /\ upRel'[v].url = url
  BY ZenonT(60) DEF UpdateTyped, UpRels
<1>3. Grows
  BY <1>2 DEF Grows
<1>4. \A w \in UpVersions : ReleaseSound(w)'
  BY <1>2 DEF ReleaseSound
<1>5. \A j \in UpJobs : JobSound(j)'
  BY <1>2 DEF JobSound
<1> HIDE DEF UpdateInv
<1> QED BY <1>1, <1>3, <1>4, <1>5, ReleaseStepInv

LEMMA PreflightInv ==
  ASSUME UpdateInv, NEW v \in UpVersions, Preflight(v)
  PROVE  UpdateInv'
<1> USE DEF Preflight, UpdateInv, upNodes
<1>1. UpdateTyped'
  BY SMTT(40) DEF UpdateTyped, UpRels
<1>2. /\ \A w \in UpVersions : w # v => upRel'[w] = upRel[w]
      /\ upRel'[v].url = upRel[v].url
  BY DEF UpdateTyped, UpRels
<1>3. Grows
  BY SameGrows
<1>4. \A w \in UpVersions : ReleaseSound(w)'
  BY <1>2 DEF ReleaseSound
<1>5. \A j \in UpJobs : JobSound(j)'
  BY <1>2 DEF JobSound
<1> HIDE DEF UpdateInv
<1> QED BY <1>1, <1>3, <1>4, <1>5, ReleaseStepInv

\* A new job is for a release that exists.
LEMMA CreateJobKeeps ==
  ASSUME UpdateInv, NEW j \in UpJobs, NEW v \in UpVersions, CreateJob(j, v), UNCHANGED <<upRel, upHad, upWas>>
  PROVE  /\ Grows /\ \A w \in UpVersions : ReleaseSound(w)'
         /\ \A k \in UpJobs : JobSound(k)'
         /\ upJob' \in [UpJobs -> UpVersions \cup {"none"}] /\ upJob'[j] = v
<1> USE DEF CreateJob, UpdateInv
<1>1. upJob' \in [UpJobs -> UpVersions \cup {"none"}] /\ \A k \in UpJobs : upJob'[k] = IF k = j THEN v ELSE upJob[k]
  BY DEF UpdateTyped
<1>2. upRel[v].url \in upHad[v]
  BY DEF ReleaseSound
<1>3. \A w \in UpVersions : ReleaseSound(w)'
  BY DEF ReleaseSound
<1>4. \A k \in UpJobs : JobSound(k)'
  BY <1>1, <1>2 DEF JobSound
<1>5. Grows
  BY <1>1 DEF Grows
<1> QED BY <1>1, <1>3, <1>4, <1>5

LEMMA ApplyReleaseInv ==
  ASSUME UpdateInv, NEW j \in UpJobs, NEW v \in UpVersions, ApplyRelease(j, v)
  PROVE  UpdateInv'
<1> USE DEF ApplyRelease, upNodes
<1>1. CreateJob(j, v) /\ UNCHANGED <<upRel, upHad, upWas>>
  OBVIOUS
<1>2. UpdateTyped'
  BY <1>1, CreateJobKeeps DEF UpdateInv, UpdateTyped
<1> QED BY <1>1, <1>2, CreateJobKeeps, ReleaseStepInv

LEMMA ServerDeletedInv ==
  ASSUME UpdateInv, NEW s \in UpServers, ServerDeleted(s)
  PROVE  UpdateInv'
<1> USE DEF ServerDeleted, upNodes
<1>1. UpdateTyped' /\ Grows
  BY SameGrows DEF UpdateInv, UpdateTyped
<1>2. /\ \A v \in UpVersions : ReleaseSound(v)'
      /\ \A j \in UpJobs : JobSound(j)'
  BY DEF ReleaseSound, JobSound, UpdateInv
<1> QED BY <1>1, <1>2, ReleaseStepInv

LEMMA FleetRolloutInv ==
  ASSUME UpdateInv, NEW r \in UpRequests, NEW j \in UpJobs, NEW v \in UpVersions, FleetRollout(r, j, v)
  PROVE  UpdateInv'
<1> USE DEF FleetRollout, upNodes
<1> DEFINE req == [NoUpdate EXCEPT !.at = "rows", !.job = j, !.left = upLive]
<1>1. CreateJob(j, v) /\ UNCHANGED <<upRel, upHad, upWas>>
  OBVIOUS
<1>2. Grows /\ upJob'[j] = v
  BY <1>1, CreateJobKeeps
<1>3. req \in UpReqs /\ req.at = "rows" /\ req.job = j
  BY DEF UpdateInv, UpdateTyped, UpReqs, NoUpdate
<1>4. upReq' = [upReq EXCEPT ![r] = req]
  OBVIOUS
<1> HIDE DEF req
<1>5. UpdateTyped'
  BY <1>1, <1>3, <1>4, CreateJobKeeps DEF UpdateInv, UpdateTyped
<1>6. \A q \in UpRequests : upReq'[q] = IF q = r THEN req ELSE upReq[q]
  BY <1>4 DEF UpdateInv, UpdateTyped
<1>7. RequestSound(r)'
  BY <1>2, <1>3, <1>6 DEF RequestSound, UpSlot
<1>8. \A q \in UpRequests : RequestSound(q)' /\ OpSound(q)'
  BY <1>2, <1>6, <1>7, OthersSound
<1>9. NoRowStep
  BY <1>3, <1>6 DEF NoRowStep, StepOf, UpSlot, NoUpdate
<1>10. InstallsComplete'
  BY DEF InstallsComplete, UpdateInv
<1> HIDE DEF FleetRollout
<1> QED BY <1>1, <1>2, <1>5, <1>8, <1>9, <1>10, CreateJobKeeps, RowsStay DEF UpdateInv

LEMMA UpdateStep == UpdateInv /\ [UpdateNext]_updateVars => UpdateInv'
<1> SUFFICES ASSUME UpdateInv, [UpdateNext]_updateVars PROVE UpdateInv'
  OBVIOUS
<1>1. CASE UpdateNext
  BY <1>1, PreflightInv, SyncReleaseInv, ApplyReleaseInv, FleetRolloutInv, InsertRowInv, CanaryStartsInv,
     MarkApplyingInv, SettlesInv, DispatchUpdateInv, WriteOutcomeInv, DownloadInv, InstallBinaryInv,
     UpdateFailsInv, OpOverInv, RequestsEndInv, ServerDeletedInv, AgentDiesInv DEF UpdateNext
<1>2. CASE UNCHANGED updateVars
  <2>1. UpdateTyped' /\ Grows
    BY <1>2, SameGrows DEF updateVars, UpdateInv, UpdateTyped
  <2>2. /\ \A v \in UpVersions : ReleaseSound(v)'
        /\ \A j \in UpJobs : JobSound(j)'
    BY <1>2 DEF updateVars, ReleaseSound, JobSound, UpdateInv
  <2> QED BY <1>2, <2>1, <2>2, ReleaseStepInv DEF updateVars
<1> QED BY <1>1, <1>2

\* What the rows of a rollout say is what happened: a done row has an installation
\* behind it, an applying row a step that is running or was abandoned, and no
\* rollout takes a server back (updates.go:355-387, 464-481; update.go:62-110).
THEOREM RolloutCorrect == UpdateSpec => []CanaryTellsTruth
<1>1. UpdateSpec => []UpdateInv
  BY UpdateInitInv, UpdateStep, PTL DEF UpdateSpec
<1> QED BY <1>1, InvCanary, PTL

HIDE UpNamesAssumption
HIDE UpUrlsAssumption
=============================================================================
