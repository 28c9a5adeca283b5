------------------------------ MODULE Webhooks ------------------------------
(***************************************************************************)
(* Outbound webhooks: the handlers of controller/automation.go and the     *)
(* loop of webhook/worker.go, which runs in every controller.  There is    *)
(* one webhook; its deliveries are queued by the test handler.             *)
(***************************************************************************)
EXTENDS Naturals, FiniteSets

CONSTANTS
    MaxHooks,     \* bound: deliveries
    MaxHookTries, \* max_attempts of a delivery
    WhLoops,      \* the controllers
    MaxWhFaults   \* bound: failed writes, deaths, lapsed leases

ASSUME WebhookAssumption == MaxHooks \in Nat /\ MaxHookTries \in Nat \ {0} /\ MaxWhFaults \in Nat

Hooks == 1..MaxHooks

VARIABLES
    whHook,     \* the webhook: absent, enabled, disabled
    whRow,      \* whRow[n]: status, attempt_count, next_attempt_at reached
    whHeld,     \* whHeld[l]: delivery -> the attempt the loop claimed it with (0: not claimed)
    whHarm, whFaults

whFlt == <<whHarm, whFaults>>
webhookVars == <<whHook, whRow, whHeld, whFlt>>

NoDelivery == [state |-> "absent", tries |-> 0, due |-> TRUE]

WebhookInit ==
    /\ whHook = "enabled" /\ whRow = [n \in Hooks |-> NoDelivery]
    /\ whHeld = [l \in WhLoops |-> [n \in Hooks |-> 0]]
    /\ whHarm = {} /\ whFaults = 0

WhFault(h) == whFaults < MaxWhFaults /\ whFaults' = whFaults + 1 /\ whHarm' = whHarm \cup {h}
HookIdle(l) == \A n \in Hooks : whHeld[l][n] = 0

SaveHook(s) ==
    /\ whHook # s /\ whHook' = s
    /\ UNCHANGED <<whRow, whHeld, whFlt>>

\* handleDeleteWebhook, and its deliveries by the foreign key.
DeleteHook ==
    /\ whHook # "absent" /\ whHook' = "absent" /\ whRow' = [n \in Hooks |-> NoDelivery]
    /\ UNCHANGED <<whHeld, whFlt>>

\* handleTestWebhook: nothing else of the repository queues a delivery.
QueueHook(n) ==
    /\ whHook # "absent" /\ whRow[n].state = "absent" /\ \A l \in WhLoops : whHeld[l][n] = 0
    /\ \A m \in 1..n-1 : whRow[m].state # "absent"
    /\ whRow' = [whRow EXCEPT ![n].state = "pending"]
    /\ UNCHANGED <<whHook, whHeld, whFlt>>

\* The attempt of the claim decides: the last one makes it a dead letter.
HookFailed(row, n) == IF n >= MaxHookTries THEN [row EXCEPT !.state = "dead_letter"]
                      ELSE [row EXCEPT !.state = "pending", !.due = FALSE]

HookUnleased(n) == whHook = "enabled" /\ whRow[n].state = "pending"   \* mutant of HookClaimable
HookClaimable(n) == whHook = "enabled" /\ whRow[n].state = "pending" /\ whRow[n].due

\* drainOnce claims: the rows stay pending, under a lease of one request's time.
ClaimHooks(l) ==
    LET S == {n \in Hooks : HookClaimable(n)} IN
    /\ HookIdle(l) /\ S # {}
    /\ whRow' = [n \in Hooks |-> IF n \in S THEN [whRow[n] EXCEPT !.tries = @ + 1, !.due = FALSE] ELSE whRow[n]]
    /\ whHeld' = [whHeld EXCEPT ![l] = [n \in Hooks |-> IF n \in S THEN whRow[n].tries + 1 ELSE 0]]
    /\ UNCHANGED <<whHook, whFlt>>

\* One row of the batch; the write is not guarded, and its failure not looked at.
SendHook(l, n) ==
    /\ whHeld[l][n] # 0 /\ whHeld' = [whHeld EXCEPT ![l][n] = 0]
    /\ \/ /\ \E new \in {[whRow[n] EXCEPT !.state = "delivered"], HookFailed(whRow[n], whHeld[l][n])} :
                whRow' = IF whRow[n].state = "absent" THEN whRow ELSE [whRow EXCEPT ![n] = new]
          /\ UNCHANGED whFlt
       \/ WhFault("unwritten") /\ UNCHANGED whRow
    /\ UNCHANGED whHook

HookLoopDies(l) ==
    /\ ~HookIdle(l) /\ WhFault("died")
    /\ whHeld' = [whHeld EXCEPT ![l] = [n \in Hooks |-> 0]]
    /\ UNCHANGED <<whHook, whRow>>

\* The lease of a row late in a slow batch ends before its turn comes.
HookElapse(n) ==
    /\ ~whRow[n].due /\ whRow[n].state = "pending" /\ whRow' = [whRow EXCEPT ![n].due = TRUE]
    /\ IF \E l \in WhLoops : whHeld[l][n] # 0 THEN WhFault("lapsed") ELSE UNCHANGED whFlt
    /\ UNCHANGED <<whHook, whHeld>>

WebhookNext ==
    \/ SaveHook("enabled") \/ SaveHook("disabled") \/ DeleteHook
    \/ \E n \in Hooks : QueueHook(n) \/ HookElapse(n) \/ \E l \in WhLoops : SendHook(l, n)
    \/ \E l \in WhLoops : ClaimHooks(l) \/ HookLoopDies(l)

WebhookSpec == WebhookInit /\ [][WebhookNext]_webhookVars

-----------------------------------------------------------------------------
\* Every variable stays within its type.
WebhookTypeOK ==
    /\ whHook \in {"absent", "enabled", "disabled"}
    /\ whRow \in [Hooks -> [state : {"absent", "pending", "delivered", "dead_letter"},
                            tries : 0..MaxHookTries + MaxWhFaults, due : BOOLEAN]]
    /\ whHeld \in [WhLoops -> [Hooks -> 0..MaxHookTries + MaxWhFaults]]

\* A webhook that has been delivered is not sent again, and none is tried more
\* than max_attempts times: the two loops share the rows with no state for a row
\* that is being sent, only its lease.  A lease that lapses in the middle of a
\* slow batch breaks it, and so does an attempt that died or was not written.
HookSentOnce ==
    /\ WebhookTypeOK
    /\ whHarm = {} => \A n \in Hooks :
        /\ Cardinality({l \in WhLoops : whHeld[l][n] # 0}) <= 1
        /\ whRow[n].state \in {"delivered", "dead_letter"} => \A l \in WhLoops : whHeld[l][n] = 0
        /\ whRow[n].tries <= MaxHookTries
=============================================================================
