------------------------------ MODULE Delivery ------------------------------
(***************************************************************************)
(* Notifications: Publish writes a row per recipient, and the loop of      *)
(* cmd/controller/main.go calls DeliverOnce in every controller            *)
(* (notify/notify.go, delivery.go); controller/notifications.go manages    *)
(* channels and routes.  One user has the routes; email has a sender,      *)
(* in_panel has none.                                                      *)
(***************************************************************************)
EXTENDS Naturals, FiniteSets

CONSTANTS
    MaxEvents,   \* bound: published events
    MaxTries,    \* max_attempts of a row
    DvLoops,     \* the controllers
    MaxDvEdits,  \* bound: edits of channels and routes
    MaxDvFaults  \* bound: failed writes, deaths, raced publications

ASSUME DeliveryAssumption ==
    /\ MaxEvents \in Nat /\ MaxTries \in Nat \ {0}
    /\ MaxDvEdits \in Nat /\ MaxDvFaults \in Nat

Events == 1..MaxEvents
Channels == {"email", "in_panel"}
Senders == {"email"}
Rows == Events \X Channels

VARIABLES
    dvChannel,  \* dvChannel[c]: absent, enabled or disabled
    dvRoute,    \* dvRoute[c]: min_severity of the user's route (0: no route)
    dvEvent,    \* dvEvent[e]: its transaction: step, severity, key, recipients, duplicates
    dvRow,      \* dvRow[<<e, c>>]: state, attempt_count, next_attempt_at reached
    dvFresh,    \* the events published within the dedup window
    dvHeld,     \* dvHeld[l]: row -> the attempt the loop claimed it with (0: not claimed)
    dvHarm, dvFaults, dvEdits

dvFlt == <<dvHarm, dvFaults, dvEdits>>
deliveryVars == <<dvChannel, dvRoute, dvEvent, dvRow, dvFresh, dvHeld, dvFlt>>

Unsent == [state |-> "absent", tries |-> 0, due |-> TRUE]

DeliveryInit ==
    /\ dvChannel = [c \in Channels |-> IF c \in Senders THEN "enabled" ELSE "disabled"]
    /\ dvRoute = [c \in Channels |-> IF c \in Senders THEN 1 ELSE 2]
    /\ dvEvent = [e \in Events |-> [at |-> "none", sev |-> 1, key |-> FALSE, to |-> {}, dup |-> {}]]
    /\ dvRow = [r \in Rows |-> Unsent] /\ dvFresh = {}
    /\ dvHeld = [l \in DvLoops |-> [r \in Rows |-> 0]]
    /\ dvHarm = {} /\ dvFaults = 0 /\ dvEdits = 0

DvFault(h) ==
    /\ dvFaults < MaxDvFaults /\ dvFaults' = dvFaults + 1 /\ dvHarm' = dvHarm \cup {h}
    /\ UNCHANGED dvEdits
DvEdit == dvEdits < MaxDvEdits /\ dvEdits' = dvEdits + 1 /\ UNCHANGED <<dvHarm, dvFaults>>

-----------------------------------------------------------------------------
\* Channels and routes.

SaveChannel(c, s) ==
    /\ dvChannel[c] # s /\ dvChannel' = [dvChannel EXCEPT ![c] = s] /\ DvEdit
    /\ UNCHANGED <<dvRoute, dvEvent, dvRow, dvFresh, dvHeld>>

\* The foreign keys take the routes and the deliveries with the channel.
DeleteChannel(c) ==
    /\ dvChannel[c] # "absent" /\ dvChannel' = [dvChannel EXCEPT ![c] = "absent"] /\ DvEdit
    /\ dvRoute' = [dvRoute EXCEPT ![c] = 0]
    /\ dvRow' = [r \in Rows |-> IF r[2] = c THEN Unsent ELSE dvRow[r]]
    /\ dvEvent' = [e \in Events |-> IF dvEvent[e].at = "open" /\ c \in dvEvent[e].to
                                    THEN [dvEvent[e] EXCEPT !.at = "doomed"] ELSE dvEvent[e]]
    /\ UNCHANGED <<dvFresh, dvHeld>>

SaveRoute(c, min) ==
    /\ dvChannel[c] # "absent" /\ dvRoute[c] # min /\ dvRoute' = [dvRoute EXCEPT ![c] = min]
    /\ DvEdit /\ UNCHANGED <<dvChannel, dvEvent, dvRow, dvFresh, dvHeld>>

-----------------------------------------------------------------------------
\* Publish: one transaction that reads, then inserts.

\* recipientsFor.
Recipients(sev) == {c \in Channels : dvChannel[c] = "enabled" /\ dvRoute[c] \in 1..sev}

\* recentlyNotified: any row of the window that was not suppressed.
Notified(c) == \E e \in dvFresh : dvEvent[e].key /\ dvRow[<<e, c>>].state \notin {"absent", "suppressed"}

\* Events are taken in order, and all events with a key have the same one.
PublishRead(e, sev, key) ==
    /\ dvEvent[e].at = "none" /\ \A f \in 1..e-1 : dvEvent[f].at # "none"
    /\ dvEvent' = [dvEvent EXCEPT ![e] = [at |-> "open", sev |-> sev, key |-> key, to |-> Recipients(sev),
                    dup |-> IF key THEN {c \in Recipients(sev) : Notified(c)} ELSE {}]]
    /\ UNCHANGED <<dvChannel, dvRoute, dvRow, dvFresh, dvHeld, dvFlt>>

\* Two transactions that are open together do not see each other's rows.
PublishCommit(e) ==
    LET ev == dvEvent[e] IN
    /\ ev.at = "open"
    /\ dvEvent' = [dvEvent EXCEPT ![e] = [at |-> "done", sev |-> 1, key |-> ev.key, to |-> {}, dup |-> {}]]
    /\ dvRow' = [r \in Rows |-> IF r[1] = e /\ r[2] \in ev.to
                    THEN [Unsent EXCEPT !.state = IF r[2] \in ev.dup THEN "suppressed" ELSE "pending"]
                    ELSE dvRow[r]]
    /\ dvFresh' = dvFresh \cup {e}
    /\ IF ev.key /\ \E c \in ev.to \ ev.dup : Notified(c) THEN DvFault("raced") ELSE UNCHANGED dvFlt
    /\ UNCHANGED <<dvChannel, dvRoute, dvHeld>>

\* The foreign key of a channel that was deleted meanwhile fails the insert.
PublishFails(e) ==
    /\ dvEvent[e].at = "doomed"
    /\ dvEvent' = [dvEvent EXCEPT ![e].at = "done"]
    /\ UNCHANGED <<dvChannel, dvRoute, dvRow, dvFresh, dvHeld, dvFlt>>

WindowPasses(e) ==
    /\ e \in dvFresh /\ dvFresh' = dvFresh \ {e}
    /\ UNCHANGED <<dvChannel, dvRoute, dvEvent, dvRow, dvHeld, dvFlt>>

-----------------------------------------------------------------------------
\* DeliverOnce.

Idle(held) == \A r \in DOMAIN held : held[r] = 0
Claimed(row) == [row EXCEPT !.tries = @ + 1, !.due = FALSE]
Backoff(row) == [row EXCEPT !.state = "pending", !.due = FALSE]
\* markFailed: the attempt of the claim decides.  A settled row's attempts are
\* never read again, so they are dropped.
Exhausted(n) == n >= MaxTries
Failed(row, n) == IF Exhausted(n) THEN [Unsent EXCEPT !.state = "dead_letter"] ELSE Backoff(row)

\* Mutant of Claimable: what is in sending comes back when its time has come.
ClaimableSending(r) == dvRow[r].state \in {"pending", "sending"} /\ dvRow[r].due
Claimable(r) == dvRow[r].state = "pending" /\ dvRow[r].due

\* claimBatch: every row that is due (no batch is as long as its limit).
ClaimBatch(l) ==
    LET S == {r \in Rows : Claimable(r)} IN
    /\ Idle(dvHeld[l]) /\ S # {}
    /\ dvRow' = [r \in Rows |-> IF r \in S THEN [Claimed(dvRow[r]) EXCEPT !.state = "sending"] ELSE dvRow[r]]
    /\ dvHeld' = [dvHeld EXCEPT ![l] = [r \in Rows |-> IF r \in S THEN dvRow[r].tries + 1 ELSE 0]]
    /\ UNCHANGED <<dvChannel, dvRoute, dvEvent, dvFresh, dvFlt>>

Written(r, new) == dvRow' = IF dvRow[r].state = "absent" THEN dvRow ELSE [dvRow EXCEPT ![r] = new]

\* One row of the batch: markDelivered, markFailed, or releasePending where the
\* channel has no sender.
Deliver(l, r) ==
    /\ dvHeld[l][r] # 0 /\ dvHeld' = [dvHeld EXCEPT ![l][r] = 0]
    /\ \/ r[2] \notin Senders /\ Written(r, [Backoff(dvRow[r]) EXCEPT !.tries = IF @ > 0 THEN @ - 1 ELSE 0])
       \/ r[2] \in Senders /\ Written(r, [Unsent EXCEPT !.state = "delivered"])
       \/ r[2] \in Senders /\ Written(r, Failed(dvRow[r], dvHeld[l][r]))
    /\ UNCHANGED <<dvChannel, dvRoute, dvEvent, dvFresh, dvFlt>>

\* A failed write or read ends DeliverOnce, and a dead controller the loop: the
\* rest of the batch stays as it is.
LoopBreaks(l) ==
    /\ ~Idle(dvHeld[l]) /\ DvFault("broke")
    /\ dvHeld' = [dvHeld EXCEPT ![l] = [r \in Rows |-> 0]]
    /\ UNCHANGED <<dvChannel, dvRoute, dvEvent, dvRow, dvFresh>>

\* next_attempt_at is reached: of a backoff, or of a lease.
Elapse(r) ==
    /\ ~dvRow[r].due /\ dvRow[r].state \in {"pending", "sending"}
    /\ dvRow' = [dvRow EXCEPT ![r].due = TRUE]
    /\ UNCHANGED <<dvChannel, dvRoute, dvEvent, dvFresh, dvHeld, dvFlt>>

Redeliver(r) ==
    /\ dvRow[r].state = "dead_letter" /\ dvRow' = [dvRow EXCEPT ![r] = [Unsent EXCEPT !.state = "pending"]]
    /\ UNCHANGED <<dvChannel, dvRoute, dvEvent, dvFresh, dvHeld, dvFlt>>

DeliveryNext ==
    \/ \E c \in Channels :
        \/ SaveChannel(c, "enabled") \/ SaveChannel(c, "disabled") \/ DeleteChannel(c)
        \/ SaveRoute(c, 1) \/ SaveRoute(c, 2) \/ SaveRoute(c, 0)
    \/ \E e \in Events :
        \/ (\E sev \in 1..2, key \in BOOLEAN : PublishRead(e, sev, key))
        \/ PublishCommit(e) \/ PublishFails(e) \/ WindowPasses(e)
    \/ \E r \in Rows : Elapse(r) \/ Redeliver(r) \/ \E l \in DvLoops : Deliver(l, r)
    \/ \E l \in DvLoops : ClaimBatch(l) \/ LoopBreaks(l)

DeliverySpec == DeliveryInit /\ [][DeliveryNext]_deliveryVars

-----------------------------------------------------------------------------
\* Every variable stays within its type.
DeliveryTypeOK ==
    /\ dvChannel \in [Channels -> {"absent", "enabled", "disabled"}] /\ dvRoute \in [Channels -> 0..2]
    /\ \A e \in Events : dvEvent[e].to \subseteq Channels /\ dvEvent[e].dup \subseteq dvEvent[e].to
    /\ dvRow \in [Rows -> [state : {"absent", "pending", "sending", "delivered", "suppressed", "dead_letter"},
                           tries : 0..MaxTries + 1, due : BOOLEAN]]
    /\ dvHeld \in [DvLoops -> [Rows -> 0..MaxTries + 1]]
    /\ dvFresh \subseteq Events

\* Two controllers never send one delivery at the same time, although each claims
\* whatever is due whenever it ticks, and a lease may lapse while its holder works.
OneSender == \A r \in Rows, k, l \in DvLoops : dvHeld[k][r] # 0 /\ dvHeld[l][r] # 0 => k = l

\* Within the dedup window a user is notified once of one condition, however its
\* deliveries fare, unless two publications were in their transactions together.
OneNotice ==
    "raced" \notin dvHarm => \A e, f \in dvFresh, c \in Channels :
        /\ dvEvent[e].key /\ dvRow[<<e, c>>].state \notin {"absent", "suppressed"}
        /\ dvEvent[f].key /\ dvRow[<<f, c>>].state \notin {"absent", "suppressed"}
        => e = f

\* Deliveries over all (notify/delivery.go, notify.go): one sender, one notice.
DeliveriesAreSound == DeliveryTypeOK /\ OneSender /\ OneNotice

\* DeliverOnce: a row whose loop died "becomes due again on its own".  A row whose
\* lease has lapsed, and that no loop holds, can be claimed.
LapsedIsDue ==
    \A r \in Rows : dvRow[r].state = "sending" /\ dvRow[r].due /\ (\A l \in DvLoops : dvHeld[l][r] = 0)
        => Claimable(r)
=============================================================================
