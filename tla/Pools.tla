------------------------------- MODULE Pools --------------------------------
(***************************************************************************)
(* High availability: one server pool, its members, drain requests and      *)
(* drills (ha/ha.go), the handlers that edit them (controller/ha.go) and    *)
(* the worker that probes the members' hosts and writes what it saw, a row  *)
(* at a time, into rows the handlers may have changed since it listed them  *)
(* (ha/probe.go).  A member row has an id of its own, which is not the id   *)
(* of its server.                                                          *)
(***************************************************************************)
EXTENDS Integers, FiniteSets

CONSTANTS HaServers,    \* server ids
          HaMemberIds,  \* pool_members ids, each given out once
          HaRequests,   \* drain_requests and failover_drills ids
          MaxHaEdits,   \* edits by handlers, and hosts going up or down
          MaxHaFaults   \* statements that fail, and restarts

ASSUME PoolAssumption ==
    IsFiniteSet(HaMemberIds) /\ HaServers \cap HaMemberIds = {} /\ "none" \notin HaServers

VARIABLES haPool,       \* server_pools
          haMembers,    \* pool_members
          haDrains,     \* drain_requests
          haDrills,     \* failover_drills
          haQuorum,     \* quorum_configs
          haEvents,     \* failover_events: how many rows
          haHostUp,     \* the servers that answer a probe
          haWorker,     \* the worker: its statement and what it has read
          haSettled,    \* history: nothing else happened since the last pass began
          haEdits, haFaults

poolVars == <<haPool, haMembers, haDrains, haDrills, haQuorum, haEvents, haHostUp, haWorker,
              haSettled, haEdits, haFaults>>

NoMember == [server |-> "none", state |-> "none"]
WorkerIdle == [at |-> "idle", pool |-> [state |-> "none", min |-> 0], todo |-> {}, listed |-> 0,
               healthy |-> 0, id |-> "none", was |-> "none", to |-> "none"]

\* No pool yet; every host may be up or down.
PoolInit ==
    /\ haPool = [state |-> "none", min |-> 0]
    /\ haMembers = [m \in HaMemberIds |-> NoMember]
    /\ haDrains = [d \in HaRequests |-> "none"]
    /\ haDrills = [d \in HaRequests |-> "none"]
    /\ haQuorum = FALSE
    /\ haEvents = 0
    /\ haHostUp \in SUBSET HaServers
    /\ haWorker = WorkerIdle
    /\ haSettled = FALSE
    /\ haEdits = 0 /\ haFaults = 0

PoolExists == haPool.state \notin {"none", "deleted"}
Members == {m \in HaMemberIds : haMembers[m].server # "none" /\ haMembers[m].state # "removed"}
HaEdit == haEdits < MaxHaEdits /\ haEdits' = haEdits + 1
Unsettles == haSettled' = FALSE

\* Store.UpdateMemberState: the row with this id, if there is one.
SetMember(id, state) ==
    haMembers' = [m \in HaMemberIds |-> IF m = id /\ m \in Members
                                        THEN [haMembers[m] EXCEPT !.state = state] ELSE haMembers[m]]

\* Store.RecordFailoverEvent: the table takes these types of event and no other.
EventTypes == {"node_down", "node_up", "failover", "failback", "drain_start", "drain_complete",
               "quorum_lost", "quorum_restored", "drill"}
RecordEvent(type) == haEvents' = IF type \in EventTypes /\ PoolExists THEN haEvents + 1 ELSE haEvents
---------------------------------------------------------------------------
(* Handlers.                                                               *)

\* Store.CreatePool; handleCreatePool gives min_healthy at least 1.
InsertPool(min) == haPool' = [state |-> "healthy", min |-> min]

CreatePool ==
    /\ haPool.state = "none"
    /\ \E min \in {1, 2} : InsertPool(min)
    /\ Unsettles
    /\ UNCHANGED <<haMembers, haDrains, haDrills, haQuorum, haEvents, haHostUp, haWorker, haEdits, haFaults>>

\* Store.DeletePool: by cascade its members and all its other rows.
RemovePool ==
    /\ haPool' = [haPool EXCEPT !.state = "deleted"]
    /\ haMembers' = [m \in HaMemberIds |-> IF m \in Members THEN [haMembers[m] EXCEPT !.state = "removed"]
                                           ELSE haMembers[m]]
    /\ haDrains' = [d \in HaRequests |-> IF haDrains[d] = "none" THEN "none" ELSE "deleted"]
    /\ haDrills' = [d \in HaRequests |-> IF haDrills[d] = "none" THEN "none" ELSE "deleted"]
    /\ haQuorum' = FALSE
    /\ haEvents' = 0

DeletePool ==
    /\ HaEdit /\ PoolExists
    /\ RemovePool /\ Unsettles
    /\ UNCHANGED <<haHostUp, haWorker, haFaults>>

\* Store.AddMember: a server is in a pool once; it starts out active.
InsertMember(id, server) ==
    /\ haMembers[id] = NoMember
    /\ \A m \in Members : haMembers[m].server # server
    /\ haMembers' = [haMembers EXCEPT ![id] = [server |-> server, state |-> "active"]]

AddMember(id, server) ==
    /\ PoolExists
    /\ InsertMember(id, server) /\ Unsettles
    /\ UNCHANGED <<haPool, haDrains, haDrills, haQuorum, haEvents, haHostUp, haWorker, haEdits, haFaults>>

\* handleRemoveMember
RemoveMember(id) ==
    /\ HaEdit /\ id \in Members
    /\ haMembers' = [haMembers EXCEPT ![id].state = "removed"]
    /\ Unsettles
    /\ UNCHANGED <<haPool, haDrains, haDrills, haQuorum, haEvents, haHostUp, haWorker, haFaults>>

\* Store.CreateDrainRequest
InsertDrain(d) ==
    /\ haDrains[d] = "none" /\ PoolExists
    /\ haDrains' = [haDrains EXCEPT ![d] = "pending"]

\* handleStartDrain: the request is recorded, and then the member would be marked, but
\* the update is given the server's id for the member's: it finds no row, and that
\* failure is ignored.
StartDrain(d, server) ==
    /\ HaEdit
    /\ InsertDrain(d)
    /\ SetMember(server, "draining")
    /\ Unsettles
    /\ UNCHANGED <<haPool, haDrills, haQuorum, haEvents, haHostUp, haWorker, haFaults>>

\* Store.UpdateDrainState: whatever state the request is in.  Nothing but the
\* cancellation calls it: no request is ever draining or drained.
SetDrain(d, state) ==
    /\ haDrains[d] \notin {"none", "deleted"}
    /\ haDrains' = [haDrains EXCEPT ![d] = state]

CancelDrain(d) ==
    /\ SetDrain(d, "cancelled")
    /\ UNCHANGED <<haPool, haMembers, haDrills, haQuorum, haEvents, haHostUp, haWorker, haSettled,
                   haEdits, haFaults>>

\* Store.UpsertQuorumConfig, which nothing reads but handleGetQuorum.
UpsertQuorum == PoolExists /\ haQuorum' = TRUE

SetQuorum ==
    /\ UpsertQuorum
    /\ UNCHANGED <<haPool, haMembers, haDrains, haDrills, haEvents, haHostUp, haWorker, haSettled,
                   haEdits, haFaults>>

\* Store.CreateDrill
InsertDrill(d) ==
    /\ haDrills[d] = "none" /\ PoolExists
    /\ haDrills' = [haDrills EXCEPT ![d] = "pending"]

CreateDrill(d) ==
    /\ HaEdit
    /\ InsertDrill(d)
    /\ UNCHANGED <<haPool, haMembers, haDrains, haQuorum, haEvents, haHostUp, haWorker, haSettled, haFaults>>

\* Store.UpdateDrillState: whatever state the drill is in.
SetDrill(d, state) ==
    /\ haDrills[d] \notin {"none", "deleted"}
    /\ haDrills' = [haDrills EXCEPT ![d] = state]

\* handleCompleteDrill: a drill that has ended may be ended again, another way.
CompleteDrill(d) ==
    /\ HaEdit
    /\ \E state \in {"passed", "failed", "cancelled"} : SetDrill(d, state)
    /\ UNCHANGED <<haPool, haMembers, haDrains, haQuorum, haEvents, haHostUp, haWorker, haSettled, haFaults>>

\* A host goes down, or comes back.
HostTurns(s) ==
    /\ HaEdit
    /\ haHostUp' = IF s \in haHostUp THEN haHostUp \ {s} ELSE haHostUp \cup {s}
    /\ Unsettles
    /\ UNCHANGED <<haPool, haMembers, haDrains, haDrills, haQuorum, haEvents, haWorker, haFaults>>
---------------------------------------------------------------------------
(* The worker: one pass of probeAll over the pool.                         *)

\* The worker's statements change these alone.
Pass == UNCHANGED <<haDrains, haDrills, haQuorum, haHostUp, haEdits>>

\* listAllPools: a pool that is draining is left alone.
PassStarts ==
    /\ haWorker.at = "idle" /\ PoolExists /\ haPool.state # "draining"
    /\ haWorker' = [WorkerIdle EXCEPT !.at = "members", !.pool = haPool]
    /\ haSettled' = TRUE
    /\ Pass /\ UNCHANGED <<haPool, haMembers, haEvents, haFaults>>

\* Store.ListMembers
ListMembers ==
    /\ haWorker.at = "members"
    /\ haWorker' = [haWorker EXCEPT !.at = "probe", !.listed = Cardinality(Members),
                        !.todo = {[id |-> m, row |-> haMembers[m]] : m \in Members}]
    /\ Pass /\ UNCHANGED <<haPool, haMembers, haEvents, haSettled, haFaults>>

\* A member counts when its host answered now; the mutant counts those that were
\* active when they were listed.
CountsIfListed(reachable, was) == was = "active"
Counts(reachable, was) == reachable

\* probePool, one member: drained ones are skipped, and a state other than the listed
\* one is written next.  The probe of a host that is up may still time out.
ProbeMember(x, reachable) ==
    /\ haWorker.at = "probe" /\ x \in haWorker.todo
    /\ reachable => x.row.server \in haHostUp
    /\ LET skipped == x.row.state \in {"drained", "draining"}
           state == IF reachable THEN "active" ELSE "failed"
           writes == ~skipped /\ state # x.row.state
           counted == ~skipped /\ Counts(reachable, x.row.state)
       IN haWorker' = [haWorker EXCEPT !.todo = @ \ {x}, !.healthy = IF counted THEN @ + 1 ELSE @,
                          !.at = IF writes THEN "write" ELSE @,
                          !.id = IF writes THEN x.id ELSE @, !.to = IF writes THEN state ELSE @]
    /\ IF ~reachable /\ x.row.server \in haHostUp
       THEN haFaults < MaxHaFaults /\ haFaults' = haFaults + 1 /\ Unsettles
       ELSE UNCHANGED <<haFaults, haSettled>>
    /\ Pass /\ UNCHANGED <<haPool, haMembers, haEvents>>

\* The member's new state, and the event that should tell of it; both failures are
\* ignored, and the table refuses this type of event.
WriteMember ==
    /\ haWorker.at = "write"
    /\ SetMember(haWorker.id, haWorker.to)
    /\ RecordEvent("node_status_change")
    /\ haWorker' = [haWorker EXCEPT !.at = "probe", !.id = "none", !.to = "none"]
    /\ Pass /\ UNCHANGED <<haPool, haSettled, haFaults>>

\* The pool's state by the members that were counted.
Verdict(healthy, listed, min) ==
    CASE healthy = 0 /\ listed > 0 -> "failed"
      [] healthy < min /\ ~(healthy = 0 /\ listed > 0) -> "degraded"
      [] OTHER -> "healthy"

\* Store.UpdatePoolState: the row by its id, if it is still there.
SetPool(state) == haPool' = IF PoolExists THEN [haPool EXCEPT !.state = state] ELSE haPool

\* The verdict is written when it is not the state the pool was listed with.
WritePool ==
    /\ haWorker.at = "probe" /\ haWorker.todo = {}
    /\ LET state == Verdict(haWorker.healthy, haWorker.listed, haWorker.pool.min)
       IN IF state = haWorker.pool.state THEN UNCHANGED <<haPool, haEvents>>
          ELSE SetPool(state) /\ RecordEvent("pool_state_change")
    /\ haWorker' = WorkerIdle
    /\ Pass /\ UNCHANGED <<haMembers, haSettled, haFaults>>

\* A statement fails: listing ends the pass, a lost write is not noticed.
StatementLost ==
    /\ haFaults < MaxHaFaults /\ haFaults' = haFaults + 1
    /\ \/ haWorker.at = "members" /\ haWorker' = WorkerIdle
       \/ haWorker.at = "write" /\ haWorker' = [haWorker EXCEPT !.at = "probe", !.id = "none", !.to = "none"]
       \/ haWorker.at = "probe" /\ haWorker.todo = {} /\ haWorker' = WorkerIdle
    /\ Unsettles
    /\ Pass /\ UNCHANGED <<haPool, haMembers, haEvents>>

\* The controller stops and starts again in the middle of a pass.
WorkerRestarts ==
    /\ haFaults < MaxHaFaults /\ haFaults' = haFaults + 1
    /\ haWorker.at # "idle" /\ haWorker' = WorkerIdle
    /\ Unsettles
    /\ Pass /\ UNCHANGED <<haPool, haMembers, haEvents>>

PoolNext ==
    \/ CreatePool \/ DeletePool \/ SetQuorum
    \/ \E id \in HaMemberIds, s \in HaServers : AddMember(id, s)
    \/ \E id \in HaMemberIds : RemoveMember(id)
    \/ \E d \in HaRequests : CancelDrain(d) \/ CreateDrill(d) \/ CompleteDrill(d)
    \/ \E d \in HaRequests, s \in HaServers : StartDrain(d, s)
    \/ \E s \in HaServers : HostTurns(s)
    \/ PassStarts \/ ListMembers \/ WriteMember \/ WritePool
    \/ \E x \in haWorker.todo, r \in BOOLEAN : ProbeMember(x, r)
    \/ StatementLost \/ WorkerRestarts

PoolSpec == PoolInit /\ [][PoolNext]_poolVars
---------------------------------------------------------------------------
Answering == {m \in Members : haMembers[m].server \in haHostUp}

\* After a pass that nothing disturbed, the rows tell what is true of the hosts,
\* whatever earlier passes, lost writes and edits had left in them: each member that is
\* not being drained is active just when its host answers, and the pool is failed with
\* no host left, degraded below min_healthy, healthy otherwise (probe.go, probePool).
PassTellsTruth ==
    (haSettled /\ haWorker.at = "idle") =>
        /\ \A m \in Members : haMembers[m].state =
             (IF haMembers[m].server \in haHostUp THEN "active" ELSE "failed")
        /\ haPool.state = "failed" <=> (Members # {} /\ Answering = {})
        /\ haPool.state = "healthy" <=> Cardinality(Answering) >= haPool.min
=============================================================================
