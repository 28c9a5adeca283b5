------------------------------- MODULE Updates -------------------------------
(***************************************************************************)
(* Releases, update jobs and the canary rollout of the node agent          *)
(* (controller/updates.go, updates/updates.go), and the agent that         *)
(* replaces its own binary (nodeagent/update.go).  Every statement of a    *)
(* handler runs under its request's context, so a client that leaves takes *)
(* the rest of the handler with it, while the node goes on.                *)
(***************************************************************************)
EXTENDS Naturals

CONSTANTS
    UpVersions,    \* releases, by channel and version
    UpUrls,        \* artifacts; the digest of an artifact is named like its url
    UpForeign,     \* the urls that UpdateNodeAgentInput.Validate refuses
    UpJobs,        \* ids of update jobs
    UpServers,
    UpRequests,    \* requests that are served at the same time
    MaxUpEdits,    \* bound: releases synchronised or preflighted, servers deleted
    MaxUpCalls,    \* bound: requests for a canary step or a rollout
    MaxUpFaults    \* bound: clients that leave, lost answers, agents that die

ASSUME UpUrlsAssumption == UpForeign \subseteq UpUrls
ASSUME UpNamesAssumption ==
    "none" \notin UNION {UpVersions, UpUrls, UpJobs, UpServers} /\ "cut" \notin UpUrls

VARIABLES
    upRel,      \* upRel[v]: the row of update_releases: its artifact and its preflight
    upHad,      \* upHad[v]: the artifacts that release v has had (history)
    upJob,      \* upJob[j]: the release of job j; its state stays 'pending'
    upRow,      \* upRow[j][s]: the state of the row of canary_rollouts
    upLive,     \* the servers that are not deleted
    upReq,      \* upReq[r]: a request in progress
    upOp,       \* upOp[r]: what the agent does with the call of request r
    upWas,      \* upWas[s]: what has been installed on s, and the digest asked for (history)
    upLeft,     \* the rows whose request ended before it could write (history)
    upEdits, upCalls, upFaults

updateVars == <<upRel, upHad, upJob, upRow, upLive, upReq, upOp, upWas, upLeft, upEdits, upCalls, upFaults>>

NoRelease == [url |-> "none", compat |-> "unknown"]
NoUpdate == [at |-> "idle", job |-> "none", srv |-> "none", url |-> "none", sum |-> "none", left |-> {}, out |-> "none"]
\* at: "none", "get", "write", "ok", "failed"; data: what was downloaded.
NoUpdateOp == [at |-> "none", srv |-> "none", url |-> "none", sum |-> "none", data |-> "none"]

UpdateInit ==
    /\ upRel = [v \in UpVersions |-> NoRelease] /\ upHad = [v \in UpVersions |-> {}]
    /\ upJob = [j \in UpJobs |-> "none"]
    /\ upRow = [j \in UpJobs |-> [s \in UpServers |-> "none"]] /\ upLive = UpServers
    /\ upReq = [r \in UpRequests |-> NoUpdate] /\ upOp = [r \in UpRequests |-> NoUpdateOp]
    /\ upWas = [s \in UpServers |-> {}] /\ upLeft = {}
    /\ upEdits = 0 /\ upCalls = 0 /\ upFaults = 0

UpEdit == upEdits < MaxUpEdits /\ upEdits' = upEdits + 1
UpCall == upCalls < MaxUpCalls /\ upCalls' = upCalls + 1
UpFault == upFaults < MaxUpFaults /\ upFaults' = upFaults + 1
upRows == <<upRel, upHad, upJob, upLive>>
upNodes == <<upOp, upWas>>
upBounds == <<upEdits, upCalls, upFaults>>

SetRow(j, s, state) == upRow' = [upRow EXCEPT ![j][s] = state]
UpSlot(r) == upReq[r] = NoUpdate /\ upOp[r] = NoUpdateOp

-----------------------------------------------------------------------------
\* Releases and jobs: handlers of one statement.

\* UpsertRelease replaces the artifact and keeps the preflight's result.
SyncRelease(v, url) ==
    /\ UpEdit /\ upRel' = [upRel EXCEPT ![v].url = url]
    /\ upHad' = [upHad EXCEPT ![v] = @ \union {url}]
    /\ UNCHANGED <<upJob, upRow, upLive, upReq, upNodes, upLeft, upCalls, upFaults>>

\* Every release that exists is found compatible.
Preflight(v) ==
    /\ UpEdit /\ upRel[v] # NoRelease /\ upRel' = [upRel EXCEPT ![v].compat = "yes"]
    /\ UNCHANGED <<upHad, upJob, upRow, upLive, upReq, upNodes, upLeft, upCalls, upFaults>>

CreateJob(j, v) == upRel[v] # NoRelease /\ upJob[j] = "none" /\ upJob' = [upJob EXCEPT ![j] = v]

ApplyRelease(j, v) ==
    /\ upRel[v].compat # "no" /\ CreateJob(j, v)
    /\ UNCHANGED <<upRel, upHad, upRow, upLive, upReq, upNodes, upLeft, upBounds>>

ServerDeleted(s) ==
    /\ UpEdit /\ s \in upLive /\ upLive' = upLive \ {s}
    /\ UNCHANGED <<upRel, upHad, upJob, upRow, upReq, upNodes, upLeft, upCalls, upFaults>>

-----------------------------------------------------------------------------
\* handleFleetRollout: a job whatever the preflight said, then a row for every
\* server, one statement each.  The job can be found and worked on meanwhile.

FleetRollout(r, j, v) ==
    /\ UpCall /\ UpSlot(r) /\ CreateJob(j, v)
    /\ upReq' = [upReq EXCEPT ![r] = [NoUpdate EXCEPT !.at = "rows", !.job = j, !.left = upLive]]
    /\ UNCHANGED <<upRel, upHad, upRow, upLive, upNodes, upLeft, upEdits, upFaults>>

\* The insert takes a row that is there for its own.
Reinserted(row) == "pending"

\* ON CONFLICT DO NOTHING.
Inserted(row) == IF row = "none" THEN "pending" ELSE row

InsertRow(r, s) ==
    /\ upReq[r].at = "rows" /\ s \in upReq[r].left
    /\ SetRow(upReq[r].job, s, Inserted(upRow[upReq[r].job][s]))
    /\ upReq' = [upReq EXCEPT ![r] = IF @.left = {s} THEN NoUpdate ELSE [@ EXCEPT !.left = upReq[r].left \ {s}]]
    /\ UNCHANGED <<upRows, upNodes, upLeft, upBounds>>

-----------------------------------------------------------------------------
\* handleCanaryApply: the step of one server.

\* The job and its release are read; the request's body, with its digest, is not.
CanaryStarts(r, j, s, sum) ==
    /\ UpCall /\ UpSlot(r) /\ upJob[j] # "none"
    /\ upReq' = [upReq EXCEPT ![r] = [NoUpdate EXCEPT !.at = "mark", !.job = j, !.srv = s,
                                        !.url = upRel[upJob[j]].url, !.sum = sum]]
    /\ UNCHANGED <<upRows, upRow, upNodes, upLeft, upEdits, upFaults>>

MarkApplying(r) ==
    /\ upReq[r].at = "mark" /\ SetRow(upReq[r].job, upReq[r].srv, "applying")
    /\ upReq' = [upReq EXCEPT ![r].at = "body"]
    /\ UNCHANGED <<upRows, upNodes, upLeft, upBounds>>

Settles(r, out) == upReq' = [upReq EXCEPT ![r].at = "settle", ![r].out = out]

\* The body has no digest, the input is refused, or the server is not known any more.
Refuse(r) ==
    /\ upReq[r].at = "body"
    /\ upReq[r].sum = "none" \/ upReq[r].url \in UpForeign \/ upReq[r].srv \notin upLive
    /\ Settles(r, "failed")
    /\ UNCHANGED <<upRows, upRow, upNodes, upLeft, upBounds>>

DispatchUpdate(r) ==
    /\ upReq[r].at = "body" /\ upReq[r].sum # "none" /\ upReq[r].url \notin UpForeign /\ upReq[r].srv \in upLive
    /\ upReq' = [upReq EXCEPT ![r].at = "sent"]
    /\ upOp' = [upOp EXCEPT ![r] = [NoUpdateOp EXCEPT !.at = "get", !.srv = upReq[r].srv, !.url = upReq[r].url,
                                                        !.sum = upReq[r].sum]]
    /\ UNCHANGED <<upRows, upRow, upWas, upLeft, upBounds>>

UpdateAnswered(r) ==
    /\ upReq[r].at = "sent" /\ upOp[r].at \in {"ok", "failed"}
    /\ Settles(r, IF upOp[r].at = "ok" THEN "done" ELSE "failed")
    /\ UNCHANGED <<upRows, upRow, upNodes, upLeft, upBounds>>

\* The call fails, whatever the node does or has done with it.
UpdateLost(r) ==
    /\ upReq[r].at = "sent" /\ UpFault /\ Settles(r, "failed")
    /\ UNCHANGED <<upRows, upRow, upNodes, upLeft, upEdits, upCalls>>

WriteOutcome(r) ==
    /\ upReq[r].at = "settle" /\ SetRow(upReq[r].job, upReq[r].srv, upReq[r].out)
    /\ upReq' = [upReq EXCEPT ![r] = NoUpdate]
    /\ UNCHANGED <<upRows, upNodes, upLeft, upBounds>>

\* Clients leave, the controller stops, or a write fails and its error is dropped.
RequestsEnd(gone) ==
    /\ UpFault /\ gone # {} /\ \A r \in gone : upReq[r] # NoUpdate
    /\ upReq' = [r \in UpRequests |-> IF r \in gone THEN NoUpdate ELSE upReq[r]]
    /\ upLeft' = upLeft \union {<<upReq[r].job, upReq[r].srv>> : r \in {g \in gone : upReq[g].at \in {"body", "sent", "settle"}}}
    /\ UNCHANGED <<upRows, upRow, upNodes, upEdits, upCalls>>

-----------------------------------------------------------------------------
\* The agent: UpdateNodeAgent.

\* The download is the artifact, or what the size limit left of it.
Download(r) ==
    /\ upOp[r].at = "get"
    /\ \E data \in {upOp[r].url, "cut"} : upOp' = [upOp EXCEPT ![r].at = "write", ![r].data = data]
    /\ UNCHANGED <<upRows, upRow, upReq, upWas, upLeft, upBounds>>

\* The digest is compared before anything is written, and the binary is replaced
\* by one rename of a file that is complete.
InstallBinary(r) ==
    /\ upOp[r].at = "write" /\ upOp[r].data = upOp[r].sum
    /\ upWas' = [upWas EXCEPT ![upOp[r].srv] = @ \union {[data |-> upOp[r].data, sum |-> upOp[r].sum]}]
    /\ upOp' = [upOp EXCEPT ![r].at = "ok"]
    /\ UNCHANGED <<upRows, upRow, upReq, upLeft, upBounds>>

\* The download, the comparison or a write of the temporary file fails.
UpdateFails(r) ==
    /\ upOp[r].at = "get" \/ (upOp[r].at = "write" /\ upOp[r].data # upOp[r].sum)
    /\ upOp' = [upOp EXCEPT ![r].at = "failed"]
    /\ UNCHANGED <<upRows, upRow, upReq, upWas, upLeft, upBounds>>

\* The agent ends with its operations, before or after the rename.
AgentDies(s) ==
    /\ UpFault /\ \E r \in UpRequests : upOp[r].srv = s
    /\ upOp' = [r \in UpRequests |-> IF upOp[r].srv = s THEN [upOp[r] EXCEPT !.at = "failed"] ELSE upOp[r]]
    /\ UNCHANGED <<upRows, upRow, upReq, upWas, upLeft, upEdits, upCalls>>

\* The reply is read, or nobody waits for it.
OpOver(r) ==
    /\ upOp[r].at \in {"ok", "failed"} /\ upReq[r].at # "sent"
    /\ upOp' = [upOp EXCEPT ![r] = NoUpdateOp]
    /\ UNCHANGED <<upRows, upRow, upReq, upWas, upLeft, upBounds>>

UpdateNext ==
    \/ \E v \in UpVersions :
        \/ Preflight(v) \/ \E url \in UpUrls : SyncRelease(v, url)
        \/ \E j \in UpJobs : ApplyRelease(j, v) \/ \E r \in UpRequests : FleetRollout(r, j, v)
    \/ \E r \in UpRequests :
        \/ \E s \in UpServers : InsertRow(r, s)
        \/ \E j \in UpJobs, s \in UpServers, sum \in UpUrls \union {"none"} : CanaryStarts(r, j, s, sum)
        \/ MarkApplying(r) \/ Refuse(r) \/ DispatchUpdate(r) \/ UpdateAnswered(r) \/ UpdateLost(r) \/ WriteOutcome(r)
        \/ Download(r) \/ InstallBinary(r) \/ UpdateFails(r) \/ OpOver(r)
    \/ \E gone \in SUBSET UpRequests : RequestsEnd(gone)
    \/ \E s \in UpServers : ServerDeleted(s) \/ AgentDies(s)

UpdateSpec == UpdateInit /\ [][UpdateNext]_updateVars

-----------------------------------------------------------------------------
\* What the rows of a rollout say is what happened (updates.go:355-387, 464-481;
\* update.go:62-110): a server is done only when an artifact of the job's
\* release was installed on it, whatever other steps of it failed, were
\* repeated or lost; only a step whose request ended early leaves a row
\* applying; a rollout that is still inserting its rows takes no server back to
\* pending that a step has begun on; and nothing is ever installed but a
\* complete artifact of the digest that was asked for.
CanaryTellsTruth ==
    /\ \A j \in UpJobs, s \in UpServers :
        LET steps == {r \in UpRequests : upReq[r].job = j /\ upReq[r].srv = s /\ upReq[r].at \in {"body", "sent", "settle"}}
        IN /\ upRow[j][s] = "done" => \E was \in upWas[s] : was.data \in upHad[upJob[j]]
           /\ upRow[j][s] = "applying" => steps # {} \/ <<j, s>> \in upLeft
           /\ steps # {} => upRow[j][s] \notin {"none", "pending"}
    /\ \A s \in UpServers : \A was \in upWas[s] : was.data = was.sum /\ was.data # "cut"
=============================================================================
