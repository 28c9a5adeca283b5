----------------------------- MODULE Enrollment -----------------------------
(***************************************************************************)
(* Node identities: internal/nodes (store.go, http.go, enroll_http.go,     *)
(* heartbeat_http.go) on the controller and internal/nodeagent (enroll.go, *)
(* state.go, heartbeat.go) on the hosts, with the constraints of           *)
(* migrations 0012 and 0013.                                               *)
(*                                                                         *)
(* A server, a request and a beat are numbers in the order of creation.  A *)
(* server has the one certificate that Redeem issues, so it also names it. *)
(* Redeem is two steps, because its first statement locks the token's row  *)
(* and the rest of the transaction runs under that lock.                   *)
(***************************************************************************)
EXTENDS Naturals

CONSTANTS
    Hosts,       \* machines with a state directory
    Names,       \* server names
    Deleters,    \* requests that delete a server
    MaxTokens,   \* bound: enrollment tokens
    MaxRequests, \* bound: enrollment requests
    MaxBeats,    \* bound: heartbeats
    MaxClock     \* bound: observation times of a heartbeat

ASSUME BoundsAssumption ==
    MaxTokens \in Nat /\ MaxRequests \in Nat /\ MaxBeats \in Nat /\ MaxClock \in Nat

Tokens == 1..MaxTokens
Requests == 1..MaxRequests
Servers == 1..MaxRequests
Beats == 1..MaxBeats
Times == 1..MaxClock
None == 0

VARIABLES
    token,     \* token[t]: the state its columns say
    for,       \* for[t]: node_name
    status,    \* status[s]
    name,      \* name[s]
    cert,      \* cert[s]: cert_status, and whether the certificate's row is revoked
    source,    \* source[s]: the token it was enrolled with
    seen,      \* seen[s]: last_seen_at
    rows,      \* rows[s]: observation times in node_heartbeats
    stage,     \* stage[q]: how far the controller is with a request
    asks,      \* asks[q]: the token a request presents
    by,        \* by[q]: the host it came from
    made,      \* made[q]: the server it created, or None
    step,      \* step[h]: how far the enroll command is
    req,       \* req[h]: the request it waits for
    identity,  \* identity[h]: node-identity.pem: the server it names, or None
    root,      \* hosts that have controller-ca.pem
    config,    \* config[h]: agent.json: the server it names, or None
    runs,      \* runs[h]: the server id in the running agent's state, or None
    presents,  \* presents[h]: the certificate in the running agent's state, or None
    beat,      \* beat[b]: how far the controller is with a heartbeat
    about,     \* about[b]: the server it is from and the time it was observed
    del,       \* del[d]: how far a delete request is
    target     \* target[d]: the server it deletes, or None

tokens == <<token, for>>
servers == <<status, name, cert, source>>
observed == <<seen, rows>>
requests == <<stage, asks, by, made>>
command == <<step, req>>
files == <<identity, root, config>>
agent == <<runs, presents>>
beats == <<beat, about>>
deletes == <<del, target>>
vars == <<tokens, servers, observed, requests, command, files, agent, beats, deletes>>

NoBeat == [cert |-> None, claims |-> None, at |-> None]

\* Migrations 0012 and 0013; no host is enrolled.
Init ==
    /\ token = [t \in Tokens |-> "absent"]
    /\ for = [t \in Tokens |-> None]
    /\ status = [s \in Servers |-> "absent"]
    /\ name = [s \in Servers |-> None]
    /\ cert = [s \in Servers |-> "none"]
    /\ source = [s \in Servers |-> None]
    /\ seen = [s \in Servers |-> None] /\ rows = [s \in Servers |-> {}]
    /\ stage = [q \in Requests |-> "none"]
    /\ asks = [q \in Requests |-> None] /\ by = [q \in Requests |-> None]
    /\ made = [q \in Requests |-> None]
    /\ step = [h \in Hosts |-> "idle"] /\ req = [h \in Hosts |-> None]
    /\ identity = [h \in Hosts |-> None] /\ root = {}
    /\ config = [h \in Hosts |-> None]
    /\ runs = [h \in Hosts |-> None] /\ presents = [h \in Hosts |-> None]
    /\ beat = [b \in Beats |-> "none"] /\ about = [b \in Beats |-> NoBeat]
    /\ del = [d \in Deleters |-> "idle"] /\ target = [d \in Deleters |-> None]

-----------------------------------------------------------------------------
(* Tokens *)

\* An open Redeem transaction holds the token's row.
Locked(t) == \E q \in Requests : stage[q] = "claimed" /\ asks[q] = t

CreateToken(t, n) ==
    /\ token[t] = "absent"
    /\ token' = [token EXCEPT ![t] = "live"]
    /\ for' = [for EXCEPT ![t] = n]
    /\ UNCHANGED <<servers, observed, requests, command, files, agent, beats, deletes>>

\* RevokeToken waits for the row, and then finds it unused or not.
RevokeToken(t) ==
    /\ token[t] = "live" /\ ~Locked(t)
    /\ token' = [token EXCEPT ![t] = "revoked"]
    /\ UNCHANGED <<for, servers, observed, requests, command, files, agent, beats, deletes>>

\* expires_at passes.  A transaction that has claimed the token goes on.
ExpireToken(t) ==
    /\ token[t] = "live"
    /\ token' = [token EXCEPT ![t] = "expired"]
    /\ UNCHANGED <<for, servers, observed, requests, command, files, agent, beats, deletes>>

-----------------------------------------------------------------------------
(* Redemption *)

\* jawaker-node-agent enroll: the command sends one request.  Nothing stops two
\* hosts, or one host twice, from presenting the same token, or a host from
\* enrolling again while its agent runs.
Enroll(h, q, t) ==
    /\ step[h] = "idle"
    /\ stage[q] = "none" /\ \A p \in Requests : p < q => stage[p] # "none"
    /\ token[t] # "absent"
    /\ stage' = [stage EXCEPT ![q] = "sent"]
    /\ asks' = [asks EXCEPT ![q] = t]
    /\ by' = [by EXCEPT ![q] = h]
    /\ step' = [step EXCEPT ![h] = "waiting"]
    /\ req' = [req EXCEPT ![h] = q]
    /\ UNCHANGED <<tokens, servers, observed, made, files, agent, beats, deletes>>

\* Mutant of Claimable: a check before the transaction instead of the row lock.
ClaimableUnlocked(t) == token[t] = "live"

\* The WHERE clause of the first statement; it waits for the row.
Claimable(t) == token[t] = "live" /\ ~Locked(t)

RedeemClaim(q) ==
    /\ stage[q] = "sent"
    /\ Claimable(asks[q])
    /\ stage' = [stage EXCEPT ![q] = "claimed"]
    /\ UNCHANGED <<tokens, servers, observed, asks, by, made, command, files, agent,
                   beats, deletes>>

\* servers_name_unique_idx.
NameFree(n) == \A s \in Servers : status[s] = "active" => name[s] # n

Spent == "used"

\* The server, its identity and its certificate are inserted with the token's name.
RedeemCommit(q, s) ==
    /\ stage[q] = "claimed"
    /\ NameFree(for[asks[q]])
    /\ status[s] = "absent" /\ \A p \in Servers : p < s => status[p] # "absent"
    /\ token' = [token EXCEPT ![asks[q]] = Spent]
    /\ status' = [status EXCEPT ![s] = "active"]
    /\ name' = [name EXCEPT ![s] = for[asks[q]]]
    /\ cert' = [cert EXCEPT ![s] = "active"]
    /\ source' = [source EXCEPT ![s] = asks[q]]
    /\ stage' = [stage EXCEPT ![q] = "committed"]
    /\ made' = [made EXCEPT ![q] = s]
    /\ UNCHANGED <<for, observed, asks, by, command, files, agent, beats, deletes>>

\* The rate limit, a token that is not valid, a name that is taken, a database
\* error or a client that has gone: an open transaction is rolled back.
RedeemRefuse(q) ==
    /\ stage[q] \in {"sent", "claimed"}
    /\ stage' = [stage EXCEPT ![q] = "refused"]
    /\ UNCHANGED <<tokens, servers, observed, asks, by, made, command, files, agent,
                   beats, deletes>>

-----------------------------------------------------------------------------
(* The host *)

\* The answer arrives, passes the checks, and SaveIdentity writes its first file.
WriteIdentity(h) ==
    /\ step[h] = "waiting" /\ stage[req[h]] = "committed"
    /\ identity' = [identity EXCEPT ![h] = made[req[h]]]
    /\ step' = [step EXCEPT ![h] = "identity"]
    /\ UNCHANGED <<tokens, servers, observed, requests, req, root, config, agent, beats,
                   deletes>>

\* SaveIdentity writes its second file.
WriteRoot(h) ==
    /\ step[h] = "identity"
    /\ root' = root \cup {h}
    /\ step' = [step EXCEPT ![h] = "root"]
    /\ UNCHANGED <<tokens, servers, observed, requests, req, identity, config, agent,
                   beats, deletes>>

\* SaveConfig, and the command ends.
WriteConfig(h) ==
    /\ step[h] = "root"
    /\ config' = [config EXCEPT ![h] = made[req[h]]]
    /\ step' = [step EXCEPT ![h] = "idle"]
    /\ UNCHANGED <<tokens, servers, observed, requests, req, identity, root, agent, beats,
                   deletes>>

\* The command ends early: a refusal, the client's timeout or a lost answer, a
\* file that cannot be written, or a crash of the host.
EnrollFails(h) ==
    /\ step[h] # "idle"
    /\ step' = [step EXCEPT ![h] = "idle"]
    /\ UNCHANGED <<tokens, servers, observed, requests, req, files, agent, beats, deletes>>

\* Mutant of Loads: the files need not agree.
LoadsAny(h) == config[h] # None /\ identity[h] # None /\ h \in root

\* LoadState: all three files, and a certificate for the configured server.
Loads(h) == /\ config[h] # None /\ identity[h] # None /\ h \in root
            /\ identity[h] = config[h]

\* jawaker-node-agent run.
StartAgent(h) ==
    /\ runs[h] = None /\ Loads(h)
    /\ runs' = [runs EXCEPT ![h] = config[h]]
    /\ presents' = [presents EXCEPT ![h] = identity[h]]
    /\ UNCHANGED <<tokens, servers, observed, requests, command, files, beats, deletes>>

\* The agent is stopped or dies, alone or with an enroll command on its host.
StopAgent(h) ==
    /\ runs[h] # None
    /\ runs' = [runs EXCEPT ![h] = None]
    /\ presents' = [presents EXCEPT ![h] = None]
    /\ UNCHANGED <<tokens, servers, observed, requests, command, files, beats, deletes>>

-----------------------------------------------------------------------------
(* Heartbeats *)

\* HeartbeatClient.Beat.  A beat that timed out at the agent may still be on its
\* way, and the host's clock may be set back.
Beat(h, b, o) ==
    /\ runs[h] # None
    /\ beat[b] = "none" /\ \A c \in Beats : c < b => beat[c] # "none"
    /\ beat' = [beat EXCEPT ![b] = "sent"]
    /\ about' = [about EXCEPT ![b] =
                    [cert |-> presents[h], claims |-> runs[h], at |-> o]]
    /\ UNCHANGED <<tokens, servers, observed, requests, command, files, agent, deletes>>

\* handleHeartbeat up to IsRevoked; a refused beat, or a lost one, is over.
CheckBeat(b) ==
    /\ beat[b] = "sent"
    /\ \/ /\ about[b].claims = about[b].cert
          /\ cert[about[b].cert] # "revoked"
          /\ beat' = [beat EXCEPT ![b] = "checked"]
       \/ beat' = [beat EXCEPT ![b] = "done"]
    /\ UNCHANGED <<tokens, servers, observed, requests, command, files, agent, about,
                   deletes>>

\* Mutant of Newer: the report's time as it is.
ReportedTime(s, o) == o

\* GREATEST(coalesce(last_seen_at, o), o).
Newer(s, o) == IF seen[s] > o THEN seen[s] ELSE o

\* Mutant of Recordable: the rollup does not look at deleted_at.
RecordableAny(s) == status[s] # "absent"

\* deleted_at IS NULL.
Recordable(s) == status[s] = "active"

\* RecordHeartbeat: the row and the rollup in one transaction, or nothing.
RecordBeat(b) ==
    /\ beat[b] = "checked"
    /\ beat' = [beat EXCEPT ![b] = "done"]
    /\ LET s == about[b].claims
           o == about[b].at
       IN  \/ /\ Recordable(s)
              /\ rows' = [rows EXCEPT ![s] = @ \cup {o}]
              /\ seen' = [seen EXCEPT ![s] = Newer(s, o)]
           \/ UNCHANGED observed
    /\ UNCHANGED <<tokens, servers, requests, command, files, agent, about, deletes>>

-----------------------------------------------------------------------------
(* Deletion *)

\* deleteServerAuthorized: read the server and its unrevoked certificate...
DeleteBegin(d, s) ==
    /\ del[d] = "idle" /\ status[s] = "active"
    /\ del' = [del EXCEPT ![d] = IF cert[s] = "active" THEN "revoke" ELSE "tombstone"]
    /\ target' = [target EXCEPT ![d] = s]
    /\ UNCHANGED <<tokens, servers, observed, requests, command, files, agent, beats>>

\* ...revoke that certificate, which ends the request if another one did...
RevokeCertificate(d) ==
    /\ del[d] = "revoke"
    /\ del' = [del EXCEPT ![d] = IF cert[target[d]] = "active" THEN "tombstone" ELSE "idle"]
    /\ cert' = [cert EXCEPT ![target[d]] = "revoked"]
    /\ UNCHANGED <<tokens, status, name, source, observed, requests, command, files,
                   agent, beats, target>>

\* ...and tombstone the server.
SetDeleted(d) ==
    /\ del[d] = "tombstone"
    /\ del' = [del EXCEPT ![d] = "idle"]
    /\ status' = [status EXCEPT ![target[d]] = "deleted"]
    /\ UNCHANGED <<tokens, name, cert, source, observed, requests, command, files, agent,
                   beats, target>>

\* Mutant of DeleteFails: the error of the revocation is only logged.
DeleteGoesOn(d) ==
    /\ del[d] # "idle"
    /\ del' = [del EXCEPT ![d] = IF @ = "revoke" THEN "tombstone" ELSE "idle"]
    /\ UNCHANGED <<tokens, servers, observed, requests, command, files, agent, beats, target>>

\* A database error, or a client that has gone, between two of its statements.
DeleteFails(d) ==
    /\ del[d] # "idle"
    /\ del' = [del EXCEPT ![d] = "idle"]
    /\ UNCHANGED <<tokens, servers, observed, requests, command, files, agent, beats, target>>

-----------------------------------------------------------------------------

Controller ==
    \/ \E t \in Tokens : (\E n \in Names : CreateToken(t, n)) \/ RevokeToken(t) \/ ExpireToken(t)
    \/ \E q \in Requests : RedeemClaim(q) \/ RedeemRefuse(q)
    \/ \E q \in Requests, s \in Servers : RedeemCommit(q, s)
    \/ \E b \in Beats : CheckBeat(b) \/ RecordBeat(b)
    \/ \E d \in Deleters : \/ \E s \in Servers : DeleteBegin(d, s)
                           \/ RevokeCertificate(d) \/ SetDeleted(d) \/ DeleteFails(d)

Host ==
    \E h \in Hosts :
        \/ \E q \in Requests, t \in Tokens : Enroll(h, q, t)
        \/ WriteIdentity(h) \/ WriteRoot(h) \/ WriteConfig(h) \/ EnrollFails(h)
        \/ StartAgent(h) \/ StopAgent(h)
        \/ \E b \in Beats, o \in Times : Beat(h, b, o)

Next == Controller \/ Host

Spec == Init /\ [][Next]_vars

-----------------------------------------------------------------------------
(* Properties *)

\* Every row, file and message has its type.
TypeOK ==
    /\ token \in [Tokens -> {"absent", "live", "used", "revoked", "expired"}]
    /\ for \in [Tokens -> Names \cup {None}]
    /\ status \in [Servers -> {"absent", "active", "deleted"}]
    /\ name \in [Servers -> Names \cup {None}]
    /\ cert \in [Servers -> {"none", "active", "revoked"}]
    /\ source \in [Servers -> Tokens \cup {None}]
    /\ seen \in [Servers -> Times \cup {None}]
    /\ rows \in [Servers -> SUBSET Times]
    /\ stage \in [Requests -> {"none", "sent", "claimed", "committed", "refused"}]
    /\ asks \in [Requests -> Tokens \cup {None}]
    /\ by \in [Requests -> Hosts \cup {None}]
    /\ made \in [Requests -> Servers \cup {None}]
    /\ step \in [Hosts -> {"idle", "waiting", "identity", "root"}]
    /\ req \in [Hosts -> Requests \cup {None}]
    /\ identity \in [Hosts -> Servers \cup {None}]
    /\ root \subseteq Hosts
    /\ config \in [Hosts -> Servers \cup {None}]
    /\ runs \in [Hosts -> Servers \cup {None}]
    /\ presents \in [Hosts -> Servers \cup {None}]
    /\ beat \in [Beats -> {"none", "sent", "checked", "done"}]
    /\ about \in [Beats -> [cert : Servers \cup {None}, claims : Servers \cup {None},
                            at : Times \cup {None}]]
    /\ del \in [Deleters -> {"idle", "revoke", "tombstone"}]
    /\ target \in [Deleters -> Servers \cup {None}]

\* Redemption is all or nothing and happens once: a spent token has paid for one
\* server, and a server was paid for by a spent token, whatever the number of
\* requests that present it at the same time (Redeem).
TokenBuysOneServer ==
    /\ \A r, s \in Servers : status[r] # "absent" /\ status[s] # "absent"
                                /\ source[r] = source[s] => r = s
    /\ \A t \in Tokens : token[t] = "used" <=>
                            \E s \in Servers : status[s] # "absent" /\ source[s] = t

\* Two servers in service never have one name, although requests with two tokens
\* for it may be in their transactions together (servers_name_unique_idx).
LiveNamesUnique ==
    \A r, s \in Servers : status[r] = "active" /\ status[s] = "active"
                             /\ name[r] = name[s] => r = s

\* Tokens are spent soundly: each buys one server, and what they buy has a name of
\* its own (Redeem and servers_name_unique_idx).
TokensSound == TypeOK /\ TokenBuysOneServer /\ LiveNamesUnique

\* A server that is gone is not trusted: whichever way concurrent delete requests
\* interleave and fail, a tombstoned server's certificate is revoked, and a server
\* in service has had one (deleteServerAuthorized).
DeletedIsRevoked ==
    \A s \in Servers : /\ status[s] = "deleted" => cert[s] = "revoked"
                       /\ status[s] = "active" => cert[s] # "none"

\* A running agent authenticates as the server its configuration names, that
\* server was created for this host's own request, and no other host runs as it:
\* an enrollment that stopped between two files is never started (LoadState).
AgentIsOneServer ==
    /\ \A h \in Hosts : runs[h] # None =>
            /\ presents[h] = runs[h]
            /\ \E q \in Requests : by[q] = h /\ made[q] = runs[h]
    /\ \A g, h \in Hosts : runs[g] # None /\ runs[g] = runs[h] => g = h

\* last_seen_at is the newest of the recorded observations, in whatever order
\* they arrive (RecordHeartbeat).
LastSeenIsNewest ==
    \A s \in Servers : IF rows[s] = {} THEN seen[s] = None
                       ELSE seen[s] \in rows[s] /\ \A o \in rows[s] : o <= seen[s]

\* A tombstone is final: no delete request, redemption or late heartbeat brings
\* the server back, and no heartbeat is recorded for it, not even one that passed
\* its checks before the deletion (SetStatus, RecordHeartbeat).
TombstoneIsFinal ==
    [][\A s \in Servers : status[s] = "deleted" =>
          status'[s] = "deleted" /\ rows'[s] = rows[s] /\ cert'[s] = "revoked"]_vars
=============================================================================
