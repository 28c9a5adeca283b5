-------------------------------- MODULE Wire --------------------------------
(***************************************************************************)
(* One call of a node's operation: the typed functions of the dispatcher   *)
(* (nodes/dispatch.go), the envelope and the registry (nodewire), and the  *)
(* agent that decodes, admits, runs and answers (nodeagent/server.go).     *)
(* Hosts keep their address when they are enrolled again, so a server's    *)
(* recorded address may belong to another server by now.                   *)
(***************************************************************************)
EXTENDS Naturals, FiniteSets

CONSTANTS
    WrServers,     \* server ids; a host listens under the identity of one of them
    WrCalls,       \* calls that the controller makes at the same time
    WrOps,         \* the operations that are called, of Registered
    WrLimit,       \* maxConcurrentOperations of an agent
    MaxWrMoves,    \* bound: a host is enrolled again, as another server
    MaxWrFaults    \* bound: lost connections and replies, failed lookups, restarts of an agent

ASSUME WireAssumption == IsFiniteSet(WrCalls) /\ WrLimit \in Nat

-----------------------------------------------------------------------------
\* The registry: operations whose descriptor lists services in its scope ...
UnitScope == {"inspect", "restart"}
WebScope == {"webapply"}
DockerScope == {"lifecycle"}
BanScope == {"ban", "unban", "waf"}
Scoped == UnitScope \union WebScope \union DockerScope \union BanScope

\* ... and those whose descriptor lists none.
NodeOps == {"capabilities", "metrics"}
WebOps == {"webvalidate", "logs"}
AppOps == {"deploy"}
DataOps == {"manage", "dump", "restoredump", "dbmetrics", "upgrade"}
FileOps == {"archive", "unarchive"}
ContainerOps == {"containers", "container", "containerlogs"}
NetOps == {"firewall", "ports", "diag"}
SecOps == {"scan", "ssh", "bans"}
UpdateOps == {"updateagent", "nodejs", "nodejsstatus"}
Registered == UNION {Scoped, NodeOps, WebOps, AppOps, DataOps, FileOps, ContainerOps, NetOps,
                     SecOps, UpdateOps}

\* Operations whose input can be refused: there is a rule for it.
UnitInput == {"inspect", "restart"}
WebInput == {"webvalidate", "webapply"}
LogInput == {"logs"}
AppInput == {"deploy"}
NodejsInput == {"nodejs", "nodejsstatus"}
DataInput == {"manage", "dump", "restoredump"}
ClusterInput == {"dbmetrics", "upgrade"}
FileInput == FileOps
ContainerInput == {"container", "containerlogs", "lifecycle"}
NetInput == NetOps
SecInput == {"scan", "bans"}
BanInput == {"ban", "unban", "waf"}
UpdateInput == {"updateagent"}
Ruled == UNION {UnitInput, WebInput, LogInput, AppInput, NodejsInput, DataInput, ClusterInput,
                FileInput, ContainerInput, NetInput, SecInput, BanInput, UpdateInput}

\* The dispatcher's functions that apply the rule before they call ...
SiteChecks == {"logs"}
AppChecks == {"deploy"}
DataChecks == DataOps
FileChecks == FileOps
ContainerChecks == ContainerInput
NetChecks == NetOps
SecChecks == SecInput \union BanInput
UpdateChecks == {"updateagent", "nodejs", "nodejsstatus"}
Checked == UNION {SiteChecks, AppChecks, DataChecks, FileChecks, ContainerChecks, NetChecks,
                  SecChecks, UpdateChecks}

\* ... and those that send a target.  EncodeRequest and DecodeRequest want one
\* exactly when the scope has services.
Targeted == {"inspect", "restart", "webapply", "container"}
TargetFits(op) == op \in Scoped <=> op \in Targeted

\* What an agent serves whatever is installed on its host.
ToolFree == UNION {NodeOps, {"logs"}, NetOps, SecOps, BanScope, {"updateagent"}}

-----------------------------------------------------------------------------
VARIABLES
    wrHost,     \* wrHost[h]: the server whose identity the agent at address h has
    wrTools,    \* wrTools[h]: whether the host has the tools of the tool operations
    wrCall,     \* wrCall[c]: a call, and the outcome its caller sees
    wrOp,       \* wrOp[c]: what the agent does with the call's request
    wrRan,      \* wrRan[c]: the servers on which the operation took effect
    wrMoves, wrFaults

wireVars == <<wrHost, wrTools, wrCall, wrOp, wrRan, wrMoves, wrFaults>>

\* A server is recorded under the address it was enrolled from: that of its name.
NoCall == [at |-> "idle", op |-> "none", srv |-> 0, valid |-> TRUE, out |-> "none"]
\* at: "none", "running", "reply"; code: what the reply says; named: whether it
\* carries the call's request id; due: the deadline has passed.
NoOp == [at |-> "none", code |-> "none", named |-> TRUE, due |-> FALSE]

WireInit ==
    /\ wrHost = [h \in WrServers |-> h] /\ wrTools \in [WrServers -> BOOLEAN]
    /\ wrCall = [c \in WrCalls |-> NoCall] /\ wrOp = [c \in WrCalls |-> NoOp]
    /\ wrRan = [c \in WrCalls |-> {}]
    /\ wrMoves = 0 /\ wrFaults = 0

WrFault == wrFaults < MaxWrFaults /\ wrFaults' = wrFaults + 1
wrHosts == <<wrHost, wrTools, wrMoves>>

Outcome(c, out) == wrCall' = [wrCall EXCEPT ![c].at = "settled", ![c].out = out]
Reply(c, code, named) == wrOp' = [wrOp EXCEPT ![c].at = "reply", ![c].code = code, ![c].named = named]

-----------------------------------------------------------------------------
\* The dispatcher.

\* Call.  Whatever can be known locally is refused before a connection is opened.
Call(c, op, s, valid) ==
    LET call == [at |-> "sent", op |-> op, srv |-> s, valid |-> valid, out |-> "none"]
        local == (op \in Checked /\ ~valid) \/ ~TargetFits(op)
    IN /\ wrCall[c] = NoCall /\ op \in Registered /\ (op \notin Ruled => valid)
       /\ wrCall' = [wrCall EXCEPT ![c] = IF local THEN [call EXCEPT !.at = "settled", !.out = "invalid"] ELSE call]
       /\ UNCHANGED <<wrHosts, wrOp, wrRan, wrFaults>>

\* The lookup, the dial or the write of the request fails.
NotSent(c) ==
    /\ wrCall[c].at = "sent" /\ wrOp[c].at = "none"
    /\ WrFault /\ Outcome(c, "unsent")
    /\ UNCHANGED <<wrHosts, wrOp, wrRan>>

\* post stops waiting after the client's timeout, whatever the descriptor's is;
\* the request may still arrive, and the agent goes on.
GiveUp(c) ==
    /\ wrCall[c].at = "sent"
    /\ WrFault /\ Outcome(c, "lost")
    /\ UNCHANGED <<wrHosts, wrOp, wrRan>>

\* Any node's answer is taken.
PeerIsAnyNode(c) == TRUE

\* checkPeerIdentity: the answering agent has to be the server that was dialed.
\* The address is the server's own, the identity that of whoever is there now.
PeerIsServer(c) == wrHost[wrCall[c].srv] = wrCall[c].srv

\* decodeReply: a reply without the call's request id is not used, and a
\* failure is reported with the node's code.
ReadReply(c) ==
    /\ wrCall[c].at = "sent" /\ wrOp[c].at = "reply"
    /\ Outcome(c, IF ~PeerIsServer(c) THEN "foreign"
                  ELSE IF ~wrOp[c].named THEN "unmatched" ELSE wrOp[c].code)
    /\ UNCHANGED <<wrHosts, wrOp, wrRan, wrFaults>>

\* The caller has its outcome and the agent is done with the request.
CallOver(c) ==
    /\ wrCall[c].at = "settled" /\ wrOp[c].at # "running"
    /\ wrCall' = [wrCall EXCEPT ![c] = NoCall] /\ wrOp' = [wrOp EXCEPT ![c] = NoOp]
    /\ wrRan' = [wrRan EXCEPT ![c] = {}]
    /\ UNCHANGED <<wrHosts, wrFaults>>

-----------------------------------------------------------------------------
\* The agent.

\* The requests that the host at address h runs.
Running(h) == {c \in WrCalls : wrCall[c].srv = h /\ wrOp[c].at = "running"}

\* servedOperations, computed when the agent starts.
Serves(h, op) == op \in ToolFree \/ wrTools[h]

Arrives(c) == (wrCall[c].at = "sent" \/ wrCall[c].out = "lost") /\ wrOp[c].at = "none"

\* A refusal before the request is decoded names neither operation nor request.
RefuseUnserved(c) ==
    /\ Arrives(c) /\ ~Serves(wrCall[c].srv, wrCall[c].op)
    /\ Reply(c, "unsupported", FALSE)
    /\ UNCHANGED <<wrHosts, wrCall, wrRan, wrFaults>>

Admitted(c) == Cardinality(Running(wrCall[c].srv)) < WrLimit

RefuseBusy(c) ==
    /\ Arrives(c) /\ Serves(wrCall[c].srv, wrCall[c].op) /\ ~Admitted(c)
    /\ Reply(c, "busy", TRUE)
    /\ UNCHANGED <<wrHosts, wrCall, wrRan, wrFaults>>

RefuseLate(c) ==
    /\ Arrives(c) /\ Serves(wrCall[c].srv, wrCall[c].op) /\ Admitted(c) /\ wrOp[c].due
    /\ Reply(c, "late", TRUE)
    /\ UNCHANGED <<wrHosts, wrCall, wrRan, wrFaults>>

\* DecodeInput and Validate, before the executor is called.
RefuseInput(c) ==
    /\ Arrives(c) /\ Serves(wrCall[c].srv, wrCall[c].op) /\ Admitted(c) /\ ~wrOp[c].due /\ ~wrCall[c].valid
    /\ Reply(c, "badinput", TRUE)
    /\ UNCHANGED <<wrHosts, wrCall, wrRan, wrFaults>>

Start(c) ==
    /\ Arrives(c) /\ Serves(wrCall[c].srv, wrCall[c].op) /\ Admitted(c) /\ ~wrOp[c].due /\ wrCall[c].valid
    /\ wrOp' = [wrOp EXCEPT ![c].at = "running"]
    /\ UNCHANGED <<wrHosts, wrCall, wrRan, wrFaults>>

\* The executor returns: done, or an error with or without an effect before it.
Execute(c, code, effect) ==
    /\ wrOp[c].at = "running" /\ (code = "ok" => effect)
    /\ Reply(c, code, TRUE)
    /\ wrRan' = [wrRan EXCEPT ![c] = IF effect THEN {wrHost[wrCall[c].srv]} ELSE @]
    /\ UNCHANGED <<wrHosts, wrCall, wrFaults>>

DeadlinePasses(c) ==
    /\ wrCall[c].at = "sent" /\ wrOp[c].at = "none" /\ ~wrOp[c].due
    /\ wrOp' = [wrOp EXCEPT ![c].due = TRUE]
    /\ UNCHANGED <<wrHosts, wrCall, wrRan, wrFaults>>

\* The agent's process ends with its requests, and the next one may find other tools.
AgentRestarts(h) ==
    /\ WrFault /\ \E t \in BOOLEAN : wrTools' = [wrTools EXCEPT ![h] = t]
    /\ LET gone == {c \in WrCalls : wrCall[c].srv = h /\ wrOp[c].at # "none"}
       IN /\ wrCall' = [c \in WrCalls |-> IF c \in gone /\ wrCall[c].at = "sent"
                                          THEN [wrCall[c] EXCEPT !.at = "settled", !.out = "lost"] ELSE wrCall[c]]
          /\ \E hit \in SUBSET Running(h) :
                wrRan' = [c \in WrCalls |-> IF c \in hit THEN {wrHost[h]} ELSE wrRan[c]]
          /\ wrOp' = [c \in WrCalls |-> IF c \in gone THEN [NoOp EXCEPT !.at = "reply"] ELSE wrOp[c]]
    /\ UNCHANGED <<wrHost, wrMoves>>

\* The host at h is enrolled again under another id; the record of its first
\* server keeps the address.
HostMoves(h, s) ==
    /\ wrMoves < MaxWrMoves /\ wrMoves' = wrMoves + 1
    /\ s # wrHost[h] /\ Running(h) = {} /\ \A c \in WrCalls : wrCall[c].srv # h \/ wrOp[c].at = "none"
    /\ wrHost' = [wrHost EXCEPT ![h] = s]
    /\ UNCHANGED <<wrTools, wrCall, wrOp, wrRan, wrFaults>>

WireNext ==
    \/ \E c \in WrCalls, op \in WrOps, s \in WrServers, valid \in BOOLEAN : Call(c, op, s, valid)
    \/ \E c \in WrCalls :
        \/ NotSent(c) \/ GiveUp(c) \/ ReadReply(c) \/ CallOver(c)
        \/ RefuseUnserved(c) \/ RefuseBusy(c) \/ RefuseLate(c) \/ RefuseInput(c)
        \/ Start(c) \/ DeadlinePasses(c)
        \/ \E code \in {"ok", "failed"}, effect \in BOOLEAN : Execute(c, code, effect)
    \/ \E h \in WrServers : AgentRestarts(h) \/ \E s \in WrServers : HostMoves(h, s)

WireSpec == WireInit /\ [][WireNext]_wireVars

-----------------------------------------------------------------------------
\* What a caller is told is what happened (dispatch.go:238, 297; server.go:395):
\* a success means that the operation took effect on the server it named and
\* nowhere else, a refusal that it took effect nowhere, whatever was lost,
\* late, restarted or enrolled again meanwhile; only an unknown outcome, an
\* execution failure or a foreign peer leaves it open.
OutcomeIsTrue ==
    \A c \in WrCalls :
        /\ wrCall[c].out = "ok" => wrRan[c] = {wrCall[c].srv}
        /\ wrCall[c].out \in {"invalid", "unsent", "unmatched", "busy", "late", "badinput"} => wrRan[c] = {}
        /\ wrOp[c].at = "running" => Cardinality(Running(wrCall[c].srv)) <= WrLimit

\* The dispatcher does not refuse a valid call because of its target: the
\* registry says of container.inspect that the name "must match the envelope
\* target", and the functions for containers, bans and the WAF exist to be
\* called (registry.go:516, dispatch.go:714-962).
ValidCallIsSent ==
    \A c \in WrCalls : wrCall[c].valid => wrCall[c].out # "invalid"
=============================================================================
