---------------------------- MODULE FleetProofs -----------------------------
(***************************************************************************)
(* The controller and the hosts: calls to the agents, pools that are       *)
(* probed, alerts that are evaluated, and the people who sign in to see to *)
(* them.                                                                   *)
(***************************************************************************)
EXTENDS Wire, Pools, Alerts, Sessions, FiniteSetTheorems, TLAPS

-----------------------------------------------------------------------------
(***************************************************************************)
(* Wire: OutcomeIsTrue for any calls and servers and any limit. A call,    *)
(* the agent's record of it and the servers it took effect on stay in step *)
(* (WireSound) although the host may become another server's at any time.  *)
(***************************************************************************)

WireCodes == {"none", "unsupported", "busy", "late", "badinput", "ok", "failed"}
WireCalls == [at : {"idle", "sent", "settled"}, op : Registered \cup {"none"}, srv : WrServers \cup {0},
              valid : BOOLEAN, out : WireCodes \cup {"invalid", "unsent", "unmatched", "foreign", "lost"}]
WireOps == [at : {"none", "running", "reply"}, code : WireCodes, named : BOOLEAN, due : BOOLEAN]

\* A call, the agent's record of it and the servers it took effect on.  Nothing has
\* happened before the executor returns; a reply that is not from an executor, and
\* one that names no request, is of a request that had no effect; a success is of
\* an effect on the server whose identity the host has; and an outcome says so.
WireSound(call, op, ran) ==
    /\ call.at = "idle" => call = NoCall /\ op = NoOp
    /\ call.at = "sent" => call.out = "none" /\ call.srv \in WrServers
    /\ call.at = "settled" => call.srv \in WrServers
    /\ op.at \in {"none", "running"} => ran = {}
    /\ op.at = "reply" /\ (~op.named \/ op.code \in {"unsupported", "busy", "late", "badinput"}) => ran = {}
    /\ op.at = "reply" /\ op.code = "ok" => ran = {wrHost[call.srv]}
    /\ call.out \in {"invalid", "unsent"} => call.at = "settled" /\ op.at = "none"
    /\ call.out = "ok" => call.at = "settled" /\ op.at = "reply" /\ ran = {call.srv}
    /\ call.out \in {"unmatched", "busy", "late", "badinput"} => call.at = "settled" /\ op.at = "reply" /\ ran = {}

WireTyped ==
    /\ wrHost \in [WrServers -> WrServers] /\ wrCall \in [WrCalls -> WireCalls]
    /\ wrOp \in [WrCalls -> WireOps] /\ wrRan \in [WrCalls -> SUBSET WrServers]

WireInv ==
    /\ WireTyped
    /\ \A c \in WrCalls : WireSound(wrCall[c], wrOp[c], wrRan[c])
    /\ \A h \in WrServers : Cardinality(Running(h)) <= WrLimit

USE WireAssumption

LEMMA InvOutcome == WireInv => OutcomeIsTrue
<1> SUFFICES ASSUME WireInv, NEW c \in WrCalls
             PROVE  /\ wrCall[c].out = "ok" => wrRan[c] = {wrCall[c].srv}
                    /\ wrCall[c].out \in {"invalid", "unsent", "unmatched", "busy", "late", "badinput"} => wrRan[c] = {}
                    /\ wrOp[c].at = "running" => Cardinality(Running(wrCall[c].srv)) <= WrLimit
  BY DEF OutcomeIsTrue
<1>1. WireSound(wrCall[c], wrOp[c], wrRan[c]) /\ wrCall[c] \in WireCalls
  BY DEF WireInv, WireTyped
<1>2. wrOp[c].at = "running" => wrCall[c].srv \in WrServers
  BY <1>1 DEF WireSound, WireCalls, NoOp
<1> QED BY <1>1, <1>2 DEF WireSound, WireInv

LEMMA RunningFinite == \A h : IsFiniteSet(Running(h))
<1>1. \A h : Running(h) \subseteq WrCalls
  BY DEF Running
<1> QED BY <1>1, FS_Subset

LEMMA WireNone == NoCall \in WireCalls /\ NoOp \in WireOps
BY DEF NoCall, WireCalls, NoOp, WireOps, WireCodes

LEMMA WireInitInv == WireInit => WireInv
<1> SUFFICES ASSUME WireInit PROVE WireInv
  OBVIOUS
<1>1. WireTyped
  BY WireNone DEF WireInit, WireTyped
<1>2. \A c \in WrCalls : WireSound(wrCall[c], wrOp[c], wrRan[c])
  BY DEF WireInit, WireSound, NoCall, NoOp
<1>3. \A h \in WrServers : Running(h) = {}
  BY DEF WireInit, Running, NoOp
<1> QED BY <1>1, <1>2, <1>3, FS_EmptySet DEF WireInv

\* No request begins to run.
NoneStarts == \A c \in WrCalls : wrOp'[c].at = "running" => wrOp[c].at = "running" /\ wrCall'[c].srv = wrCall[c].srv

LEMMA RunningKept ==
  ASSUME WireInv, NoneStarts
  PROVE  \A h \in WrServers : Cardinality(Running(h))' <= WrLimit
<1> SUFFICES ASSUME NEW h \in WrServers PROVE Cardinality(Running(h)') <= WrLimit
  OBVIOUS
<1>1. Running(h)' \subseteq Running(h)
  BY DEF Running, NoneStarts
<1>2. Cardinality(Running(h)') <= Cardinality(Running(h)) /\ IsFiniteSet(Running(h)')
  BY <1>1, RunningFinite, FS_Subset
<1>3. Cardinality(Running(h)) \in Nat /\ Cardinality(Running(h)') \in Nat
  BY <1>2, RunningFinite, FS_CardinalityType
<1>4. Cardinality(Running(h)) <= WrLimit
  BY DEF WireInv
<1> QED BY <1>2, <1>3, <1>4

\* A step of one call and its request.
OnlyCall(c, call, op, ran) ==
    /\ wrCall' = [wrCall EXCEPT ![c] = call] /\ wrOp' = [wrOp EXCEPT ![c] = op]
    /\ wrRan' = [wrRan EXCEPT ![c] = ran] /\ wrHost' = wrHost

LEMMA OnlyCallSound ==
  ASSUME WireInv, NEW c \in WrCalls, NEW call \in WireCalls, NEW op \in WireOps, NEW ran \in SUBSET WrServers,
         OnlyCall(c, call, op, ran), WireSound(call, op, ran)
  PROVE  /\ WireTyped'
         /\ \A d \in WrCalls : WireSound(wrCall[d], wrOp[d], wrRan[d])'
         /\ \A d \in WrCalls : /\ wrCall'[d] = IF d = c THEN call ELSE wrCall[d]
                               /\ wrOp'[d] = IF d = c THEN op ELSE wrOp[d]
<1>1. /\ \A d \in WrCalls : wrCall'[d] = IF d = c THEN call ELSE wrCall[d]
      /\ \A d \in WrCalls : wrOp'[d] = IF d = c THEN op ELSE wrOp[d]
      /\ \A d \in WrCalls : wrRan'[d] = IF d = c THEN ran ELSE wrRan[d]
  BY DEF WireInv, WireTyped, OnlyCall
<1>2. WireTyped'
  BY DEF WireInv, WireTyped, OnlyCall
<1>3. ASSUME NEW d \in WrCalls PROVE WireSound(wrCall[d], wrOp[d], wrRan[d])'
  <2>1. CASE d = c
    BY <1>1, <2>1 DEF WireSound, OnlyCall
  <2>2. CASE d # c
    <3>1. WireSound(wrCall[d], wrOp[d], wrRan[d]) /\ wrHost' = wrHost
      BY DEF WireInv, OnlyCall
    <3> QED BY <1>1, <2>2, <3>1 DEF WireSound
  <2> QED BY <2>1, <2>2
<1> QED BY <1>1, <1>2, <1>3

LEMMA OneCall ==
  ASSUME WireInv, NEW c \in WrCalls, NEW call \in WireCalls, NEW op \in WireOps, NEW ran \in SUBSET WrServers,
         OnlyCall(c, call, op, ran), WireSound(call, op, ran),
         op.at = "running" => wrOp[c].at = "running" /\ call.srv = wrCall[c].srv
  PROVE  WireInv'
<1>1. NoneStarts
  BY OnlyCallSound DEF NoneStarts
<1> QED BY <1>1, OnlyCallSound, RunningKept DEF WireInv

LEMMA CallFacts ==
  ASSUME WireInv, NEW c \in WrCalls
  PROVE  /\ WireSound(wrCall[c], wrOp[c], wrRan[c]) /\ WireTyped
         /\ wrCall[c] \in WireCalls /\ wrOp[c] \in WireOps /\ wrRan[c] \in SUBSET WrServers
BY DEF WireInv, WireTyped

LEMMA CallInv ==
  ASSUME WireInv, NEW c \in WrCalls, NEW op, NEW s \in WrServers, NEW valid \in BOOLEAN, Call(c, op, s, valid)
  PROVE  WireInv'
<1>1. WireSound(wrCall[c], wrOp[c], wrRan[c]) /\ WireTyped /\ wrCall[c] = NoCall
  BY CallFacts DEF Call
<1>2. wrOp[c] = NoOp /\ wrRan[c] = {}
  BY <1>1 DEF WireSound, NoCall, NoOp
<1>3. PICK call \in WireCalls : /\ wrCall' = [wrCall EXCEPT ![c] = call] /\ call.srv = s
                                /\ \/ call.at = "sent" /\ call.out = "none"
                                   \/ call.at = "settled" /\ call.out = "invalid"
  <2> DEFINE sent == [at |-> "sent", op |-> op, srv |-> s, valid |-> valid, out |-> "none"]
             refused == [sent EXCEPT !.at = "settled", !.out = "invalid"]
  <2>1. op \in Registered /\ (wrCall' = [wrCall EXCEPT ![c] = refused] \/ wrCall' = [wrCall EXCEPT ![c] = sent])
    BY DEF Call
  <2>2. sent \in WireCalls /\ refused \in WireCalls
    BY <2>1 DEF WireCalls, WireCodes
  <2> QED BY <2>1, <2>2
<1>4. OnlyCall(c, call, NoOp, {})
  BY <1>1, <1>2, <1>3 DEF OnlyCall, Call, wrHosts, WireTyped
<1>5. WireSound(call, NoOp, {})
  BY <1>3 DEF WireSound, NoOp
<1> QED BY <1>4, <1>5, OneCall, WireNone DEF NoOp

\* The caller has its outcome, and the request is as it was.
LEMMA OutcomeInv ==
  ASSUME WireInv, NEW c \in WrCalls, NEW out \in WireCodes \cup {"unsent", "unmatched", "foreign", "lost"},
         wrCall[c].at = "sent", Outcome(c, out), UNCHANGED <<wrHost, wrOp, wrRan>>,
         WireSound([wrCall[c] EXCEPT !.at = "settled", !.out = out], wrOp[c], wrRan[c])
  PROVE  WireInv'
<1> DEFINE call == [wrCall[c] EXCEPT !.at = "settled", !.out = out]
<1>1. WireTyped /\ wrCall[c] \in WireCalls /\ wrOp[c] \in WireOps /\ wrRan[c] \in SUBSET WrServers
  BY CallFacts
<1>2. call \in WireCalls /\ call.srv = wrCall[c].srv /\ wrCall' = [wrCall EXCEPT ![c] = call]
  BY <1>1 DEF WireCalls, Outcome, WireTyped
<1> HIDE DEF call
<1>3. OnlyCall(c, call, wrOp[c], wrRan[c])
  BY <1>1, <1>2 DEF OnlyCall, WireTyped
<1>4. WireSound(call, wrOp[c], wrRan[c])
  BY DEF call
<1> QED BY <1>1, <1>2, <1>3, <1>4, OneCall

LEMMA OutcomesInv ==
  ASSUME WireInv, NEW c \in WrCalls, NotSent(c) \/ GiveUp(c) \/ ReadReply(c)
  PROVE  WireInv'
<1> DEFINE call(out) == [wrCall[c] EXCEPT !.at = "settled", !.out = out]
<1>1. WireSound(wrCall[c], wrOp[c], wrRan[c]) /\ wrCall[c] \in WireCalls /\ wrOp[c] \in WireOps /\ wrCall[c].at = "sent"
  BY CallFacts DEF NotSent, GiveUp, ReadReply
<1>2. \A out : call(out).at = "settled" /\ call(out).out = out /\ call(out).srv = wrCall[c].srv /\ wrCall[c].srv \in WrServers
  BY <1>1 DEF WireCalls, WireSound
<1> HIDE DEF call
<1>3. CASE NotSent(c)
  <2>1. WireSound(call("unsent"), wrOp[c], wrRan[c])
    BY <1>1, <1>2, <1>3 DEF WireSound, NotSent
  <2> QED BY <1>1, <1>3, <2>1, OutcomeInv DEF NotSent, wrHosts, call
<1>4. CASE GiveUp(c)
  <2>1. WireSound(call("lost"), wrOp[c], wrRan[c])
    BY <1>1, <1>2 DEF WireSound
  <2> QED BY <1>1, <1>4, <2>1, OutcomeInv DEF GiveUp, wrHosts, call
<1>5. CASE ReadReply(c)
  <2>1. PICK out \in WireCodes \cup {"unmatched", "foreign"} :
          /\ Outcome(c, out) /\ (out \notin {"unmatched", "foreign"} => out = wrOp[c].code /\ PeerIsServer(c) /\ wrOp[c].named)
          /\ out = "unmatched" => ~wrOp[c].named
    <3>1. CASE ~PeerIsServer(c)
      BY <1>5, <3>1 DEF ReadReply
    <3>2. CASE PeerIsServer(c) /\ ~wrOp[c].named
      BY <1>5, <3>2 DEF ReadReply
    <3>3. CASE PeerIsServer(c) /\ wrOp[c].named
      <4>1. Outcome(c, wrOp[c].code) /\ wrOp[c].code \in WireCodes /\ wrOp[c].code \notin {"unmatched", "foreign"}
        BY <1>1, <1>5, <3>3 DEF ReadReply, WireOps, WireCodes
      <4> QED BY <3>3, <4>1
    <3> QED BY <3>1, <3>2, <3>3
  <2>2. WireSound(call(out), wrOp[c], wrRan[c])
    BY <1>1, <1>2, <1>5, <2>1 DEF WireSound, ReadReply, PeerIsServer, WireCodes, WireOps
  <2> QED BY <1>1, <1>5, <2>1, <2>2, OutcomeInv DEF ReadReply, wrHosts, call
<1> QED BY <1>3, <1>4, <1>5

LEMMA CallOverInv ==
  ASSUME WireInv, NEW c \in WrCalls, CallOver(c)
  PROVE  WireInv'
<1>1. OnlyCall(c, NoCall, NoOp, {})
  BY DEF OnlyCall, CallOver, wrHosts
<1>2. WireSound(NoCall, NoOp, {}) /\ NoOp.at = "none"
  BY DEF WireSound, NoCall, NoOp
<1> QED BY <1>1, <1>2, OneCall, WireNone

\* The agent answers, and the request has had the effect ran.
LEMMA ReplyInv ==
  ASSUME WireInv, NEW c \in WrCalls, NEW code \in WireCodes, NEW named \in BOOLEAN, NEW ran \in SUBSET WrServers,
         Reply(c, code, named), wrRan' = [wrRan EXCEPT ![c] = ran], UNCHANGED <<wrHost, wrCall>>,
         WireSound(wrCall[c], [wrOp[c] EXCEPT !.at = "reply", !.code = code, !.named = named], ran)
  PROVE  WireInv'
<1> DEFINE op == [wrOp[c] EXCEPT !.at = "reply", !.code = code, !.named = named]
<1>1. WireTyped /\ wrCall[c] \in WireCalls /\ wrOp[c] \in WireOps
  BY CallFacts
<1>2. op \in WireOps /\ op.at = "reply" /\ wrOp' = [wrOp EXCEPT ![c] = op]
  BY <1>1 DEF WireOps, Reply, WireTyped
<1> HIDE DEF op
<1>3. OnlyCall(c, wrCall[c], op, ran)
  BY <1>1, <1>2 DEF OnlyCall, WireTyped
<1>4. WireSound(wrCall[c], op, ran)
  BY DEF op
<1> QED BY <1>1, <1>2, <1>3, <1>4, OneCall

LEMMA RefusalInv ==
  ASSUME WireInv, NEW c \in WrCalls, RefuseUnserved(c) \/ RefuseBusy(c) \/ RefuseLate(c) \/ RefuseInput(c)
  PROVE  WireInv'
<1> USE DEF RefuseUnserved, RefuseBusy, RefuseLate, RefuseInput
<1>1. WireSound(wrCall[c], wrOp[c], wrRan[c]) /\ wrCall[c] \in WireCalls /\ wrOp[c] \in WireOps /\ Arrives(c) /\ WireTyped
  BY CallFacts
<1>2. PICK code \in {"unsupported", "busy", "late", "badinput"}, named \in BOOLEAN : Reply(c, code, named)
  OBVIOUS
<1> DEFINE op == [wrOp[c] EXCEPT !.at = "reply", !.code = code, !.named = named]
<1>3. op.at = "reply" /\ op.code = code /\ op.named = named
  BY <1>1 DEF WireOps
<1> HIDE DEF op
<1>4. WireSound(wrCall[c], op, {})
  BY <1>1, <1>3 DEF WireSound, Arrives, NoCall
<1>5. wrRan[c] = {} /\ wrRan' = wrRan /\ UNCHANGED <<wrHost, wrCall>>
  BY <1>1 DEF WireSound, Arrives, wrHosts
<1>6. wrRan' = [wrRan EXCEPT ![c] = {}]
  BY <1>1, <1>5 DEF WireTyped
<1>7. code \in WireCodes
  BY DEF WireCodes
<1> HIDE DEF RefuseUnserved, RefuseBusy, RefuseLate, RefuseInput
<1> QED BY <1>2, <1>4, <1>5, <1>6, <1>7, ReplyInv DEF op

LEMMA ExecuteInv ==
  ASSUME WireInv, NEW c \in WrCalls, NEW code \in {"ok", "failed"}, NEW effect \in BOOLEAN, Execute(c, code, effect)
  PROVE  WireInv'
<1>1. WireSound(wrCall[c], wrOp[c], wrRan[c]) /\ wrCall[c] \in WireCalls /\ wrOp[c] \in WireOps /\ WireTyped
  BY CallFacts
<1>2. wrOp[c].at = "running" /\ wrRan[c] = {} /\ wrCall[c].srv \in WrServers /\ wrHost[wrCall[c].srv] \in WrServers
      /\ wrCall[c].at \in {"sent", "settled"}
  BY <1>1 DEF Execute, WireSound, WireTyped, NoOp, WireCalls
<1> DEFINE op == [wrOp[c] EXCEPT !.at = "reply", !.code = code, !.named = TRUE]
<1>3. PICK ran \in SUBSET WrServers : ran = IF effect THEN {wrHost[wrCall[c].srv]} ELSE {}
  BY <1>2
<1>4. op.at = "reply" /\ op.code = code /\ op.named = TRUE
  BY <1>1 DEF WireOps
<1> HIDE DEF op
<1>5. WireSound(wrCall[c], op, ran)
  BY <1>1, <1>2, <1>3, <1>4 DEF WireSound, Execute
<1>6. Reply(c, code, TRUE) /\ wrRan' = [wrRan EXCEPT ![c] = ran] /\ UNCHANGED <<wrHost, wrCall>>
  BY <1>2, <1>3 DEF Execute, wrHosts
<1>7. code \in WireCodes
  BY DEF WireCodes
<1> QED BY <1>5, <1>6, <1>7, ReplyInv DEF op

LEMMA DeadlineInv ==
  ASSUME WireInv, NEW c \in WrCalls, DeadlinePasses(c)
  PROVE  WireInv'
<1>1. WireSound(wrCall[c], wrOp[c], wrRan[c]) /\ wrCall[c] \in WireCalls /\ wrOp[c] \in WireOps /\ WireTyped
      /\ wrRan[c] \in SUBSET WrServers
  BY CallFacts
<1> DEFINE op == [wrOp[c] EXCEPT !.due = TRUE]
<1>2. op \in WireOps /\ op.at = wrOp[c].at /\ op.at = "none"
  BY <1>1 DEF WireOps, DeadlinePasses
<1>3. OnlyCall(c, wrCall[c], op, wrRan[c])
  BY <1>1 DEF OnlyCall, DeadlinePasses, wrHosts, WireTyped
<1> HIDE DEF op
<1>4. WireSound(wrCall[c], op, wrRan[c])
  BY <1>1, <1>2 DEF WireSound, DeadlinePasses
<1> QED BY <1>1, <1>2, <1>3, <1>4, OneCall

\* The agent admits a request only below its limit.
LEMMA StartInv ==
  ASSUME WireInv, NEW c \in WrCalls, Start(c)
  PROVE  WireInv'
<1>1. WireSound(wrCall[c], wrOp[c], wrRan[c]) /\ wrCall[c] \in WireCalls /\ wrOp[c] \in WireOps /\ WireTyped
      /\ wrRan[c] \in SUBSET WrServers
  BY CallFacts
<1> DEFINE op == [wrOp[c] EXCEPT !.at = "running"]
<1>2. op \in WireOps /\ op.at = "running"
  BY <1>1 DEF WireOps
<1>3. OnlyCall(c, wrCall[c], op, wrRan[c])
  BY <1>1 DEF OnlyCall, Start, wrHosts, WireTyped
<1> HIDE DEF op
<1>4. WireSound(wrCall[c], op, wrRan[c])
  BY <1>1, <1>2 DEF WireSound, Start, Arrives, NoCall
<1>5. /\ WireTyped' /\ \A d \in WrCalls : WireSound(wrCall[d], wrOp[d], wrRan[d])'
      /\ \A d \in WrCalls : wrCall'[d] = wrCall[d] /\ wrOp'[d] = IF d = c THEN op ELSE wrOp[d]
  BY <1>1, <1>2, <1>3, <1>4, OnlyCallSound
<1>6. ASSUME NEW h \in WrServers PROVE Cardinality(Running(h)') <= WrLimit
  <2>1. CASE h = wrCall[c].srv
    <3>1. Running(h)' \subseteq Running(h) \cup {c}
      BY <1>5 DEF Running
    <3>2. IsFiniteSet(Running(h)) /\ Cardinality(Running(h)) \in Nat /\ Cardinality(Running(h)) < WrLimit
      BY <2>1, RunningFinite, FS_CardinalityType DEF Start, Admitted
    <3>3. IsFiniteSet(Running(h) \cup {c}) /\ Cardinality(Running(h) \cup {c}) <= Cardinality(Running(h)) + 1
          /\ Cardinality(Running(h) \cup {c}) \in Nat
      <4> DEFINE R == Running(h)
      <4> HIDE DEF R
      <4>1. IsFiniteSet(R) /\ Cardinality(R) \in Nat
        BY <3>2 DEF R
      <4>2. IsFiniteSet(R \cup {c}) /\ Cardinality(R \cup {c}) = IF c \in R THEN Cardinality(R) ELSE Cardinality(R) + 1
        BY <4>1, FS_AddElement
      <4>3. Cardinality(R \cup {c}) \in Nat /\ Cardinality(R \cup {c}) <= Cardinality(R) + 1
        BY <4>1, <4>2
      <4> QED BY <4>2, <4>3 DEF R
    <3>4. Cardinality(Running(h)') <= Cardinality(Running(h) \cup {c}) /\ Cardinality(Running(h)') \in Nat
      BY <3>1, <3>3, FS_Subset, FS_CardinalityType
    <3> QED BY <3>2, <3>3, <3>4
  <2>2. CASE h # wrCall[c].srv
    <3>1. Running(h)' = Running(h)
      BY <1>5, <2>2 DEF Running
    <3> QED BY <3>1 DEF WireInv
  <2> QED BY <2>1, <2>2
<1> QED BY <1>5, <1>6 DEF WireInv

LEMMA AgentRestartsInv ==
  ASSUME WireInv, NEW h \in WrServers, AgentRestarts(h)
  PROVE  WireInv'
<1> DEFINE gone == {c \in WrCalls : wrCall[c].srv = h /\ wrOp[c].at # "none"}
           lost(c) == [wrCall[c] EXCEPT !.at = "settled", !.out = "lost"]
           ended == [NoOp EXCEPT !.at = "reply"]
<1>1. PICK hit \in SUBSET Running(h) : wrRan' = [c \in WrCalls |-> IF c \in hit THEN {wrHost[h]} ELSE wrRan[c]]
  BY DEF AgentRestarts
<1>2. /\ wrCall' = [c \in WrCalls |-> IF c \in gone /\ wrCall[c].at = "sent" THEN lost(c) ELSE wrCall[c]]
      /\ wrOp' = [c \in WrCalls |-> IF c \in gone THEN ended ELSE wrOp[c]] /\ wrHost' = wrHost
  BY DEF AgentRestarts
<1>3. ended \in WireOps /\ ended.at = "reply" /\ ended.code = "none" /\ ended.named = TRUE
  BY DEF WireOps, WireCodes, NoOp
<1>4. \A c \in WrCalls : lost(c) \in WireCalls /\ lost(c).at = "settled" /\ lost(c).out = "lost" /\ lost(c).srv = wrCall[c].srv
  <2> SUFFICES ASSUME NEW c \in WrCalls
               PROVE  lost(c) \in WireCalls /\ lost(c).at = "settled" /\ lost(c).out = "lost" /\ lost(c).srv = wrCall[c].srv
    OBVIOUS
  <2>1. wrCall[c] \in WireCalls
    BY CallFacts
  <2> QED BY <2>1 DEF WireCalls
<1>5. \A c : c \in hit => c \in gone /\ wrOp[c].at = "running" /\ wrCall[c].srv = h
  BY DEF Running
<1>6. \A c : c \in gone <=> c \in WrCalls /\ wrCall[c].srv = h /\ wrOp[c].at # "none"
  OBVIOUS
<1> HIDE DEF gone, lost, ended
<1>7. WireTyped'
  BY <1>1, <1>2, <1>3, <1>4 DEF WireInv, WireTyped
<1>8. ASSUME NEW c \in WrCalls PROVE WireSound(wrCall[c], wrOp[c], wrRan[c])'
  <2>1. WireSound(wrCall[c], wrOp[c], wrRan[c]) /\ wrCall[c] \in WireCalls
    BY CallFacts
  <2>2. CASE c \in gone
    <3>1. wrOp'[c] = ended /\ wrRan'[c] = IF c \in hit THEN {wrHost[h]} ELSE wrRan[c]
      BY <1>1, <1>2, <2>2
    <3>2. wrCall[c].at # "idle"
      BY <1>6, <2>1, <2>2 DEF WireSound, NoOp
    <3>3. CASE wrCall[c].at = "sent"
      <4>1. wrCall'[c] = lost(c) /\ wrCall[c].srv \in WrServers
        BY <1>2, <2>1, <2>2, <3>3 DEF WireSound
      <4> QED BY <1>3, <1>4, <2>1, <3>1, <4>1 DEF WireSound
    <3>4. CASE wrCall[c].at # "sent"
      <4>1. wrCall'[c] = wrCall[c]
        BY <1>2, <3>4
      <4>2. c \in hit => wrOp[c].at = "running"
        BY <1>5
      <4>3. wrOp[c].at # "none"
        BY <1>6, <2>2
      <4> QED BY <1>2, <1>3, <2>1, <3>1, <3>2, <4>1, <4>2, <4>3 DEF WireSound
    <3> QED BY <3>3, <3>4
  <2>3. CASE c \notin gone
    <3>1. wrCall'[c] = wrCall[c] /\ wrOp'[c] = wrOp[c] /\ wrRan'[c] = wrRan[c]
      BY <1>1, <1>2, <1>5, <2>3
    <3> QED BY <1>2, <2>1, <3>1 DEF WireSound
  <2> QED BY <2>2, <2>3
<1>9. NoneStarts
  BY <1>2, <1>3, <1>4 DEF NoneStarts
<1> QED BY <1>7, <1>8, <1>9, RunningKept DEF WireInv

LEMMA HostMovesInv ==
  ASSUME WireInv, NEW h \in WrServers, NEW s \in WrServers, HostMoves(h, s)
  PROVE  WireInv'
<1>1. WireTyped' /\ UNCHANGED <<wrCall, wrOp, wrRan>> /\ \A k \in WrServers : k # h => wrHost'[k] = wrHost[k]
  BY DEF WireInv, WireTyped, HostMoves
<1>2. ASSUME NEW c \in WrCalls PROVE WireSound(wrCall[c], wrOp[c], wrRan[c])'
  <2>1. WireSound(wrCall[c], wrOp[c], wrRan[c]) /\ wrCall[c] \in WireCalls /\ wrOp[c] \in WireOps
    BY CallFacts
  <2>2. wrOp[c].at = "reply" => wrCall[c].srv \in WrServers /\ wrHost'[wrCall[c].srv] = wrHost[wrCall[c].srv]
    BY <1>1, <2>1 DEF HostMoves, WireSound, NoOp, WireCalls
  <2> QED BY <1>1, <2>1, <2>2 DEF WireSound
<1>3. NoneStarts
  BY <1>1 DEF NoneStarts
<1> QED BY <1>1, <1>2, <1>3, RunningKept DEF WireInv

LEMMA WireStep == WireInv /\ [WireNext]_wireVars => WireInv'
<1> SUFFICES ASSUME WireInv, [WireNext]_wireVars PROVE WireInv'
  OBVIOUS
<1>1. CASE WireNext
  BY <1>1, CallInv, OutcomesInv, CallOverInv, RefusalInv, ExecuteInv, DeadlineInv, StartInv,
     AgentRestartsInv, HostMovesInv DEF WireNext
<1>2. CASE UNCHANGED wireVars
  <2>1. UNCHANGED <<wrHost, wrCall, wrOp, wrRan>> /\ NoneStarts
    BY <1>2 DEF wireVars, NoneStarts
  <2>2. \A c \in WrCalls : WireSound(wrCall[c], wrOp[c], wrRan[c])'
    BY <2>1 DEF WireSound, WireInv
  <2>3. WireTyped'
    BY <2>1 DEF WireTyped, WireInv
  <2> QED BY <2>1, <2>2, <2>3, RunningKept DEF WireInv
<1> QED BY <1>1, <1>2

\* What a caller is told is what happened (dispatch.go:236-320,
\* nodeagent/server.go:347-420): a success means that the operation took effect on the
\* server it named and nowhere else, a refusal that it took effect nowhere, for any
\* calls and servers, whatever was lost, late, restarted or enrolled again meanwhile;
\* and an agent runs no more operations than its limit.
THEOREM OutcomesCorrect == WireSpec => []OutcomeIsTrue
<1>1. WireSpec => []WireInv
  BY WireInitInv, WireStep, PTL DEF WireSpec
<1> QED BY <1>1, InvOutcome, PTL

HIDE WireAssumption

-----------------------------------------------------------------------------
(***************************************************************************)
(* Pools: PassTellsTruth for any pool. A pass that nothing has disturbed   *)
(* has, at each of its steps, counted the members it has seen and left     *)
(* their rows right (PassSound).                                           *)
(***************************************************************************)

HaPools == [state : {"none", "deleted", "healthy", "degraded", "failed"}, min : {0, 1, 2}]
HaRows == [server : HaServers \cup {"none"}, state : {"none", "active", "failed", "removed"}]
HaListed == [id : HaMemberIds, row : HaRows]
HaWorkers == [at : {"idle", "members", "probe", "write"}, pool : HaPools, todo : SUBSET HaListed, listed : Nat,
              healthy : Nat, id : HaMemberIds \cup {"none"}, was : {"none"}, to : {"none", "active", "failed"}]

\* No member is ever drained, and a pool that exists wants at least one host.
PoolTyped ==
    /\ haPool \in HaPools /\ (PoolExists => haPool.min >= 1)
    /\ haMembers \in [HaMemberIds -> HaRows] /\ haWorker \in HaWorkers /\ haHostUp \subseteq HaServers
    /\ haSettled \in BOOLEAN

\* The member is not to be probed any more in this pass.
Seen(m) == \A x \in haWorker.todo : x.id # m
RightState(m) == IF haMembers[m].server \in haHostUp THEN "active" ELSE "failed"

\* A pass that nothing disturbed: what it has read is what the rows say, it has counted
\* the hosts that answer among the members it has seen, and their rows are right but for
\* the one it is about to write.
PassSound ==
    /\ haWorker.pool = haPool /\ PoolExists /\ (haWorker.at = "members" => haWorker.healthy = 0)
    /\ haWorker.at \in {"probe", "write"} =>
        /\ haWorker.listed = Cardinality(Members)
        /\ \A x \in haWorker.todo : x.id \in Members /\ x.row = haMembers[x.id]
        /\ haWorker.healthy = Cardinality({m \in Answering : Seen(m)})
        /\ \A m \in Members : Seen(m) /\ ~(haWorker.at = "write" /\ haWorker.id = m) => haMembers[m].state = RightState(m)
    /\ haWorker.at = "write" => /\ haWorker.id \in Members /\ Seen(haWorker.id)
                                /\ haWorker.to = RightState(haWorker.id)

PoolInv ==
    /\ PoolTyped
    /\ haSettled /\ haWorker.at # "idle" => PassSound
    /\ PassTellsTruth

USE PoolAssumption

LEMMA MembersFinite == IsFiniteSet(Members) /\ \A S : S \subseteq Members => IsFiniteSet(S) /\ Cardinality(S) \in Nat
<1>1. Members \subseteq HaMemberIds
  BY DEF Members
<1> QED BY <1>1, FS_Subset, FS_CardinalityType

LEMMA IdleTyped == WorkerIdle \in HaWorkers /\ WorkerIdle.at = "idle"
BY DEF WorkerIdle, HaWorkers, HaPools, HaListed

LEMMA PoolInitInv == PoolInit => PoolInv
<1> SUFFICES ASSUME PoolInit PROVE PoolInv
  OBVIOUS
<1>1. PoolTyped
  BY IdleTyped DEF PoolInit, PoolTyped, HaPools, HaRows, NoMember, PoolExists
<1> QED BY <1>1 DEF PoolInit, PoolInv, PassTellsTruth

\* A step that disturbs the pass, or that changes nothing a pass reads.
LEMMA Unsettled == ASSUME PoolTyped', haSettled' = FALSE PROVE PoolInv'
BY DEF PoolInv, PassTellsTruth

LEMMA Untouched ==
  ASSUME PoolInv, UNCHANGED <<haPool, haMembers, haHostUp, haWorker, haSettled>>
  PROVE  PoolInv'
<1>1. UNCHANGED <<PoolExists, Members, Answering>> /\ (\A m : Seen(m)' <=> Seen(m)) /\ \A m : RightState(m)' = RightState(m)
  BY DEF PoolExists, Members, Answering, Seen, RightState
<1>2. PoolTyped'
  BY <1>1 DEF PoolInv, PoolTyped
<1>3. PassSound => PassSound'
  BY <1>1 DEF PassSound
<1>4. PassTellsTruth'
  BY <1>1 DEF PoolInv, PassTellsTruth
<1> QED BY <1>2, <1>3, <1>4 DEF PoolInv

-----------------------------------------------------------------------------
\* Handlers.

LEMMA CreatePoolInv == ASSUME PoolInv, CreatePool PROVE PoolInv'
<1>1. PICK min \in {1, 2} : haPool' = [state |-> "healthy", min |-> min]
  BY DEF CreatePool, InsertPool
<1>2. haPool' \in HaPools /\ haPool'.min >= 1
  BY <1>1 DEF HaPools
<1>3. PoolTyped'
  BY <1>2 DEF PoolInv, PoolTyped, CreatePool, Unsettles
<1> QED BY <1>3, Unsettled DEF CreatePool, Unsettles

LEMMA RemovedTyped == \A m \in HaMemberIds : haMembers[m] \in HaRows => [haMembers[m] EXCEPT !.state = "removed"] \in HaRows
BY DEF HaRows

LEMMA DeletePoolInv == ASSUME PoolInv, DeletePool PROVE PoolInv'
<1>1. haMembers' \in [HaMemberIds -> HaRows]
  BY RemovedTyped DEF PoolInv, PoolTyped, DeletePool, RemovePool
<1>2. PoolTyped'
  BY <1>1 DEF PoolInv, PoolTyped, DeletePool, RemovePool, HaPools, PoolExists, Unsettles
<1> QED BY <1>2, Unsettled DEF DeletePool, Unsettles

LEMMA MembersEditedInv ==
  ASSUME PoolInv, NEW id \in HaMemberIds, RemoveMember(id) \/ (\E s \in HaServers : AddMember(id, s))
  PROVE  PoolInv'
<1>1. haMembers' \in [HaMemberIds -> HaRows]
  <2>1. CASE RemoveMember(id)
    BY <2>1, RemovedTyped DEF PoolInv, PoolTyped, RemoveMember, HaRows
  <2>2. CASE \E s \in HaServers : AddMember(id, s)
    BY <2>2 DEF PoolInv, PoolTyped, AddMember, InsertMember, HaRows
  <2> QED BY <2>1, <2>2
<1>2. UNCHANGED <<haPool, haHostUp, haWorker>> /\ haSettled' = FALSE
  BY DEF RemoveMember, AddMember, Unsettles
<1>3. PoolTyped'
  BY <1>1, <1>2 DEF PoolInv, PoolTyped, PoolExists
<1> QED BY <1>2, <1>3, Unsettled

\* handleStartDrain names a server, and no member has that id.
LEMMA StartDrainInv == ASSUME PoolInv, NEW d \in HaRequests, NEW s \in HaServers, StartDrain(d, s) PROVE PoolInv'
<1>1. haMembers' = haMembers
  BY DEF PoolInv, PoolTyped, StartDrain, SetMember
<1>2. PoolTyped'
  BY <1>1 DEF PoolInv, PoolTyped, StartDrain, Unsettles, PoolExists
<1> QED BY <1>2, Unsettled DEF StartDrain, Unsettles

LEMMA HostTurnsInv == ASSUME PoolInv, NEW s \in HaServers, HostTurns(s) PROVE PoolInv'
<1>1. PoolTyped'
  BY DEF PoolInv, PoolTyped, HostTurns, Unsettles, PoolExists
<1> QED BY <1>1, Unsettled DEF HostTurns, Unsettles

LEMMA OtherRowsInv ==
  ASSUME PoolInv, SetQuorum \/ (\E d \in HaRequests : CancelDrain(d) \/ CreateDrill(d) \/ CompleteDrill(d))
  PROVE  PoolInv'
BY Untouched DEF SetQuorum, CancelDrain, CreateDrill, CompleteDrill

-----------------------------------------------------------------------------
\* The worker.

LEMMA FailuresInv == ASSUME PoolInv, StatementLost \/ WorkerRestarts PROVE PoolInv'
<1>1. haWorker' = WorkerIdle \/ haWorker' = [haWorker EXCEPT !.at = "probe", !.id = "none", !.to = "none"]
  BY DEF StatementLost, WorkerRestarts
<1>2. haWorker' \in HaWorkers
  BY <1>1, IdleTyped DEF PoolInv, PoolTyped, HaWorkers
<1>3. UNCHANGED <<haPool, haMembers, haHostUp>> /\ haSettled' = FALSE
  BY DEF StatementLost, WorkerRestarts, Pass, Unsettles
<1>4. PoolTyped'
  BY <1>2, <1>3 DEF PoolInv, PoolTyped, PoolExists
<1> QED BY <1>3, <1>4, Unsettled

LEMMA PassStartsInv == ASSUME PoolInv, PassStarts PROVE PoolInv'
<1>1. haWorker' = [WorkerIdle EXCEPT !.at = "members", !.pool = haPool] /\ haSettled' = TRUE
      /\ PoolExists /\ UNCHANGED <<haPool, haMembers, haHostUp>>
  BY DEF PassStarts, Pass
<1>2. haWorker' \in HaWorkers /\ haWorker'.at = "members" /\ haWorker'.pool = haPool
      /\ haWorker'.healthy = 0
  BY <1>1, IdleTyped DEF PoolInv, PoolTyped, HaWorkers, WorkerIdle
<1>3. PoolTyped' /\ PoolExists'
  BY <1>1, <1>2 DEF PoolInv, PoolTyped, PoolExists
<1>4. PassSound'
  BY <1>1, <1>2, <1>3 DEF PassSound
<1> QED BY <1>2, <1>3, <1>4 DEF PoolInv, PassTellsTruth

LEMMA ListMembersInv == ASSUME PoolInv, ListMembers PROVE PoolInv'
<1> DEFINE list == {[id |-> m, row |-> haMembers[m]] : m \in Members}
<1>1. /\ haWorker' = [haWorker EXCEPT !.at = "probe", !.listed = Cardinality(Members), !.todo = list]
      /\ UNCHANGED <<haPool, haMembers, haHostUp, haSettled>> /\ haWorker.at = "members"
  BY DEF ListMembers, Pass
<1>2. list \in SUBSET HaListed /\ Cardinality(Members) \in Nat
  BY MembersFinite DEF PoolInv, PoolTyped, HaListed, Members
<1>3. \A x \in list : x.id \in Members /\ x.row = haMembers[x.id]
  OBVIOUS
<1>4. \A m \in Members : \E x \in list : x.id = m
  <2> SUFFICES ASSUME NEW m \in Members PROVE \E x \in list : x.id = m
    OBVIOUS
  <2>1. [id |-> m, row |-> haMembers[m]] \in list /\ [id |-> m, row |-> haMembers[m]].id = m
    OBVIOUS
  <2> QED BY <2>1
<1> HIDE DEF list
<1>5. /\ haWorker' \in HaWorkers /\ haWorker'.at = "probe" /\ haWorker'.listed = Cardinality(Members) /\ haWorker'.todo = list
      /\ haWorker'.pool = haWorker.pool /\ haWorker'.healthy = haWorker.healthy
  BY <1>1, <1>2 DEF PoolInv, PoolTyped, HaWorkers
<1>6. PoolTyped' /\ UNCHANGED <<PoolExists, Members, Answering>>
  BY <1>1, <1>5 DEF PoolInv, PoolTyped, PoolExists, Members, Answering
<1>7. ASSUME haSettled PROVE PassSound'
  <2>1. PassSound
    BY <1>1, <1>7 DEF PoolInv
  <2>2. \A m \in Members : ~Seen(m)'
    BY <1>4, <1>5 DEF Seen
  <2>3. {m \in Answering : Seen(m)'} = {}
    BY <2>2 DEF Answering
  <2>4. haWorker'.healthy = Cardinality({m \in Answering : Seen(m)'})
    BY <1>1, <1>5, <2>1, <2>3, FS_EmptySet DEF PassSound
  <2>5. haWorker'.pool = haPool' /\ PoolExists'
    BY <1>1, <1>5, <1>6, <2>1 DEF PassSound
  <2> QED BY <1>1, <1>3, <1>5, <1>6, <2>2, <2>4, <2>5 DEF PassSound
<1> QED BY <1>1, <1>5, <1>6, <1>7 DEF PoolInv, PassTellsTruth

\* What an undisturbed probe finds out, and what it leaves to be written.
LEMMA ProbedMember ==
  ASSUME PoolInv, haSettled, haWorker.at = "probe", NEW x \in haWorker.todo
  PROVE  /\ x.id \in Members /\ x.row = haMembers[x.id] /\ ~Seen(x.id) /\ PassSound
         /\ x.row.server = haMembers[x.id].server /\ x.row.state = haMembers[x.id].state
         /\ x.row.state \notin {"drained", "draining"}
<1>1. PassSound
  BY DEF PoolInv
<1>2. x.id \in Members /\ x.row = haMembers[x.id] /\ ~Seen(x.id)
  BY <1>1 DEF PassSound, Seen
<1>3. haMembers[x.id] \in HaRows
  BY <1>2 DEF PoolInv, PoolTyped, Members
<1> QED BY <1>1, <1>2, <1>3 DEF HaRows

LEMMA ProbeMemberInv ==
  ASSUME PoolInv, NEW x \in haWorker.todo, NEW reachable \in BOOLEAN, ProbeMember(x, reachable)
  PROVE  PoolInv'
<1> DEFINE skipped == x.row.state \in {"drained", "draining"}
           state == IF reachable THEN "active" ELSE "failed"
           writes == ~skipped /\ state # x.row.state
           counted == ~skipped /\ reachable
           todo == haWorker.todo \ {x}
           healthy == IF counted THEN haWorker.healthy + 1 ELSE haWorker.healthy
<1>1. /\ haWorker' = [haWorker EXCEPT !.todo = todo, !.healthy = healthy,
                          !.at = IF writes THEN "write" ELSE @,
                          !.id = IF writes THEN x.id ELSE @, !.to = IF writes THEN state ELSE @]
      /\ haWorker.at = "probe" /\ UNCHANGED <<haPool, haMembers, haHostUp>>
  BY DEF ProbeMember, Counts, Pass
<1>2. haWorker \in HaWorkers /\ x \in HaListed /\ haWorker.healthy \in Nat
  BY DEF PoolInv, PoolTyped, HaWorkers
<1>3. /\ haWorker' \in HaWorkers /\ haWorker'.todo = todo /\ haWorker'.healthy = healthy
      /\ haWorker'.at = (IF writes THEN "write" ELSE "probe")
      /\ writes => haWorker'.id = x.id /\ haWorker'.to = state
      /\ haWorker'.pool = haWorker.pool /\ haWorker'.listed = haWorker.listed
  <2>1. todo \in SUBSET HaListed /\ healthy \in Nat /\ x.id \in HaMemberIds /\ state \in {"active", "failed"}
    BY <1>2 DEF HaWorkers, HaListed
  <2> HIDE DEF todo, healthy, writes, state
  <2> QED BY <1>1, <1>2, <2>1 DEF HaWorkers
<1>4. haSettled' = FALSE \/ (haSettled' = haSettled /\ (reachable <=> x.row.server \in haHostUp))
  BY DEF ProbeMember, Unsettles
<1>5. PoolTyped'
  BY <1>1, <1>3, <1>4 DEF PoolInv, PoolTyped, PoolExists
<1>6. ASSUME haSettled, haSettled', reachable <=> x.row.server \in haHostUp PROVE PassSound'
  <2>1. /\ x.id \in Members /\ x.row = haMembers[x.id] /\ ~Seen(x.id) /\ PassSound /\ ~skipped
        /\ x.row.server = haMembers[x.id].server /\ x.row.state = haMembers[x.id].state
    BY <1>1, <1>6, ProbedMember
  <2>2. state = RightState(x.id)
    BY <1>6, <2>1 DEF RightState
  <2>3. UNCHANGED <<Members, Answering, PoolExists>> /\ \A m : RightState(m)' = RightState(m)
    BY <1>1 DEF Members, Answering, PoolExists, RightState
  <2>4. \A m : Seen(m)' <=> Seen(m) \/ m = x.id
    <3>1. \A y \in haWorker.todo : y.id = x.id => y = x
      BY <1>1, <1>2, <2>1 DEF PassSound, HaListed, HaWorkers
    <3> QED BY <1>3, <2>1, <3>1 DEF Seen
  <2>5. haWorker'.healthy = Cardinality({m \in Answering : Seen(m)'})
    <3> DEFINE S == {m \in Answering : Seen(m)}
    <3>1. IsFiniteSet(S) /\ Cardinality(S) = haWorker.healthy /\ x.id \notin S
      BY <1>1, <2>1, MembersFinite DEF PassSound, Answering
    <3>2. CASE reachable
      <4>1. {m \in Answering : Seen(m)'} = S \cup {x.id}
        BY <1>6, <2>1, <2>4, <3>2 DEF Answering
      <4>2. Cardinality(S \cup {x.id}) = Cardinality(S) + 1
        <5> HIDE DEF S
        <5> QED BY <3>1, FS_AddElement
      <4> QED BY <1>3, <2>1, <3>1, <3>2, <4>1, <4>2
    <3>3. CASE ~reachable
      <4>1. {m \in Answering : Seen(m)'} = S
        BY <1>6, <2>1, <2>4, <3>3 DEF Answering
      <4> QED BY <1>3, <3>1, <3>3, <4>1
    <3> QED BY <3>2, <3>3
  <2>6. \A y \in haWorker'.todo : y.id \in Members /\ y.row = haMembers[y.id]
    BY <1>1, <1>3, <2>1 DEF PassSound
  <2>7. \A m \in Members : Seen(m)' /\ ~(haWorker'.at = "write" /\ haWorker'.id = m) => haMembers[m].state = RightState(m)
    <3> SUFFICES ASSUME NEW m \in Members, Seen(m)', ~(haWorker'.at = "write" /\ haWorker'.id = m)
                 PROVE  haMembers[m].state = RightState(m)
      OBVIOUS
    <3>1. CASE m = x.id
      BY <1>3, <2>1, <2>2, <3>1
    <3>2. CASE m # x.id
      BY <1>1, <2>1, <2>4, <3>2 DEF PassSound
    <3> QED BY <3>1, <3>2
  <2>8. haWorker'.at = "write" => haWorker'.id \in Members /\ Seen(haWorker.id)' /\ haWorker'.to = RightState(haWorker'.id)
    BY <1>3, <2>1, <2>2, <2>4
  <2> HIDE DEF skipped, state, writes, counted, todo, healthy
  <2>9. haWorker'.pool = haPool' /\ PoolExists' /\ haWorker'.listed = Cardinality(Members) /\ haWorker'.at # "members"
    BY <1>1, <1>3, <2>1, <2>3 DEF PassSound
  <2> QED BY <1>1, <2>3, <2>5, <2>6, <2>7, <2>8, <2>9 DEF PassSound
<1>7. haWorker'.at # "idle"
  BY <1>3
<1> QED BY <1>4, <1>5, <1>6, <1>7 DEF PoolInv, PassTellsTruth

LEMMA WriteMemberInv == ASSUME PoolInv, WriteMember PROVE PoolInv'
<1>1. /\ haWorker.at = "write" /\ haWorker' = [haWorker EXCEPT !.at = "probe", !.id = "none", !.to = "none"]
      /\ haMembers' = [m \in HaMemberIds |-> IF m = haWorker.id /\ m \in Members
                                             THEN [haMembers[m] EXCEPT !.state = haWorker.to] ELSE haMembers[m]]
      /\ UNCHANGED <<haPool, haHostUp, haSettled>>
  BY DEF WriteMember, SetMember, Pass
<1>2. /\ haWorker' \in HaWorkers /\ haWorker'.at = "probe" /\ haWorker'.todo = haWorker.todo
      /\ haWorker'.healthy = haWorker.healthy /\ haWorker'.pool = haWorker.pool /\ haWorker'.listed = haWorker.listed
  BY <1>1 DEF PoolInv, PoolTyped, HaWorkers
<1> DEFINE new(m) == [haMembers[m] EXCEPT !.state = haWorker.to]
<1>3. ASSUME NEW m \in HaMemberIds
      PROVE  new(m) \in HaRows /\ new(m).state = haWorker.to /\ new(m).server = haMembers[m].server
             /\ haWorker.to # "removed"
  <2>1. haMembers[m] \in HaRows /\ haWorker.to \in {"none", "active", "failed"}
    BY DEF PoolInv, PoolTyped, HaWorkers
  <2> QED BY <2>1 DEF HaRows
<1>4. \A m \in HaMemberIds : haMembers'[m] = IF m = haWorker.id /\ m \in Members THEN new(m) ELSE haMembers[m]
  BY <1>1
<1> HIDE DEF new
<1>5. haMembers' \in [HaMemberIds -> HaRows]
  <2>1. \A m \in HaMemberIds : haMembers'[m] \in HaRows
    BY <1>3, <1>4 DEF PoolInv, PoolTyped
  <2> QED BY <1>1, <2>1
<1>6. UNCHANGED <<PoolExists, Members, Answering>> /\ (\A m : Seen(m)' <=> Seen(m)) /\ \A m \in Members : RightState(m)' = RightState(m)
  <2>1. \A m \in HaMemberIds : haMembers'[m].server = haMembers[m].server
    BY <1>3, <1>4
  <2>2. Members' = Members
    BY <1>3, <1>4, <2>1 DEF Members
  <2> QED BY <1>1, <1>2, <2>1, <2>2 DEF Answering, PoolExists, Seen, RightState, Members
<1>7. PoolTyped'
  BY <1>1, <1>2, <1>5, <1>6 DEF PoolInv, PoolTyped
<1>8. ASSUME haSettled PROVE PassSound'
  <2>1. PassSound /\ haWorker.id \in Members /\ Seen(haWorker.id) /\ haWorker.to = RightState(haWorker.id)
    BY <1>1, <1>8 DEF PoolInv, PassSound
  <2>2. \A x \in haWorker.todo : x.id \in Members /\ x.row = haMembers'[x.id]
    BY <1>1, <1>4, <2>1 DEF PassSound, Seen, Members
  <2>3. ASSUME NEW m \in Members, Seen(m) PROVE haMembers'[m].state = RightState(m)
    <3>1. CASE m = haWorker.id
      BY <1>3, <1>4, <2>1, <3>1 DEF Members
    <3>2. CASE m # haWorker.id
      BY <1>1, <1>4, <2>1, <2>3, <3>2 DEF PassSound, Members
    <3> QED BY <3>1, <3>2
  <2>4. haWorker'.healthy = Cardinality({m \in Answering : Seen(m)}) /\ haWorker'.listed = Cardinality(Members)
        /\ haWorker'.pool = haPool' /\ PoolExists'
    BY <1>1, <1>2, <1>6, <2>1 DEF PassSound
  <2>5. {m \in Answering : Seen(m)}' = {m \in Answering : Seen(m)}
    BY <1>6
  <2> QED BY <1>2, <1>6, <2>2, <2>3, <2>4, <2>5 DEF PassSound
<1> QED BY <1>1, <1>2, <1>7, <1>8 DEF PoolInv, PassTellsTruth

\* The verdict of a pass that has seen every member.
LEMMA WritePoolInv == ASSUME PoolInv, WritePool PROVE PoolInv'
<1> DEFINE state == Verdict(haWorker.healthy, haWorker.listed, haWorker.pool.min)
<1>1. /\ haWorker.at = "probe" /\ haWorker.todo = {} /\ haWorker' = WorkerIdle
      /\ IF state = haWorker.pool.state THEN haPool' = haPool ELSE SetPool(state)
      /\ UNCHANGED <<haMembers, haHostUp, haSettled>>
  BY DEF WritePool, Pass
<1>2. state \in {"healthy", "degraded", "failed"}
  BY DEF Verdict
<1>3. haPool' \in HaPools /\ (PoolExists' <=> PoolExists) /\ haPool'.min = haPool.min
      /\ (PoolExists /\ state # haWorker.pool.state => haPool'.state = state)
      /\ (state = haWorker.pool.state => haPool' = haPool)
  <2> HIDE DEF state
  <2> QED BY <1>1, <1>2 DEF SetPool, PoolInv, PoolTyped, HaPools, PoolExists
<1>4. PoolTyped' /\ UNCHANGED <<Members, Answering>>
  BY <1>1, <1>3, IdleTyped DEF PoolInv, PoolTyped, Members, Answering
<1>5. ASSUME haSettled PROVE PassTellsTruth'
  <2>1. /\ PassSound /\ \A m : Seen(m)
    BY <1>1, <1>5 DEF PoolInv, Seen
  <2>2. \A m \in Members : haMembers[m].state = RightState(m)
    BY <1>1, <2>1 DEF PassSound
  <2>3. /\ haWorker.healthy = Cardinality(Answering) /\ haWorker.listed = Cardinality(Members)
        /\ haWorker.pool = haPool /\ PoolExists
    <3>1. {m \in Answering : Seen(m)} = Answering
      BY <2>1
    <3> QED BY <1>1, <2>1, <3>1 DEF PassSound
  <2>4. haPool'.state = Verdict(Cardinality(Answering), Cardinality(Members), haPool.min)
    BY <1>3, <2>3
  <2>5. /\ Cardinality(Answering) \in Nat /\ Cardinality(Members) \in Nat /\ haPool.min \in Nat /\ haPool.min >= 1
        /\ Cardinality(Answering) = 0 <=> Answering = {}
        /\ Cardinality(Members) = 0 <=> Members = {}
    <3>1. Answering \subseteq Members
      BY DEF Answering
    <3>2. IsFiniteSet(Answering) /\ IsFiniteSet(Members)
      BY <3>1, MembersFinite
    <3> QED BY <2>3, <3>2, FS_EmptySet, FS_CardinalityType DEF PoolInv, PoolTyped, HaPools
  <2>6. /\ haPool'.state = "failed" <=> (Members # {} /\ Answering = {})
        /\ haPool'.state = "healthy" <=> Cardinality(Answering) >= haPool.min
    BY <2>4, <2>5 DEF Verdict
  <2>7. \A m \in Members : haMembers'[m].state = (IF haMembers'[m].server \in haHostUp' THEN "active" ELSE "failed")
    BY <1>1, <2>2 DEF RightState
  <2> QED BY <1>3, <1>4, <2>6, <2>7 DEF PassTellsTruth
<1>6. haWorker'.at = "idle"
  BY <1>1, IdleTyped
<1>7. haSettled' = haSettled
  BY <1>1
<1> QED BY <1>4, <1>5, <1>6, <1>7 DEF PoolInv, PassTellsTruth

LEMMA PoolStep == PoolInv /\ [PoolNext]_poolVars => PoolInv'
<1> SUFFICES ASSUME PoolInv, [PoolNext]_poolVars PROVE PoolInv'
  OBVIOUS
<1>1. CASE PoolNext
  BY <1>1, CreatePoolInv, DeletePoolInv, MembersEditedInv, StartDrainInv, HostTurnsInv, OtherRowsInv, PassStartsInv,
     ListMembersInv, WriteMemberInv, WritePoolInv, ProbeMemberInv, FailuresInv DEF PoolNext
<1>2. CASE UNCHANGED poolVars
  BY <1>2, Untouched DEF poolVars
<1> QED BY <1>1, <1>2

\* After a pass that nothing disturbed the rows tell what is true of the hosts
\* (probe.go:61-140): for any members and servers, whatever earlier passes, lost
\* writes and edits had left in the rows.
THEOREM PassesCorrect == PoolSpec => []PassTellsTruth
<1>1. PoolSpec => []PoolInv
  BY PoolInitInv, PoolStep, PTL DEF PoolSpec
<1> QED BY <1>1, PTL DEF PoolInv

HIDE PoolAssumption

-----------------------------------------------------------------------------
(***************************************************************************)
(* Alerts: ToldOnce for any incidents and cadence. A notice goes out one   *)
(* statement before the row says so, so the invariant says what the row    *)
(* and the evaluator's next statement together imply (IncidentTold,        *)
(* ReportsApart).                                                          *)
(***************************************************************************)

AlEvals == [at : {"idle", "samples", "open", "reread", "publish", "mark", "resolve", "recovered", "prune",
                  "overflow", "due", "report", "advance"}, now : Nat, threshold : {0, 1}, inc : AlIncidents \cup {0}]
AlRows == [state : {"none", "open", "resolved", "gone"}, notified : BOOLEAN]

AlertTyped ==
    /\ alNow \in Nat /\ alFaults \in Nat /\ alEval \in AlEvals /\ alIncidents \in [AlIncidents -> AlRows]
    /\ alRule \in [state : {"none", "live", "gone"}, enabled : BOOLEAN, threshold : {0, 1}]
    /\ alNotices \in [alerts : [AlIncidents -> Nat], recoveries : [AlIncidents -> Nat], reports : Int \X Int]
    /\ alSchedule \in [state : {"none", "live", "gone"}, next : Int]

OneOpen == \A i, k \in AlIncidents : alIncidents[i].state = "open" /\ alIncidents[k].state = "open" => i = k

\* The evaluator is at one of these steps for incident i.
EvalAt(i, ats) == alEval.at \in ats /\ alEval.inc = i

\* How often incident i was told.  One that is not marked as told has not been told
\* more often than statements failed, unless the mark is the next statement.
IncidentTold(i) ==
    /\ alIncidents[i].state = "none" => /\ ~alIncidents[i].notified /\ alNotices.alerts[i] = 0
                                        /\ ~EvalAt(i, {"publish", "mark", "recovered"})
    /\ alNotices.alerts[i] <= 1 + alFaults
    /\ ~alIncidents[i].notified /\ ~EvalAt(i, {"mark"}) => alNotices.alerts[i] <= alFaults
    /\ EvalAt(i, {"publish"}) => ~alIncidents[i].notified
    /\ alNotices.recoveries[i] <= 1
    /\ alIncidents[i].state \in {"none", "open"} \/ EvalAt(i, {"recovered"}) => alNotices.recoveries[i] = 0
    /\ EvalAt(i, {"recovered"}) => alIncidents[i].state # "open"

\* When nothing failed, the schedule is due a cadence after its last report, and the
\* evaluator reports it no earlier.
ReportsApart ==
    LET reports == alNotices.reports
    IN /\ alSchedule.state = "none" => reports[2] < 0 /\ alEval.at \notin {"report", "advance"}
       /\ alFaults = 0 =>
            /\ reports[1] >= 0 => reports[2] - reports[1] >= AlCadence
            /\ alEval.at = "advance" => reports[2] = alEval.now
            /\ alEval.at = "report" /\ reports[2] >= 0 => alEval.now >= reports[2] + AlCadence
            /\ alSchedule.state = "live" /\ reports[2] >= 0 /\ alEval.at # "advance" =>
                 alSchedule.next >= reports[2] + AlCadence

AlertInv ==
    /\ AlertTyped /\ OneOpen /\ ReportsApart
    /\ alEval.at \in {"publish", "mark", "recovered"} => alEval.inc \in AlIncidents
    /\ \A i \in AlIncidents : IncidentTold(i)

USE AlertAssumption

LEMMA InvTold == AlertInv => ToldOnce
<1> SUFFICES ASSUME AlertInv PROVE ToldOnce
  OBVIOUS
<1>1. Cardinality(AlOpen) <= 1
  <2>1. CASE AlOpen = {}
    BY <2>1, FS_EmptySet
  <2>2. CASE AlOpen # {}
    <3>1. PICK i \in AlOpen : TRUE
      BY <2>2
    <3>2. AlOpen = {i}
      BY <3>1 DEF AlertInv, OneOpen, AlOpen
    <3>3. Cardinality(AlOpen) = 1
      BY <3>2, FS_Singleton
    <3> QED BY <3>3
  <2> QED BY <2>1, <2>2
<1>2. \A i \in AlIncidents :
        /\ alNotices.alerts[i] <= 1 + alFaults
        /\ alNotices.recoveries[i] <= (IF alIncidents[i].state = "open" THEN 0 ELSE 1)
  BY DEF AlertInv, IncidentTold, AlertTyped
<1>3. (alNotices.reports[1] >= 0 /\ alFaults = 0) => alNotices.reports[2] - alNotices.reports[1] >= AlCadence
  BY DEF AlertInv, ReportsApart
<1> QED BY <1>1, <1>2, <1>3 DEF ToldOnce

LEMMA AlertInitInv == AlertInit => AlertInv
<1> SUFFICES ASSUME AlertInit PROVE AlertInv
  OBVIOUS
<1> USE DEF AlertInit
<1>1. AlertTyped
  BY DEF AlertTyped, AlEvals, AlRows, NoRule, NoIncident, EvalIdle
<1>2. OneOpen /\ \A i \in AlIncidents : IncidentTold(i)
  BY DEF OneOpen, IncidentTold, EvalAt, NoIncident, EvalIdle
<1>3. ReportsApart
  BY DEF ReportsApart, EvalIdle
<1> QED BY <1>1, <1>2, <1>3 DEF AlertInv, EvalIdle

LEMMA ReportFacts ==
  ASSUME AlertInv
  PROVE  /\ alNotices.reports \in Int \X Int /\ alNotices.reports[1] \in Int /\ alNotices.reports[2] \in Int
         /\ alNotices \in [alerts : [AlIncidents -> Nat], recoveries : [AlIncidents -> Nat], reports : Int \X Int]
         /\ alSchedule \in [state : {"none", "live", "gone"}, next : Int] /\ alSchedule.next \in Int
         /\ alEval.now \in Nat /\ alFaults \in Nat /\ ReportsApart /\ alEval \in AlEvals
BY DEF AlertInv, AlertTyped, AlEvals

\* The evaluator goes on to a statement that tells nobody; a mark or an advance is
\* skipped only by a failure.
EvalPasses ==
    /\ alEval'.at \notin {"publish", "mark", "recovered", "report", "advance"}
    /\ alFaults' \in Nat /\ alFaults' >= alFaults /\ (alEval.at \in {"mark", "advance"} => alFaults' > alFaults)
    /\ UNCHANGED <<alIncidents, alNotices, alSchedule>>

LEMMA PassesInv == ASSUME AlertInv, EvalPasses, AlertTyped' PROVE AlertInv'
<1> USE DEF AlertInv, EvalPasses
<1>1. OneOpen'
  BY DEF OneOpen
<1>2. ASSUME NEW i \in AlIncidents PROVE IncidentTold(i)'
  <2>1. IncidentTold(i) /\ alNotices.alerts[i] \in Nat /\ alFaults \in Nat
    BY DEF AlertTyped
  <2> QED BY <2>1 DEF IncidentTold, EvalAt
<1>3. ReportsApart'
  <2>1. alNotices.reports[1] \in Int /\ alNotices.reports[2] \in Int /\ alSchedule.next \in Int /\ alFaults \in Nat
    BY DEF AlertTyped
  <2> QED BY <2>1 DEF ReportsApart
<1> QED BY <1>1, <1>2, <1>3

\* An operator's edit, or time: incidents keep their mark and none is opened, and a
\* schedule is created once.
RowsEdited ==
    /\ \A i \in AlIncidents : /\ alIncidents'[i].notified = alIncidents[i].notified
                              /\ alIncidents'[i].state = "none" <=> alIncidents[i].state = "none"
                              /\ alIncidents'[i].state = "open" => alIncidents[i].state = "open"
    /\ \/ alSchedule' = alSchedule
       \/ alSchedule.state = "none" /\ alSchedule'.state = "live"
       \/ alSchedule.state = "live" /\ alSchedule'.state = "gone"
    /\ UNCHANGED <<alNotices, alEval, alFaults>>

LEMMA EditedInv == ASSUME AlertInv, RowsEdited, AlertTyped' PROVE AlertInv'
<1> USE DEF AlertInv, RowsEdited
<1>1. OneOpen'
  BY DEF OneOpen
<1>2. ASSUME NEW i \in AlIncidents PROVE IncidentTold(i)'
  <2>1. IncidentTold(i) /\ alNotices.alerts[i] \in Nat /\ alFaults \in Nat
    BY DEF AlertTyped
  <2> QED BY <2>1 DEF IncidentTold, EvalAt
<1>3. ReportsApart'
  <2>1. alNotices.reports[1] \in Int /\ alNotices.reports[2] \in Int /\ alSchedule.next \in Int /\ alFaults \in Nat
    BY DEF AlertTyped
  <2> QED BY <2>1 DEF ReportsApart
<1> QED BY <1>1, <1>2, <1>3

LEMMA AlClockInv == ASSUME AlertInv, AlClock PROVE AlertInv'
<1>1. AlertTyped'
  BY DEF AlertInv, AlertTyped, AlClock
<1>2. RowsEdited
  BY DEF AlClock, RowsEdited
<1> QED BY <1>1, <1>2, EditedInv

LEMMA RecordSamplesInv == ASSUME AlertInv, RecordSamples PROVE AlertInv'
<1>1. AlertTyped'
  BY DEF AlertInv, AlertTyped, RecordSamples
<1>2. RowsEdited
  BY DEF RecordSamples, RowsEdited
<1> QED BY <1>1, <1>2, EditedInv

LEMMA RuleWrittenInv == ASSUME AlertInv, CreateRule \/ UpdateRule PROVE AlertInv'
<1> USE DEF CreateRule, UpdateRule
<1>1. AlertTyped'
  BY DEF AlertInv, AlertTyped, InsertRule, PatchRule, NoRule
<1>2. RowsEdited
  BY DEF RowsEdited
<1> QED BY <1>1, <1>2, EditedInv

LEMMA DeleteRuleInv == ASSUME AlertInv, DeleteRule PROVE AlertInv'
<1> USE DEF DeleteRule, RemoveRule
<1>1. \A i \in AlIncidents : alIncidents[i] \in AlRows
  BY DEF AlertInv, AlertTyped
<1>2. \A i \in AlIncidents :
        alIncidents'[i] = IF alIncidents[i].state = "none" THEN NoIncident ELSE [alIncidents[i] EXCEPT !.state = "gone"]
  OBVIOUS
<1>3. \A i \in AlIncidents : alIncidents'[i] \in AlRows
  <2> SUFFICES ASSUME NEW i \in AlIncidents PROVE alIncidents'[i] \in AlRows
    OBVIOUS
  <2>1. alIncidents[i] \in AlRows
    BY <1>1
  <2> QED BY <1>2, <2>1 DEF AlRows, NoIncident
<1>4. ASSUME NEW i \in AlIncidents
      PROVE  /\ alIncidents'[i].notified = alIncidents[i].notified
             /\ alIncidents'[i].state = "none" <=> alIncidents[i].state = "none"
             /\ alIncidents'[i].state # "open"
  <2>1. alIncidents[i] \in AlRows /\ (alIncidents[i].state = "none" => ~alIncidents[i].notified)
    BY <1>1 DEF AlertInv, IncidentTold
  <2>2. CASE alIncidents[i].state = "none"
    BY <1>2, <2>1, <2>2 DEF AlRows, NoIncident
  <2>3. CASE alIncidents[i].state # "none"
    <3>1. alIncidents'[i] = [alIncidents[i] EXCEPT !.state = "gone"]
      BY <1>2, <2>3
    <3> QED BY <2>1, <2>3, <3>1 DEF AlRows
  <2> QED BY <2>2, <2>3
<1>5. AlertTyped'
  BY <1>3 DEF AlertInv, AlertTyped
<1>6. RowsEdited
  BY <1>4 DEF RowsEdited
<1> HIDE DEF DeleteRule
<1> QED BY <1>5, <1>6, EditedInv

\* What a new state of incident i leaves.
LEMMA IncidentState ==
  ASSUME AlertInv, NEW i \in AlIncidents, NEW state \in {"open", "resolved"},
         alIncidents' = [alIncidents EXCEPT ![i].state = state]
  PROVE  /\ alIncidents' \in [AlIncidents -> AlRows]
         /\ alIncidents'[i].state = state /\ alIncidents'[i].notified = alIncidents[i].notified
         /\ \A k \in AlIncidents : k # i => alIncidents'[k] = alIncidents[k]
BY DEF AlertInv, AlertTyped, AlRows

LEMMA ResolveIncidentInv == ASSUME AlertInv, NEW i \in AlIncidents, ResolveIncident(i) PROVE AlertInv'
<1> USE DEF ResolveIncident, CloseIncident
<1>1. AlertTyped'
  BY IncidentState DEF AlertInv, AlertTyped
<1>2. RowsEdited
  BY IncidentState DEF RowsEdited
<1> HIDE DEF ResolveIncident
<1> QED BY <1>1, <1>2, EditedInv

LEMMA ScheduleWrittenInv == ASSUME AlertInv, CreateSchedule \/ DeleteSchedule PROVE AlertInv'
<1> USE DEF CreateSchedule, DeleteSchedule, InsertSchedule, RemoveSchedule
<1>1. AlertTyped'
  BY DEF AlertInv, AlertTyped
<1>2. RowsEdited
  BY DEF RowsEdited, AlertInv, AlertTyped
<1> HIDE DEF CreateSchedule, DeleteSchedule
<1> QED BY <1>1, <1>2, EditedInv

\* The statements that only move the evaluator on.
LEMMA EvalTyped ==
  ASSUME AlertInv, NEW here, NEW there \in {"idle", "samples", "open", "reread", "publish", "mark", "resolve",
           "recovered", "prune", "overflow", "due", "report", "advance"}, EvalGoes(here, there)
  PROVE  /\ alEval' \in AlEvals /\ alEval.at = here /\ alEval'.at = there /\ alEval'.inc = alEval.inc
         /\ alEval'.now = alEval.now
BY DEF AlertInv, AlertTyped, AlEvals, EvalGoes

LEMMA TickStartsInv == ASSUME AlertInv, TickStarts PROVE AlertInv'
<1> USE DEF TickStarts, rowVars
<1>1. AlertTyped'
  BY DEF AlertInv, AlertTyped, AlEvals
<1>2. EvalPasses
  BY DEF EvalPasses, AlertInv, AlertTyped
<1> HIDE DEF TickStarts
<1> QED BY <1>1, <1>2, PassesInv

LEMMA ReadSamplesInv == ASSUME AlertInv, ReadSamples PROVE AlertInv'
<1> USE DEF rowVars
<1>1. PICK there \in {"prune", "open", "resolve"} : EvalGoes("samples", there)
  BY DEF ReadSamples
<1>2. UNCHANGED <<rowVars, alNotices, alEdits, alFaults>>
  BY DEF ReadSamples
<1>3. alEval' \in AlEvals /\ alEval.at = "samples" /\ alEval'.at = there
  BY <1>1, EvalTyped
<1>4. AlertTyped'
  BY <1>2, <1>3 DEF AlertInv, AlertTyped
<1>5. EvalPasses
  BY <1>2, <1>3 DEF EvalPasses, AlertInv, AlertTyped
<1> QED BY <1>4, <1>5, PassesInv

LEMMA PruneInv == ASSUME AlertInv, PruneByAge \/ PruneByCount PROVE AlertInv'
<1> USE DEF PruneByAge, PruneByCount
<1>1. alEval' \in AlEvals /\ alEval.at \in {"prune", "overflow"} /\ alEval'.at \in {"overflow", "due"}
  BY EvalTyped
<1>2. AlertTyped'
  BY <1>1 DEF AlertInv, AlertTyped
<1>3. EvalPasses
  BY <1>1 DEF EvalPasses, AlertInv, AlertTyped
<1> HIDE DEF PruneByAge, PruneByCount
<1> QED BY <1>2, <1>3, PassesInv

\* An incident is opened: its id is new, and nobody has been told of it.
LEMMA OpenedInv ==
  ASSUME AlertInv, NEW i \in AlIncidents, AlOpen = {}, alIncidents[i].state = "none", alEval.at = "open",
         alIncidents' = [alIncidents EXCEPT ![i].state = "open"],
         alEval' = [alEval EXCEPT !.at = "publish", !.inc = i],
         UNCHANGED <<alNow, alRule, alSchedule, alNotices, alFaults>>
  PROVE  AlertInv'
<1>1. alEval' \in AlEvals /\ alEval'.at = "publish" /\ alEval'.inc = i /\ alEval'.now = alEval.now
  BY DEF AlertInv, AlertTyped, AlEvals
<1>2. AlertTyped'
  BY <1>1, IncidentState DEF AlertInv, AlertTyped
<1>3. OneOpen'
  BY IncidentState DEF OneOpen, AlOpen
<1>4. ASSUME NEW k \in AlIncidents PROVE IncidentTold(k)'
  <2>1. IncidentTold(k) /\ alNotices.alerts[k] \in Nat /\ alFaults \in Nat /\ alIncidents[k].notified \in BOOLEAN
    BY DEF AlertInv, AlertTyped, AlRows
  <2>2. CASE k = i
    <3>1. alIncidents'[i].state = "open" /\ alIncidents'[i].notified = alIncidents[i].notified
      BY IncidentState
    <3>2. ~alIncidents[i].notified
      BY <2>1, <2>2 DEF IncidentTold
    <3> QED BY <1>1, <2>1, <2>2, <3>1, <3>2 DEF IncidentTold, EvalAt
  <2>3. CASE k # i
    <3>1. alIncidents'[k] = alIncidents[k]
      BY <2>3, IncidentState
    <3> QED BY <1>1, <2>1, <2>3, <3>1 DEF IncidentTold, EvalAt
  <2> QED BY <2>2, <2>3
<1>5. ReportsApart'
  BY <1>1 DEF ReportsApart, AlertInv
<1> QED BY <1>1, <1>2, <1>3, <1>4, <1>5 DEF AlertInv

LEMMA InsertIncidentInv == ASSUME AlertInv, InsertIncident PROVE AlertInv'
<1> USE DEF InsertIncident
<1>1. CASE AlOpen = {} /\ alRule.state = "live"
  <2>1. PICK i \in AlIncidents : /\ alIncidents[i].state = "none"
                                 /\ alIncidents' = [alIncidents EXCEPT ![i].state = "open"]
                                 /\ alEval' = [alEval EXCEPT !.at = "publish", !.inc = i]
    BY <1>1
  <2>2. alEval.at = "open" /\ UNCHANGED <<alNow, alRule, alSchedule, alNotices, alFaults>>
    OBVIOUS
  <2> HIDE DEF InsertIncident
  <2> QED BY <1>1, <2>1, <2>2, OpenedInv
<1>2. CASE ~(AlOpen = {} /\ alRule.state = "live")
  <2>1. PICK there \in {"reread", "prune"} : EvalGoes("open", there)
    BY <1>2 DEF EvalGoes
  <2>2. UNCHANGED <<alNow, alRule, metricSamples, alSchedule, alIncidents, alNotices, alEdits, alFaults>>
    BY <1>2
  <2> HIDE DEF InsertIncident
  <2>3. alEval' \in AlEvals /\ alEval.at = "open" /\ alEval'.at = there
    BY <2>1, EvalTyped
  <2>4. AlertTyped'
    BY <2>2, <2>3 DEF AlertInv, AlertTyped
  <2>5. EvalPasses
    BY <2>2, <2>3 DEF EvalPasses, AlertInv, AlertTyped
  <2> QED BY <2>4, <2>5, PassesInv
<1> QED BY <1>1, <1>2

\* The evaluator goes on to tell of an incident, or to close one.
LEMMA RereadIncidentInv == ASSUME AlertInv, RereadIncident PROVE AlertInv'
<1> USE DEF RereadIncident, rowVars
<1>1. UNCHANGED <<rowVars, alNotices, alEdits, alFaults>> /\ alEval.at = "reread"
  OBVIOUS
<1>2. CASE alEval' = [alEval EXCEPT !.at = "prune"] \/ \E i \in AlOpen : alEval' = [alEval EXCEPT !.at = "prune", !.inc = i]
  <2>1. alEval' \in AlEvals /\ alEval'.at = "prune"
    BY ZenonT(60), <1>2 DEF AlertInv, AlertTyped, AlEvals, AlOpen
  <2>2. AlertTyped'
    BY <1>1, <2>1 DEF AlertInv, AlertTyped
  <2> HIDE DEF RereadIncident
  <2>3. EvalPasses
    BY ReportFacts, <1>1, <2>1 DEF EvalPasses
  <2> QED BY <2>2, <2>3, PassesInv
<1>3. CASE \E i \in AlOpen : ~alIncidents[i].notified /\ alEval' = [alEval EXCEPT !.at = "publish", !.inc = i]
  <2>1. PICK i \in AlOpen : ~alIncidents[i].notified /\ alEval' = [alEval EXCEPT !.at = "publish", !.inc = i]
    BY <1>3
  <2>2. alEval' \in AlEvals /\ alEval'.at = "publish" /\ alEval'.inc = i
    BY <2>1 DEF AlertInv, AlertTyped, AlEvals, AlOpen
  <2>3. AlertTyped' /\ OneOpen'
    BY ZenonT(60), <1>1, <2>2 DEF AlertInv, AlertTyped, OneOpen
  <2>4. ASSUME NEW k \in AlIncidents PROVE IncidentTold(k)'
    <3>1. IncidentTold(k)
      BY DEF AlertInv
    <3> QED BY <1>1, <2>1, <2>2, <3>1 DEF IncidentTold, EvalAt, AlOpen
  <2>5. ReportsApart'
    BY <1>1, <2>2 DEF ReportsApart, AlertInv
  <2> QED BY <2>2, <2>3, <2>4, <2>5 DEF AlertInv, AlOpen
<1>4. \/ alEval' = [alEval EXCEPT !.at = "prune"]
      \/ \E i \in AlOpen : \/ alEval' = [alEval EXCEPT !.at = "prune", !.inc = i]
                           \/ ~alIncidents[i].notified /\ alEval' = [alEval EXCEPT !.at = "publish", !.inc = i]
  BY DEF Tells
<1> QED BY <1>2, <1>3, <1>4

LEMMA PublishAlertInv == ASSUME AlertInv, PublishAlert PROVE AlertInv'
<1> USE DEF rowVars
<1>1. /\ alEval' \in AlEvals /\ alEval.at = "publish" /\ alEval'.at = "mark" /\ alEval'.inc = alEval.inc
      /\ alEval'.now = alEval.now
  BY EvalTyped DEF PublishAlert
<1>2. PICK i \in AlIncidents : i = alEval.inc
  BY <1>1 DEF AlertInv
<1>3. /\ alNotices' = [alNotices EXCEPT !.alerts[i] = @ + 1]
      /\ UNCHANGED <<alNow, alRule, alIncidents, alSchedule, alFaults>>
  BY <1>2 DEF PublishAlert
<1>4. /\ alNotices' \in [alerts : [AlIncidents -> Nat], recoveries : [AlIncidents -> Nat], reports : Int \X Int]
      /\ alNotices'.recoveries = alNotices.recoveries /\ alNotices'.reports = alNotices.reports
      /\ \A k \in AlIncidents : alNotices'.alerts[k] = IF k = i THEN alNotices.alerts[k] + 1 ELSE alNotices.alerts[k]
  BY <1>3 DEF AlertInv, AlertTyped
<1>5. AlertTyped' /\ OneOpen'
  BY SMTT(40), <1>1, <1>3, <1>4 DEF AlertInv, AlertTyped, OneOpen
<1>6. ASSUME NEW k \in AlIncidents PROVE IncidentTold(k)'
  <2>1. IncidentTold(k) /\ alNotices.alerts[k] \in Nat /\ alFaults \in Nat /\ alIncidents' = alIncidents /\ alFaults' = alFaults
    BY <1>3 DEF AlertInv, AlertTyped
  <2> QED BY <1>1, <1>2, <1>4, <2>1 DEF IncidentTold, EvalAt
<1>7. ReportsApart'
  BY <1>1, <1>3, <1>4 DEF ReportsApart, AlertInv
<1> QED BY <1>1, <1>2, <1>5, <1>6, <1>7 DEF AlertInv

LEMMA MarkNotifiedInv == ASSUME AlertInv, MarkIncidentNotified PROVE AlertInv'
<1>1. /\ alEval' \in AlEvals /\ alEval.at = "mark" /\ alEval'.at = "prune"
      /\ alEval'.now = alEval.now
  BY EvalTyped DEF MarkIncidentNotified
<1>2. PICK i \in AlIncidents : i = alEval.inc
  BY <1>1 DEF AlertInv
<1>3. /\ alIncidents' = [alIncidents EXCEPT ![i].notified = TRUE]
      /\ UNCHANGED <<alNow, alRule, alNotices, alSchedule, alFaults>>
  BY <1>2 DEF MarkIncidentNotified
<1>4. /\ alIncidents' \in [AlIncidents -> AlRows]
      /\ alIncidents'[i].state = alIncidents[i].state /\ alIncidents'[i].notified = TRUE
      /\ \A k \in AlIncidents : k # i => alIncidents'[k] = alIncidents[k]
  BY ZenonT(60), <1>3 DEF AlertInv, AlertTyped, AlRows
<1>5. AlertTyped' /\ OneOpen'
  BY <1>1, <1>3, <1>4 DEF AlertInv, AlertTyped, OneOpen
<1>6. ASSUME NEW k \in AlIncidents PROVE IncidentTold(k)'
  <2>1. IncidentTold(k) /\ alNotices.alerts[k] \in Nat /\ alFaults \in Nat /\ alNotices' = alNotices /\ alFaults' = alFaults
    BY <1>3 DEF AlertInv, AlertTyped
  <2>2. CASE k = i
    BY <1>1, <1>2, <1>4, <2>1, <2>2 DEF IncidentTold, EvalAt
  <2>3. CASE k # i
    BY <1>1, <1>2, <1>4, <2>1, <2>3 DEF IncidentTold, EvalAt
  <2> QED BY <2>2, <2>3
<1>7. ReportsApart'
  BY <1>1, <1>3 DEF ReportsApart, AlertInv
<1> QED BY <1>1, <1>5, <1>6, <1>7 DEF AlertInv

LEMMA ResolveOpenInv == ASSUME AlertInv, ResolveOpen PROVE AlertInv'
<1> USE DEF ResolveOpen
<1>0. UNCHANGED <<alNow, alRule, alSchedule, alNotices, alFaults>> /\ alEval.at = "resolve"
  OBVIOUS
<1>1. CASE AlOpen = {}
  <2>1. alEval' \in AlEvals /\ alEval'.at = "prune" /\ alIncidents' = alIncidents
    BY <1>1 DEF AlertInv, AlertTyped, AlEvals
  <2>2. AlertTyped'
    BY <1>0, <2>1 DEF AlertInv, AlertTyped
  <2> HIDE DEF ResolveOpen
  <2>3. EvalPasses
    BY ReportFacts, <1>0, <2>1 DEF EvalPasses
  <2> QED BY <2>2, <2>3, PassesInv
<1>2. CASE AlOpen # {}
  <2>1. PICK i \in AlOpen : /\ alIncidents' = [alIncidents EXCEPT ![i].state = "resolved"]
                            /\ alEval' = [alEval EXCEPT !.at = "recovered", !.inc = i]
    BY <1>2
  <2> HIDE DEF ResolveOpen
  <2>2. i \in AlIncidents /\ alIncidents[i].state = "open"
    BY DEF AlOpen
  <2>3. alEval' \in AlEvals /\ alEval'.at = "recovered" /\ alEval'.inc = i /\ alEval'.now = alEval.now
    BY <2>1, <2>2 DEF AlertInv, AlertTyped, AlEvals
  <2>4. /\ alIncidents' \in [AlIncidents -> AlRows]
        /\ alIncidents'[i].state = "resolved" /\ alIncidents'[i].notified = alIncidents[i].notified
        /\ \A k \in AlIncidents : k # i => alIncidents'[k] = alIncidents[k]
    BY <2>1, <2>2, IncidentState
  <2>5. AlertTyped' /\ OneOpen'
    BY <1>0, <2>3, <2>4 DEF AlertInv, AlertTyped, OneOpen
  <2>6. ASSUME NEW k \in AlIncidents PROVE IncidentTold(k)'
    <3>1. IncidentTold(k) /\ alNotices' = alNotices /\ alFaults' = alFaults
      BY <1>0 DEF AlertInv
    <3>2. CASE k = i
      BY <1>0, <2>2, <2>3, <2>4, <3>1, <3>2 DEF IncidentTold, EvalAt
    <3>3. CASE k # i
      BY <1>0, <2>3, <2>4, <3>1, <3>3 DEF IncidentTold, EvalAt
    <3> QED BY <3>2, <3>3
  <2>7. ReportsApart'
    BY <1>0, <2>3 DEF ReportsApart, AlertInv
  <2> QED BY <2>2, <2>3, <2>5, <2>6, <2>7 DEF AlertInv
<1> QED BY <1>1, <1>2

LEMMA PublishRecoveryInv == ASSUME AlertInv, PublishRecovery PROVE AlertInv'
<1> USE DEF rowVars
<1>1. /\ alEval' \in AlEvals /\ alEval.at = "recovered" /\ alEval'.at = "prune" /\ alEval'.now = alEval.now
  BY EvalTyped DEF PublishRecovery
<1>2. PICK i \in AlIncidents : i = alEval.inc
  BY <1>1 DEF AlertInv
<1>3. /\ alNotices' = [alNotices EXCEPT !.recoveries[i] = @ + 1]
      /\ UNCHANGED <<alNow, alRule, alIncidents, alSchedule, alFaults>>
  BY <1>2 DEF PublishRecovery
<1>4. /\ alNotices' \in [alerts : [AlIncidents -> Nat], recoveries : [AlIncidents -> Nat], reports : Int \X Int]
      /\ alNotices'.alerts = alNotices.alerts /\ alNotices'.reports = alNotices.reports
      /\ \A k \in AlIncidents :
           alNotices'.recoveries[k] = IF k = i THEN alNotices.recoveries[k] + 1 ELSE alNotices.recoveries[k]
  BY <1>3 DEF AlertInv, AlertTyped
<1>5. AlertTyped' /\ OneOpen'
  BY SMTT(40), <1>1, <1>3, <1>4 DEF AlertInv, AlertTyped, OneOpen
<1>6. ASSUME NEW k \in AlIncidents PROVE IncidentTold(k)'
  <2>1. IncidentTold(k) /\ alNotices.recoveries[k] \in Nat /\ alIncidents' = alIncidents /\ alFaults' = alFaults
    BY <1>3 DEF AlertInv, AlertTyped
  <2> QED BY <1>1, <1>2, <1>4, <2>1 DEF IncidentTold, EvalAt
<1>7. ReportsApart'
  BY <1>1, <1>3, <1>4 DEF ReportsApart, AlertInv
<1> QED BY <1>1, <1>5, <1>6, <1>7 DEF AlertInv

\* Steps of the schedule: what is told of incidents stays.
LEMMA ScheduleStepInv ==
  ASSUME AlertInv, alEval' \in AlEvals, alEval.at \in {"due", "report", "advance"}, alEval'.at \in {"report", "advance", "idle"},
         alNotices'.alerts = alNotices.alerts, alNotices'.recoveries = alNotices.recoveries,
         alNotices' \in [alerts : [AlIncidents -> Nat], recoveries : [AlIncidents -> Nat], reports : Int \X Int],
         alFaults' \in Nat, alFaults' >= alFaults,
         alSchedule' \in [state : {"none", "live", "gone"}, next : Int],
         UNCHANGED <<alNow, alRule, alIncidents>>, ReportsApart'
  PROVE  AlertInv'
<1>1. AlertTyped' /\ OneOpen'
  BY DEF AlertInv, AlertTyped, OneOpen
<1>2. ASSUME NEW k \in AlIncidents PROVE IncidentTold(k)'
  <2>1. IncidentTold(k) /\ alNotices.alerts[k] \in Nat /\ alFaults \in Nat
    BY DEF AlertInv, AlertTyped
  <2> QED BY <2>1 DEF IncidentTold, EvalAt
<1> QED BY <1>1, <1>2 DEF AlertInv

LEMMA DueSchedulesInv == ASSUME AlertInv, DueSchedules PROVE AlertInv'
<1> USE DEF rowVars
<1>1. PICK there \in {"report", "idle"} :
        /\ EvalGoes("due", there)
        /\ there = "report" => alSchedule.state = "live" /\ alSchedule.next <= alEval.now
  BY DEF DueSchedules
<1>2. alEval' \in AlEvals /\ alEval.at = "due" /\ alEval'.at = there /\ alEval'.now = alEval.now
  BY <1>1, EvalTyped
<1>3. UNCHANGED <<alNow, alRule, alIncidents, alSchedule, alNotices, alFaults>>
  BY DEF DueSchedules
<1>4. ReportsApart'
  BY <1>1, <1>2, <1>3, ReportFacts DEF ReportsApart
<1> QED BY <1>2, <1>3, <1>4, ScheduleStepInv, ReportFacts

LEMMA PublishReportInv == ASSUME AlertInv, PublishReport PROVE AlertInv'
<1> USE DEF rowVars
<1>1. alEval' \in AlEvals /\ alEval.at = "report" /\ alEval'.at = "advance" /\ alEval'.now = alEval.now
  BY EvalTyped DEF PublishReport
<1>2. /\ alNotices' = [alNotices EXCEPT !.reports = <<alNotices.reports[2], alEval.now>>]
      /\ UNCHANGED <<alNow, alRule, alIncidents, alSchedule, alFaults>>
  BY DEF PublishReport
<1>3. /\ alNotices'.alerts = alNotices.alerts /\ alNotices'.recoveries = alNotices.recoveries
      /\ alNotices'.reports = <<alNotices.reports[2], alEval.now>>
      /\ alNotices' \in [alerts : [AlIncidents -> Nat], recoveries : [AlIncidents -> Nat], reports : Int \X Int]
  BY <1>2, ReportFacts
<1>4. alNotices'.reports[1] = alNotices.reports[2] /\ alNotices'.reports[2] = alEval.now
  BY <1>3
<1>5. ReportsApart'
  BY <1>1, <1>2, <1>4, ReportFacts DEF ReportsApart
<1> QED BY <1>1, <1>2, <1>3, <1>5, ScheduleStepInv, ReportFacts

LEMMA AdvanceScheduleInv == ASSUME AlertInv, AdvanceSchedule PROVE AlertInv'
<1>1. alEval' \in AlEvals /\ alEval.at = "advance" /\ alEval'.at = "idle" /\ alEval'.now = alEval.now
  BY EvalTyped DEF AdvanceSchedule
<1>2. /\ alSchedule' = [alSchedule EXCEPT !.next = IF alSchedule.state = "live" THEN alEval.now + AlCadence ELSE @]
      /\ UNCHANGED <<alNow, alRule, alIncidents, alNotices, alFaults>>
  BY DEF AdvanceSchedule, NextRun
<1>3. /\ alSchedule' \in [state : {"none", "live", "gone"}, next : Int] /\ alSchedule'.state = alSchedule.state
      /\ alSchedule.state = "live" => alSchedule'.next = alEval.now + AlCadence
  BY <1>2, ReportFacts
<1>4. ReportsApart'
  BY <1>1, <1>2, <1>3, ReportFacts DEF ReportsApart
<1> QED BY <1>1, <1>2, <1>3, <1>4, ScheduleStepInv, ReportFacts

\* Failures: a publish that failed goes on as if it had not.
LEMMA StatementFailsInv == ASSUME AlertInv, StatementFails PROVE AlertInv'
<1> USE DEF rowVars
<1>1. UNCHANGED <<alNow, alRule, alIncidents, alSchedule, alNotices>> /\ alFaults' = alFaults + 1
  BY DEF StatementFails, AlFault
<1>2. CASE alEval.at = "publish"
  <2>1. alEval' \in AlEvals /\ alEval'.at = "mark" /\ alEval'.inc = alEval.inc /\ alEval'.now = alEval.now
    BY <1>2, ReportFacts DEF StatementFails, AlEvals
  <2>2. AlertTyped' /\ OneOpen'
    BY <1>1, <2>1 DEF AlertInv, AlertTyped, OneOpen
  <2>3. ASSUME NEW k \in AlIncidents PROVE IncidentTold(k)'
    <3>1. IncidentTold(k) /\ alNotices.alerts[k] \in Nat /\ alFaults \in Nat
      BY DEF AlertInv, AlertTyped
    <3> QED BY <1>1, <1>2, <2>1, <3>1 DEF IncidentTold, EvalAt
  <2>4. ReportsApart'
    BY <1>1, <1>2, <2>1, ReportFacts DEF ReportsApart
  <2> QED BY <1>2, <2>1, <2>2, <2>3, <2>4 DEF AlertInv
<1>3. CASE alEval.at = "report"
  <2>1. alEval' \in AlEvals /\ alEval'.at = "advance"
    BY <1>3, ReportFacts DEF StatementFails, AlEvals
  <2>2. ReportsApart'
    BY <1>1, <1>3, <2>1, ReportFacts DEF ReportsApart
  <2> QED BY <1>1, <1>3, <2>1, <2>2, ScheduleStepInv, ReportFacts
<1>4. CASE alEval.at \notin {"publish", "report"}
  <2>1. alEval' \in AlEvals /\ alEval'.at \in {"prune", "due", "idle"}
    <3>1. PICK there \in {"prune", "due", "idle"} :
            alEval' = [alEval EXCEPT !.at = there] \/ alEval' = [EvalIdle EXCEPT !.at = "prune", !.now = alNow]
      BY <1>4 DEF StatementFails
    <3>2. alNow \in Nat
      BY DEF AlertInv, AlertTyped
    <3> QED BY <3>1, <3>2, ReportFacts DEF AlEvals, EvalIdle
  <2>2. AlertTyped'
    BY <1>1, <2>1 DEF AlertInv, AlertTyped
  <2>3. EvalPasses
    BY <1>1, <2>1, ReportFacts DEF EvalPasses
  <2> QED BY <2>2, <2>3, PassesInv
<1> QED BY <1>2, <1>3, <1>4

LEMMA EvaluatorRestartsInv == ASSUME AlertInv, EvaluatorRestarts PROVE AlertInv'
<1> USE DEF EvaluatorRestarts, rowVars
<1>1. alEval' \in AlEvals /\ alEval'.at = "idle" /\ alFaults' = alFaults + 1
  BY DEF AlEvals, EvalIdle, AlFault
<1>2. AlertTyped'
  BY <1>1 DEF AlertInv, AlertTyped
<1>3. EvalPasses
  BY <1>1, ReportFacts DEF EvalPasses
<1> HIDE DEF EvaluatorRestarts
<1> QED BY <1>2, <1>3, PassesInv

LEMMA AlertStep == AlertInv /\ [AlertNext]_alertVars => AlertInv'
<1> SUFFICES ASSUME AlertInv, [AlertNext]_alertVars PROVE AlertInv'
  OBVIOUS
<1>1. CASE AlertNext
  BY <1>1, AlClockInv, RecordSamplesInv, RuleWrittenInv, DeleteRuleInv, ScheduleWrittenInv, ResolveIncidentInv,
     TickStartsInv, ReadSamplesInv, InsertIncidentInv, RereadIncidentInv, PublishAlertInv, MarkNotifiedInv,
     ResolveOpenInv, PublishRecoveryInv, PruneInv, DueSchedulesInv, PublishReportInv, AdvanceScheduleInv,
     StatementFailsInv, EvaluatorRestartsInv DEF AlertNext
<1>2. CASE UNCHANGED alertVars
  <2>1. AlertTyped'
    BY <1>2 DEF alertVars, AlertInv, AlertTyped
  <2>2. RowsEdited
    BY <1>2 DEF alertVars, RowsEdited
  <2> QED BY <2>1, <2>2, EditedInv
<1> QED BY <1>1, <1>2

\* What the evaluator tells people (evaluator.go:105-310), for any numbers of
\* incidents, edits and faults and any cadence: one open incident of a rule, an
\* incident told once and again only after a failed statement or a restart, its
\* recovery at most once and never while it is open, and reports a cadence apart.
THEOREM NoticesTold == AlertSpec => []ToldOnce
<1>1. AlertSpec => []AlertInv
  BY AlertInitInv, AlertStep, PTL DEF AlertSpec
<1> QED BY <1>1, InvTold, PTL

HIDE AlertAssumption

-----------------------------------------------------------------------------
(***************************************************************************)
(* Sessions: SignInsSound for any users, enrollments, sessions and         *)
(* requests. That a code counts once rests on last_used_step: no accepted  *)
(* step of an enrollment is later than it (StepsCounted).                  *)
(***************************************************************************)

SsCreds == [user : Users \cup {0}, state : {"none", "pending", "active", "disabled"}, last : Nat]
SsRows == [user : Users \cup {0}, state : {"none", "live"}, idle : Nat, abs : Nat, high : BOOLEAN]

\* A request that is about to use an enrollment has one.
SsReqs == {q \in [for : {"none", "login", "elevate", "confirm", "disable"},
                  at : {"idle", "factor", "consume", "redeem", "write", "confirm", "revoke"},
                  user : Users \cup {0}, cred : Creds \cup {0}, step : Nat, sess : SessionIds \cup {0}] :
           q.at \in {"consume", "confirm"} => q.cred \in Creds}

SessionsTyped ==
    /\ ssCred \in [Creds -> SsCreds] /\ ssSession \in [SessionIds -> SsRows]
    /\ ssReq \in [SsSlots -> SsReqs] /\ ssUsed \subseteq Creds \X Nat /\ ssNow \in Nat \ {0}

\* A user has at most one enrollment in force and at most one pending.
OneOfEach ==
    \A e, d \in Creds :
        ssCred[e].user = ssCred[d].user /\ ssCred[e].state = ssCred[d].state /\ ssCred[e].state \in {"pending", "active"}
        => e = d

\* A step that an enrollment accepted is not later than its last, and only one that is
\* or was in force has accepted any.
StepsCounted ==
    \A e \in Creds : \A step \in Nat :
        <<e, step>> \in ssUsed => ssCred[e].state \in {"active", "disabled"} /\ step <= ssCred[e].last

ExpirySound == \A s \in SessionIds : ssSession[s].idle <= ssSession[s].abs

SessionsInv == SessionsTyped /\ OneOfEach /\ StepsCounted /\ ExpirySound /\ ~ssTwice

LEMMA InvSignIns == SessionsInv => SignInsSound
<1> SUFFICES ASSUME SessionsInv PROVE SignInsSound
  OBVIOUS
<1>1. ASSUME NEW u, NEW state \in {"pending", "active"} PROVE Cardinality(CredsOf(u, state)) <= 1
  <2>1. CASE CredsOf(u, state) = {}
    BY <2>1, FS_EmptySet
  <2>2. CASE CredsOf(u, state) # {}
    <3>1. PICK e \in CredsOf(u, state) : TRUE
      BY <2>2
    <3>2. CredsOf(u, state) = {e}
      BY <3>1 DEF SessionsInv, OneOfEach, CredsOf
    <3>3. Cardinality(CredsOf(u, state)) = 1
      BY <3>2, FS_Singleton
    <3> QED BY <3>3
  <2> QED BY <2>1, <2>2
<1>2. \A u \in Users : Cardinality(ActiveTOTP(u)) <= 1 /\ Cardinality(PendingTOTP(u)) <= 1
  BY <1>1 DEF ActiveTOTP, PendingTOTP
<1> QED BY <1>2 DEF SessionsInv, ExpirySound, SignInsSound

LEMMA NoReqTyped == /\ NoReq \in SsReqs /\ NoSession \in SsRows /\ NoSession.idle <= NoSession.abs
                    /\ NoCred \in SsCreds
BY DEF NoReq, SsReqs, NoSession, SsRows, NoCred, SsCreds

LEMMA SessionsInitInv == SessionsInit => SessionsInv
<1> SUFFICES ASSUME SessionsInit PROVE SessionsInv
  OBVIOUS
<1>1. SessionsTyped
  BY NoReqTyped DEF SessionsInit, SessionsTyped
<1>2. OneOfEach /\ StepsCounted /\ ExpirySound /\ ~ssTwice
  BY DEF SessionsInit, OneOfEach, StepsCounted, ExpirySound, NoCred, NoSession
<1> QED BY <1>1, <1>2 DEF SessionsInv

LEMMA SessionFacts ==
  ASSUME SessionsInv
  PROVE  /\ SessionsTyped /\ ssNow \in Nat /\ ssNow >= 1
         /\ \A l \in SsSlots : ssReq[l] \in SsReqs
         /\ \A e \in Creds : ssCred[e] \in SsCreds
         /\ \A s \in SessionIds : ssSession[s] \in SsRows
BY DEF SessionsInv, SessionsTyped

\* A step that leaves the enrollments alone.
LEMMA CredsKept ==
  ASSUME SessionsInv, ssReq' \in [SsSlots -> SsReqs], ssSession' \in [SessionIds -> SsRows], ExpirySound',
         ssNow' \in Nat \ {0}, UNCHANGED <<ssCred, ssSeen>>
  PROVE  SessionsInv'
BY DEF SessionsInv, SessionsTyped, OneOfEach, StepsCounted, ssSeen

LEMMA RequestsMove ==
  ASSUME SessionsInv, ssReq' \in [SsSlots -> SsReqs], UNCHANGED <<ssCred, ssSession, ssSeen, ssNow>>
  PROVE  SessionsInv'
BY CredsKept DEF SessionsInv, SessionsTyped, ExpirySound

LEMMA ServeTyped ==
  ASSUME SessionsInv, NEW l \in SsSlots, NEW q \in SsReqs, Serve(l, q)
  PROVE  ssReq' \in [SsSlots -> SsReqs]
BY DEF SessionsInv, SessionsTyped, Serve

LEMMA DeniedTyped ==
  ASSUME SessionsInv, NEW l \in SsSlots, Denied(l)
  PROVE  ssReq' \in [SsSlots -> SsReqs]
BY ServeTyped, NoReqTyped DEF Denied

LEMMA LoginInv == ASSUME SessionsInv, NEW l \in SsSlots, NEW u \in Users, Login(l, u) PROVE SessionsInv'
<1> DEFINE q == [NoReq EXCEPT !.for = "login", !.at = AfterPassword(u), !.user = u]
<1>1. q \in SsReqs
  BY DEF SsReqs, NoReq, AfterPassword
<1>2. ssReq' \in [SsSlots -> SsReqs]
  BY <1>1, ServeTyped, SessionFacts DEF Login, SessionsTyped
<1> QED BY <1>2, RequestsMove DEF Login, ssTime

LEMMA ElevateInv == ASSUME SessionsInv, NEW l \in SsSlots, NEW s \in SessionIds, Elevate(l, s) PROVE SessionsInv'
<1> DEFINE u == ssSession[s].user
           q == [NoReq EXCEPT !.for = "elevate", !.at = AfterPassword(u), !.user = u, !.sess = s]
<1>1. u \in Users \cup {0}
  BY SessionFacts DEF SsRows
<1>2. q \in SsReqs
  BY <1>1 DEF SsReqs, NoReq, AfterPassword
<1> QED BY <1>2, RequestsMove, ServeTyped DEF Elevate, ssTime

LEMMA SecondFactorInv ==
  ASSUME SessionsInv, NEW l \in SsSlots, NEW step \in CodeSteps, SecondFactor(l, step) PROVE SessionsInv'
<1>1. step \in Nat
  BY SessionFacts DEF CodeSteps
<1>2. ASSUME NEW e \in ActiveTOTP(ssReq[l].user) PROVE [ssReq[l] EXCEPT !.at = "consume", !.cred = e, !.step = step] \in SsReqs
  <2>1. ssReq[l] \in SsReqs /\ e \in Creds
    BY SessionFacts DEF ActiveTOTP, CredsOf
  <2> QED BY <1>1, <2>1 DEF SsReqs
<1>3. ssReq' \in [SsSlots -> SsReqs]
  BY <1>2, ServeTyped, DeniedTyped DEF SecondFactor
<1> QED BY <1>3, RequestsMove DEF SecondFactor, ssTime

LEMMA RecoveryInv ==
  ASSUME SessionsInv, NEW l \in SsSlots, FindRecovery(l) \/ RedeemRecovery(l) PROVE SessionsInv'
<1>1. [ssReq[l] EXCEPT !.at = "redeem"] \in SsReqs /\ [ssReq[l] EXCEPT !.at = "write"] \in SsReqs
  <2>1. ssReq[l] \in SsReqs
    BY SessionFacts
  <2> QED BY <2>1 DEF SsReqs
<1>2. ssReq' \in [SsSlots -> SsReqs]
  BY <1>1, ServeTyped, DeniedTyped DEF FindRecovery, RedeemRecovery
<1> QED BY <1>2, RequestsMove DEF FindRecovery, RedeemRecovery, ssTime

LEMMA StartConfirmInv ==
  ASSUME SessionsInv, NEW l \in SsSlots, NEW s \in SessionIds, NEW step \in CodeSteps, StartConfirm(l, s, step)
  PROVE  SessionsInv'
<1>1. PICK e \in PendingTOTP(ssSession[s].user) :
        Serve(l, [for |-> "confirm", at |-> "confirm", user |-> ssSession[s].user, cred |-> e, step |-> step, sess |-> 0])
  BY DEF StartConfirm
<1>2. step \in Nat /\ e \in Creds /\ ssSession[s].user \in Users \cup {0}
  BY SessionFacts DEF CodeSteps, PendingTOTP, CredsOf, SsRows
<1>3. [for |-> "confirm", at |-> "confirm", user |-> ssSession[s].user, cred |-> e, step |-> step, sess |-> 0] \in SsReqs
  BY <1>2 DEF SsReqs
<1> QED BY <1>1, <1>3, ServeTyped, RequestsMove DEF StartConfirm, ssTime

LEMMA EditsInv ==
  ASSUME SessionsInv, (\E u \in Users : SetState(u) \/ LockoutEnds(u)) \/ (\E s \in SessionIds : Regenerate(s)) \/ SsTick
  PROVE  SessionsInv'
<1> USE DEF SetState, LockoutEnds, Regenerate, SsTick, SsEdit
<1>1. UNCHANGED <<ssCred, ssSession, ssReq, ssSeen>> /\ ssNow' \in Nat \ {0}
  BY SessionFacts DEF ssSeen, ssTime
<1> HIDE DEF SetState, LockoutEnds, Regenerate, SsTick
<1>2. ssReq' \in [SsSlots -> SsReqs] /\ ssSession' \in [SessionIds -> SsRows] /\ ExpirySound'
  BY <1>1 DEF SessionsInv, SessionsTyped, ExpirySound
<1> QED BY <1>1, <1>2, CredsKept

\* One session's row is written.
LEMMA OneSession ==
  ASSUME SessionsInv, NEW s \in SessionIds, NEW row \in SsRows, row.idle <= row.abs,
         ssSession' = [ssSession EXCEPT ![s] = row]
  PROVE  ssSession' \in [SessionIds -> SsRows] /\ ExpirySound'
<1>1. \A t \in SessionIds : ssSession'[t] = IF t = s THEN row ELSE ssSession[t]
  BY DEF SessionsInv, SessionsTyped
<1> QED BY <1>1 DEF SessionsInv, SessionsTyped, ExpirySound

LEMMA TouchInv == ASSUME SessionsInv, NEW s \in SessionIds, Touch(s) PROVE SessionsInv'
<1>1. UNCHANGED <<ssCred, ssReq, ssSeen, ssNow>>
  BY DEF Touch, ssTime
<1>2. ssSession[s] \in SsRows
  BY SessionFacts
<1> DEFINE row == [ssSession[s] EXCEPT !.idle = Extended(ssSession[s])]
<1>3. row \in SsRows /\ row.idle <= row.abs
  <2>1. Extended(ssSession[s]) \in Nat /\ Extended(ssSession[s]) <= ssSession[s].abs
    BY <1>2, SessionFacts DEF Extended, IdleFor, SsRows
  <2> QED BY <1>2, <2>1 DEF SsRows
<1>4. ssSession' = [ssSession EXCEPT ![s] = NoSession] \/ ssSession' = [ssSession EXCEPT ![s] = row]
  BY <1>2 DEF Touch, SessionsInv, SessionsTyped, SsRows
<1> HIDE DEF row
<1>5. ssSession' \in [SessionIds -> SsRows] /\ ExpirySound'
  BY <1>3, <1>4, OneSession, NoReqTyped
<1>6. ssReq' \in [SsSlots -> SsReqs] /\ ssNow' \in Nat \ {0}
  BY <1>1 DEF SessionsInv, SessionsTyped
<1> QED BY <1>1, <1>5, <1>6, CredsKept

LEMMA LogoutInv == ASSUME SessionsInv, NEW s \in SessionIds, Logout(s) PROVE SessionsInv'
<1>1. UNCHANGED <<ssCred, ssReq, ssSeen, ssNow>> /\ ssSession' = [ssSession EXCEPT ![s] = NoSession]
  BY DEF Logout, SsEdit
<1>2. ssReq' \in [SsSlots -> SsReqs] /\ ssNow' \in Nat \ {0}
  BY <1>1 DEF SessionsInv, SessionsTyped
<1> QED BY <1>1, <1>2, CredsKept, OneSession, NoReqTyped

LEMMA StartSessionInv == ASSUME SessionsInv, NEW l \in SsSlots, StartSession(l) PROVE SessionsInv'
<1>1. PICK s \in SessionIds : ssSession' = [ssSession EXCEPT ![s] = Created(ssReq[l].user)]
  BY DEF StartSession
<1>2. ssReq[l] \in SsReqs /\ ssNow \in Nat
  BY SessionFacts
<1>3. Created(ssReq[l].user) \in SsRows /\ Created(ssReq[l].user).idle <= Created(ssReq[l].user).abs
  BY <1>2 DEF Created, SsRows, SsReqs, IdleFor, AbsoluteFor
<1>4. UNCHANGED <<ssCred, ssSeen, ssNow>> /\ ssReq' \in [SsSlots -> SsReqs] /\ ssNow' \in Nat \ {0}
  BY ServeTyped, NoReqTyped, SessionFacts DEF StartSession, ssTime, SessionsTyped
<1> QED BY <1>1, <1>3, <1>4, OneSession, CredsKept

LEMMA RaiseSessionInv == ASSUME SessionsInv, NEW l \in SsSlots, RaiseSession(l) PROVE SessionsInv'
<1>1. UNCHANGED <<ssCred, ssSeen, ssNow>> /\ ssReq' \in [SsSlots -> SsReqs] /\ ssNow' \in Nat \ {0}
  BY ServeTyped, NoReqTyped, SessionFacts DEF RaiseSession, ssTime, SessionsTyped
<1>2. CASE ssSession' = ssSession
  BY <1>1, <1>2, RequestsMove
<1>3. CASE ssSession' = [ssSession EXCEPT ![ssReq[l].sess].high = TRUE] /\ ssReq[l].sess \in SessionIds
  <2>1. PICK s \in SessionIds : s = ssReq[l].sess
    BY <1>3
  <2>2. ssSession[s] \in SsRows /\ ssSession[s].idle <= ssSession[s].abs
    BY SessionFacts DEF SessionsInv, ExpirySound
  <2> DEFINE row == [ssSession[s] EXCEPT !.high = TRUE]
  <2>3. row \in SsRows /\ row.idle <= row.abs
    BY <2>2 DEF SsRows
  <2>4. ssSession' = [ssSession EXCEPT ![s] = row]
    BY <1>3, <2>1, <2>2 DEF SessionsInv, SessionsTyped, SsRows
  <2> HIDE DEF row
  <2> QED BY <1>1, <2>3, <2>4, OneSession, CredsKept
<1>4. \/ ssSession' = ssSession
      \/ ssSession' = [ssSession EXCEPT ![ssReq[l].sess].high = TRUE] /\ ssReq[l].sess \in SessionIds
  <2>1. ssSession' = ssSession \/ ssSession' = [ssSession EXCEPT ![ssReq[l].sess].high = TRUE]
    BY DEF RaiseSession, Raised
  <2>2. ssReq[l].sess \notin SessionIds => [ssSession EXCEPT ![ssReq[l].sess].high = TRUE] = ssSession
    BY DEF SessionsInv, SessionsTyped
  <2> QED BY <2>1, <2>2
<1> QED BY <1>2, <1>3, <1>4

LEMMA RevokeAllInv == ASSUME SessionsInv, NEW l \in SsSlots, RevokeAll(l) PROVE SessionsInv'
<1>1. UNCHANGED <<ssCred, ssSeen, ssNow>> /\ ssReq' \in [SsSlots -> SsReqs] /\ ssNow' \in Nat \ {0}
  BY ServeTyped, NoReqTyped, SessionFacts DEF RevokeAll, ssTime, SsFault, SessionsTyped
<1>2. ssSession' = ssSession \/ ssSession' = RevokedOf(ssReq[l].user)
  BY DEF RevokeAll
<1>3. ssSession' \in [SessionIds -> SsRows] /\ ExpirySound'
  <2>1. CASE ssSession' = ssSession
    BY <2>1 DEF SessionsInv, SessionsTyped, ExpirySound
  <2>2. CASE ssSession' = RevokedOf(ssReq[l].user)
    <3>1. \A s \in SessionIds : ssSession'[s] = NoSession \/ ssSession'[s] = ssSession[s]
      BY <2>2 DEF RevokedOf
    <3>2. \A s \in SessionIds : ssSession'[s] \in SsRows /\ ssSession'[s].idle <= ssSession'[s].abs
      BY <3>1, SessionFacts, NoReqTyped DEF SessionsInv, ExpirySound
    <3>3. ssSession' \in [SessionIds -> SsRows]
      BY <2>2, <3>2 DEF RevokedOf
    <3> QED BY <3>2, <3>3 DEF ExpirySound
  <2> QED BY <1>2, <2>1, <2>2
<1> QED BY <1>1, <1>3, CredsKept

-----------------------------------------------------------------------------
\* Enrollments.

\* A code is accepted when its step is later than all that the enrollment accepted.
LEMMA ConsumeInv == ASSUME SessionsInv, NEW l \in SsSlots, Consume(l) PROVE SessionsInv'
<1> DEFINE q == ssReq[l]
<1>1. q \in SsReqs /\ q.at = "consume" /\ q.cred \in Creds /\ q.step \in Nat
  BY SessionFacts DEF Consume, SsReqs
<1>2. UNCHANGED <<ssSession, ssNow>>
  BY DEF Consume, ssTime
<1>3. CASE ~Consumable(q.cred, q.step)
  BY <1>3, DeniedTyped, RequestsMove, <1>2 DEF Consume
<1>4. CASE Consumable(q.cred, q.step)
  <2>1. PICK e \in Creds, step \in Nat : e = q.cred /\ step = q.step
    BY <1>1
  <2>2. /\ ssCred[e].state = "active" /\ ssCred[e].last < step /\ Accept(e, step)
        /\ ssCred' = [ssCred EXCEPT ![e].last = step]
        /\ Serve(l, [q EXCEPT !.at = "write", !.cred = 0, !.step = 0])
    BY <1>4, <2>1 DEF Consume, Consumable
  <2>3. ssReq' \in [SsSlots -> SsReqs]
    <3>1. [q EXCEPT !.at = "write", !.cred = 0, !.step = 0] \in SsReqs
      BY <1>1 DEF SsReqs
    <3> QED BY <2>2, <3>1, ServeTyped
  <2>4. /\ ssCred' \in [Creds -> SsCreds]
        /\ ssCred'[e].last = step /\ ssCred'[e].state = "active" /\ ssCred'[e].user = ssCred[e].user
        /\ \A d \in Creds : d # e => ssCred'[d] = ssCred[d]
    <3>1. ssCred \in [Creds -> SsCreds] /\ ssCred[e] \in SsCreds
      BY DEF SessionsInv, SessionsTyped
    <3> QED BY <2>2, <3>1 DEF SsCreds
  <2>5. OneOfEach'
    BY <2>2, <2>4 DEF OneOfEach, SessionsInv
  <2>6. <<e, step>> \notin ssUsed
    BY <2>2, SessionFacts DEF SessionsInv, StepsCounted, SsCreds
  <2>7. ssUsed' = ssUsed \cup {<<e, step>>} /\ ~ssTwice'
    BY <2>2, <2>6 DEF Accept, SessionsInv
  <2>8. StepsCounted'
    <3> SUFFICES ASSUME NEW d \in Creds, NEW k \in Nat, <<d, k>> \in ssUsed'
                 PROVE  ssCred'[d].state \in {"active", "disabled"} /\ k <= ssCred'[d].last
      BY DEF StepsCounted
    <3>1. ssCred[d] \in SsCreds
      BY SessionFacts
    <3>2. CASE <<d, k>> \in ssUsed
      <4>1. ssCred[d].state \in {"active", "disabled"} /\ k <= ssCred[d].last /\ ssCred[d].last \in Nat
        BY <3>1, <3>2 DEF SessionsInv, StepsCounted, SsCreds
      <4> QED BY <2>2, <2>4, <4>1
    <3>3. CASE d = e /\ k = step
      BY <2>4, <3>3
    <3> QED BY <2>7, <3>2, <3>3
  <2>9. ssUsed' \subseteq Creds \X Nat
    BY <2>7 DEF SessionsInv, SessionsTyped
  <2> QED BY <1>2, <2>3, <2>4, <2>5, <2>7, <2>8, <2>9 DEF SessionsInv, SessionsTyped, ExpirySound
<1> QED BY <1>3, <1>4

\* A change of states: an enrollment that is or was in force is not taken back, and
\* keeps its last step.
StatesChange ==
    \A e \in Creds : ssCred[e].state \in {"active", "disabled"} =>
                        ssCred'[e].state \in {"active", "disabled"} /\ ssCred'[e].last >= ssCred[e].last

LEMMA StatesInv ==
  ASSUME SessionsInv, ssCred' \in [Creds -> SsCreds], StatesChange, OneOfEach',
         ssReq' \in [SsSlots -> SsReqs], UNCHANGED <<ssSession, ssSeen, ssNow>>
  PROVE  SessionsInv'
<1>1. StepsCounted'
  <2> SUFFICES ASSUME NEW d \in Creds, NEW k \in Nat, <<d, k>> \in ssUsed
               PROVE  ssCred'[d].state \in {"active", "disabled"} /\ k <= ssCred'[d].last
    BY DEF StepsCounted, ssSeen
  <2>1. ssCred[d].state \in {"active", "disabled"} /\ k <= ssCred[d].last /\ ssCred[d].last \in Nat /\ ssCred'[d].last \in Nat
    BY SessionFacts DEF SessionsInv, StepsCounted, SsCreds
  <2> QED BY <2>1 DEF StatesChange
<1> QED BY <1>1 DEF SessionsInv, SessionsTyped, ExpirySound, ssSeen

LEMMA EnrollInv == ASSUME SessionsInv, NEW s \in SessionIds, Enroll(s) PROVE SessionsInv'
<1>1. PICK u \in Users \cup {0} : u = ssSession[s].user
  BY SessionFacts DEF SsRows
<1>2. PICK e \in Creds :
        /\ ssCred[e].state = "none"
        /\ ssCred' = [d \in Creds |-> IF d = e THEN [NoCred EXCEPT !.user = u, !.state = "pending"]
                        ELSE IF d \in PendingTOTP(u) THEN [ssCred[d] EXCEPT !.state = "disabled"] ELSE ssCred[d]]
  BY <1>1 DEF Enroll
<1> DEFINE new == [NoCred EXCEPT !.user = u, !.state = "pending"]
           off(d) == [ssCred[d] EXCEPT !.state = "disabled"]
<1>3. new \in SsCreds /\ new.user = u /\ new.state = "pending" /\ new.last = 0
  BY DEF SsCreds, NoCred
<1>4. ASSUME NEW d \in Creds
      PROVE off(d) \in SsCreds /\ off(d).user = ssCred[d].user /\ off(d).state = "disabled" /\ off(d).last = ssCred[d].last
  <2>1. ssCred[d] \in SsCreds
    BY SessionFacts
  <2> QED BY <2>1 DEF SsCreds
<1>5. /\ ssCred'[e] = new
      /\ \A d \in Creds : d # e /\ d \in PendingTOTP(u) => ssCred'[d] = off(d)
      /\ \A d \in Creds : d # e /\ d \notin PendingTOTP(u) => ssCred'[d] = ssCred[d]
  BY <1>2
<1> HIDE DEF new, off
<1>6. ssCred' \in [Creds -> SsCreds]
  <2>1. \A d \in Creds : ssCred'[d] \in SsCreds
    BY <1>3, <1>4, <1>5, SessionFacts
  <2> QED BY <1>2, <2>1
<1>7. ASSUME NEW d \in Creds
      PROVE  ssCred[d].state \in {"active", "disabled"} =>
               ssCred'[d].state \in {"active", "disabled"} /\ ssCred'[d].last >= ssCred[d].last
  <2>1. ssCred[d].last \in Nat
    BY SessionFacts DEF SsCreds
  <2>2. CASE d = e
    BY <1>2, <2>2
  <2>3. CASE d # e
    BY <1>4, <1>5, <2>1, <2>3
  <2> QED BY <2>2, <2>3
<1>8. OneOfEach'
  <2> SUFFICES ASSUME NEW c \in Creds, NEW d \in Creds, ssCred'[c].user = ssCred'[d].user,
                      ssCred'[c].state = ssCred'[d].state, ssCred'[c].state \in {"pending", "active"}
               PROVE  c = d
    BY DEF OneOfEach
  <2>1. \A k \in Creds : k # e /\ ssCred'[k].state \in {"pending", "active"} =>
          ssCred'[k] = ssCred[k] /\ ~(ssCred[k].user = u /\ ssCred[k].state = "pending")
    BY <1>4, <1>5 DEF PendingTOTP, CredsOf
  <2>2. CASE c # e /\ d # e
    BY <2>1, <2>2 DEF SessionsInv, OneOfEach
  <2>3. CASE c = e \/ d = e
    BY <1>3, <1>5, <2>1, <2>3
  <2> QED BY <2>2, <2>3
<1>9. ssReq' \in [SsSlots -> SsReqs] /\ UNCHANGED <<ssSession, ssSeen, ssNow>>
  BY SessionFacts DEF Enroll, ssTime, SessionsTyped
<1> QED BY <1>6, <1>7, <1>8, <1>9, StatesInv DEF StatesChange

LEMMA DisableTOTPInv ==
  ASSUME SessionsInv, NEW l \in SsSlots, NEW s \in SessionIds, DisableTOTP(l, s) PROVE SessionsInv'
<1> DEFINE u == ssSession[s].user
           off(d) == [ssCred[d] EXCEPT !.state = "disabled"]
<1>1. u \in Users \cup {0}
  BY SessionFacts DEF SsRows
<1>2. ASSUME NEW d \in Creds
      PROVE off(d) \in SsCreds /\ off(d).user = ssCred[d].user /\ off(d).state = "disabled" /\ off(d).last = ssCred[d].last
  <2>1. ssCred[d] \in SsCreds
    BY SessionFacts
  <2> QED BY <2>1 DEF SsCreds
<1>3. ssCred' = [d \in Creds |-> IF d \in Undisabled(u) THEN off(d) ELSE ssCred[d]]
  BY DEF DisableTOTP
<1> HIDE DEF off
<1>4. \A d \in Creds : ssCred'[d] = off(d) \/ ssCred'[d] = ssCred[d]
  BY <1>3
<1>5. ssCred' \in [Creds -> SsCreds]
  <2>1. \A d \in Creds : ssCred'[d] \in SsCreds
    BY <1>2, <1>4, SessionFacts
  <2> QED BY <1>3, <2>1
<1>6. StatesChange
  BY <1>2, <1>4, SessionFacts DEF StatesChange, SsCreds
<1>7. OneOfEach'
  BY <1>2, <1>4 DEF OneOfEach, SessionsInv
<1>8. ssReq' \in [SsSlots -> SsReqs] /\ UNCHANGED <<ssSession, ssSeen, ssNow>>
  <2>1. [NoReq EXCEPT !.for = "disable", !.at = "revoke", !.user = u] \in SsReqs
    BY <1>1 DEF SsReqs, NoReq
  <2> QED BY <2>1, ServeTyped DEF DisableTOTP, SsEdit
<1> QED BY <1>5, <1>6, <1>7, <1>8, StatesInv

\* An enrollment that is confirmed has accepted nothing before, and is then the only
\* one in force.
LEMMA ConfirmInv == ASSUME SessionsInv, NEW l \in SsSlots, Confirm(l) PROVE SessionsInv'
<1>1. ssReq[l] \in SsReqs /\ ssReq[l].at = "confirm" /\ ssReq[l].cred \in Creds /\ ssReq[l].step \in Nat
  BY SessionFacts DEF Confirm, SsReqs
<1>2. ssReq' \in [SsSlots -> SsReqs] /\ UNCHANGED <<ssSession, ssNow>>
  BY ServeTyped, NoReqTyped DEF Confirm, ssTime, SsFault
<1>3. PICK e \in Creds, step \in Nat : e = ssReq[l].cred /\ step = ssReq[l].step
  BY <1>1
<1>4. CASE ssCred[e].state # "pending"
  BY <1>2, <1>3, <1>4, RequestsMove DEF Confirm
<1>5. CASE ssCred[e].state = "pending"
  <2> DEFINE on == [ssCred[e] EXCEPT !.state = "active", !.last = step]
             off(d) == [ssCred[d] EXCEPT !.state = "disabled"]
  <2>1. /\ Accept(e, step)
        /\ ssCred' = [d \in Creds |-> IF d = e THEN on ELSE IF ssCred[d].state = "active" THEN off(d) ELSE ssCred[d]]
    BY <1>3, <1>5 DEF Confirm
  <2>2. on \in SsCreds /\ on.user = ssCred[e].user /\ on.state = "active" /\ on.last = step
    <3>1. ssCred[e] \in SsCreds
      BY SessionFacts
    <3> QED BY <3>1 DEF SsCreds
  <2>3. ASSUME NEW d \in Creds
        PROVE off(d) \in SsCreds /\ off(d).user = ssCred[d].user /\ off(d).state = "disabled" /\ off(d).last = ssCred[d].last
    <3>1. ssCred[d] \in SsCreds
      BY SessionFacts
    <3> QED BY <3>1 DEF SsCreds
  <2>4. /\ ssCred'[e] = on
        /\ \A d \in Creds : d # e /\ ssCred[d].state = "active" => ssCred'[d] = off(d)
        /\ \A d \in Creds : d # e /\ ssCred[d].state # "active" => ssCred'[d] = ssCred[d]
    BY <2>1
  <2> HIDE DEF on, off
  <2>5. ssCred' \in [Creds -> SsCreds]
    <3>1. \A d \in Creds : ssCred'[d] \in SsCreds
      BY <2>2, <2>3, <2>4, SessionFacts
    <3> QED BY <2>1, <3>1
  <2>6. OneOfEach'
    <3>1. \A d \in Creds : d # e => ssCred'[d].state # "active" /\ (ssCred'[d].state = "pending" => ssCred'[d] = ssCred[d])
      BY <2>3, <2>4
    <3> QED BY <2>2, <2>4, <3>1 DEF OneOfEach, SessionsInv
  <2>7. \A k \in Nat : <<e, k>> \notin ssUsed
    BY <1>5 DEF SessionsInv, StepsCounted
  <2>8. ssUsed' = ssUsed \cup {<<e, step>>} /\ ~ssTwice'
    BY <2>1, <2>7 DEF Accept, SessionsInv
  <2>9. StepsCounted'
    <3> SUFFICES ASSUME NEW d \in Creds, NEW k \in Nat, <<d, k>> \in ssUsed'
                 PROVE  ssCred'[d].state \in {"active", "disabled"} /\ k <= ssCred'[d].last
      BY DEF StepsCounted
    <3>1. CASE d = e
      <4>1. k = step
        BY <2>7, <2>8, <3>1
      <4> QED BY <2>2, <2>4, <3>1, <4>1
    <3>2. CASE d # e
      <4>1. <<d, k>> \in ssUsed
        BY <2>8, <3>2
      <4>2. ssCred[d].state \in {"active", "disabled"} /\ k <= ssCred[d].last
        BY <4>1 DEF SessionsInv, StepsCounted
      <4> QED BY <2>3, <2>4, <3>2, <4>2
    <3> QED BY <3>1, <3>2
  <2>10. ssUsed' \subseteq Creds \X Nat
    BY <2>8 DEF SessionsInv, SessionsTyped
  <2> QED BY <1>2, <2>5, <2>6, <2>8, <2>9, <2>10 DEF SessionsInv, SessionsTyped, ExpirySound
<1> QED BY <1>4, <1>5

LEMMA SessionsStep == SessionsInv /\ [SessionsNext]_sessionsVars => SessionsInv'
<1> SUFFICES ASSUME SessionsInv, [SessionsNext]_sessionsVars PROVE SessionsInv'
  OBVIOUS
<1>1. CASE SessionsNext
  BY <1>1, EditsInv, TouchInv, LogoutInv, EnrollInv, ConsumeInv, RecoveryInv, StartSessionInv, RaiseSessionInv,
     ConfirmInv, RevokeAllInv, LoginInv, SecondFactorInv, ElevateInv, DisableTOTPInv, StartConfirmInv DEF SessionsNext
<1>2. CASE UNCHANGED sessionsVars
  <2>1. UNCHANGED <<ssCred, ssSession, ssReq, ssSeen, ssNow>>
    BY <1>2 DEF sessionsVars, ssTime
  <2> QED BY <2>1, RequestsMove DEF SessionsInv, SessionsTyped
<1> QED BY <1>1, <1>2

\* Signing in (handlers.go:258-456, mfa.go, totp.go:136-197), for any users, requests
\* and clock: however requests race, a code of an enrollment is accepted once, a user
\* has at most one factor in force and one pending, and a session is never stretched
\* beyond its absolute expiry.
THEOREM SignInsCorrect == SessionsSpec => []SignInsSound
<1>1. SessionsSpec => []SessionsInv
  BY SessionsInitInv, SessionsStep, PTL DEF SessionsSpec
<1> QED BY <1>1, InvSignIns, PTL
=============================================================================
