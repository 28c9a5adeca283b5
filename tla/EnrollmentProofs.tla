------------------------- MODULE EnrollmentProofs --------------------------
(***************************************************************************)
(* Proofs about Enrollment, for any number of hosts, names, tokens,        *)
(* requests, heartbeats and delete requests: a token pays for one server,  *)
(* names in service are unique, a deleted server is revoked and stays      *)
(* deleted, and an agent runs as the server its own host enrolled.         *)
(***************************************************************************)
EXTENDS Enrollment, TLAPS

\* A request that was sent names its token and its host; one in its transaction
\* holds an unspent token, and holds it alone.
ClaimsHeld ==
    /\ \A q \in Requests : stage[q] # "none" => asks[q] \in Tokens /\ by[q] \in Hosts
    /\ \A q \in Requests : stage[q] = "claimed" => token[asks[q]] \in {"live", "expired"}
    /\ \A p, q \in Requests : stage[p] = "claimed" /\ stage[q] = "claimed"
                                 /\ asks[p] = asks[q] => p = q

\* Committed requests made one server each, and different ones.
MadeOnce ==
    /\ \A q \in Requests : stage[q] = "committed" <=> made[q] # None
    /\ \A q \in Requests : made[q] # None => status[made[q]] # "absent"
    /\ \A p, q \in Requests : made[p] # None /\ made[p] = made[q] => p = q

\* Server s was created by a request of host h.
Issued(s, h) == \E q \in Requests : by[q] = h /\ made[q] = s

\* A command waits for a request of its own host, and past the answer that
\* request is committed; the files and the running agent name servers that were
\* created for their host.
HostsOwn ==
    \A h \in Hosts :
        /\ step[h] # "idle" => req[h] \in Requests /\ by[req[h]] = h
                                 /\ stage[req[h]] # "none"
        /\ step[h] \in {"identity", "root"} => stage[req[h]] = "committed"
        /\ identity[h] # None => Issued(identity[h], h)
        /\ config[h] # None => Issued(config[h], h)
        /\ runs[h] # None => presents[h] = runs[h] /\ Issued(runs[h], h)

\* A delete request past the revocation has revoked.
DeletesOrdered ==
    \A d \in Deleters :
        /\ del[d] # "idle" => target[d] \in Servers /\ status[target[d]] # "absent"
        /\ del[d] = "tombstone" => cert[target[d]] = "revoked"

\* A heartbeat under way is from a server and has a time.
BeatsKnown ==
    \A b \in Beats : beat[b] \in {"sent", "checked"} =>
        about[b].cert \in Servers /\ about[b].claims \in Servers /\ about[b].at \in Times

\* The inductive invariant.
IInv == TypeOK /\ ClaimsHeld /\ MadeOnce /\ TokenBuysOneServer /\ LiveNamesUnique
               /\ HostsOwn /\ DeletesOrdered /\ DeletedIsRevoked /\ BeatsKnown
               /\ LastSeenIsNewest

-----------------------------------------------------------------------------
(* Helpers *)

\* None is no row's number.
LEMMA NoneIsNo == None \notin Tokens /\ None \notin Requests /\ None \notin Servers
                    /\ None \notin Times
  BY BoundsAssumption DEF None, Tokens, Requests, Servers, Times

\* The invariant holds on an empty database.
LEMMA InitInv == Init => IInv
<1> SUFFICES ASSUME Init PROVE IInv
  OBVIOUS
<1> USE NoneIsNo DEF Init
<1>1. TypeOK
  BY DEF TypeOK, NoBeat
<1>2. ClaimsHeld /\ MadeOnce /\ TokenBuysOneServer /\ LiveNamesUnique
  BY DEF ClaimsHeld, MadeOnce, TokenBuysOneServer, LiveNamesUnique
<1>3. HostsOwn /\ DeletesOrdered /\ DeletedIsRevoked
  BY DEF HostsOwn, DeletesOrdered, DeletedIsRevoked
<1>4. BeatsKnown /\ LastSeenIsNewest
  BY DEF BeatsKnown, LastSeenIsNewest
<1> QED BY <1>1, <1>2, <1>3, <1>4 DEF IInv

-----------------------------------------------------------------------------
(* The type invariant *)

\* Every operation keeps the types.
LEMMA NextType == IInv /\ [Next]_vars => TypeOK'
<1> SUFFICES ASSUME IInv, [Next]_vars PROVE TypeOK'
  OBVIOUS
<1> USE NoneIsNo DEF IInv, TypeOK, tokens, servers, observed, requests, command, files,
                     agent, beats, deletes
<1>1. ASSUME NEW t \in Tokens, NEW n \in Names, CreateToken(t, n) PROVE TypeOK'
  BY <1>1 DEF CreateToken
<1>2. ASSUME NEW t \in Tokens, RevokeToken(t) \/ ExpireToken(t) PROVE TypeOK'
  BY <1>2 DEF RevokeToken, ExpireToken
<1>3. ASSUME NEW q \in Requests, RedeemClaim(q) \/ RedeemRefuse(q) PROVE TypeOK'
  BY <1>3 DEF RedeemClaim, RedeemRefuse
<1>4. ASSUME NEW q \in Requests, NEW s \in Servers, RedeemCommit(q, s) PROVE TypeOK'
  <2>1. asks[q] \in Tokens
    BY <1>4 DEF RedeemCommit, ClaimsHeld
  <2> QED BY <1>4, <2>1 DEF RedeemCommit, Spent
<1>5. ASSUME NEW b \in Beats, CheckBeat(b) PROVE TypeOK'
  BY <1>5 DEF CheckBeat
<1>6. ASSUME NEW b \in Beats, RecordBeat(b) PROVE TypeOK'
  <2>1. about[b].claims \in Servers /\ about[b].at \in Times
    BY <1>6 DEF RecordBeat, BeatsKnown
  <2>2. Newer(about[b].claims, about[b].at) \in Times \cup {None}
    BY <2>1 DEF Newer
  <2>3. rows' \in [Servers -> SUBSET Times] /\ seen' \in [Servers -> Times \cup {None}]
    <3>1. CASE UNCHANGED observed
      BY <3>1
    <3>2. CASE /\ rows' = [rows EXCEPT ![about[b].claims] = @ \cup {about[b].at}]
               /\ seen' = [seen EXCEPT ![about[b].claims] = Newer(about[b].claims, about[b].at)]
      BY <3>2, <2>1, <2>2
    <3> QED BY <1>6, <3>1, <3>2 DEF RecordBeat
  <2> QED BY <1>6, <2>3 DEF RecordBeat
<1>7. ASSUME NEW d \in Deleters, NEW s \in Servers, DeleteBegin(d, s) PROVE TypeOK'
  BY <1>7 DEF DeleteBegin
<1>8. ASSUME NEW d \in Deleters, RevokeCertificate(d) PROVE TypeOK'
  BY <1>8 DEF RevokeCertificate
<1>9. ASSUME NEW d \in Deleters, SetDeleted(d) \/ DeleteFails(d) PROVE TypeOK'
  BY <1>9 DEF SetDeleted, DeleteFails
<1>10. ASSUME NEW h \in Hosts, NEW q \in Requests, NEW t \in Tokens, Enroll(h, q, t)
       PROVE TypeOK'
  BY <1>10 DEF Enroll
<1>11. ASSUME NEW h \in Hosts, WriteIdentity(h) \/ WriteConfig(h) PROVE TypeOK'
  <2>1. made[req[h]] \in Servers \cup {None}
    BY <1>11 DEF WriteIdentity, WriteConfig, HostsOwn
  <2>2. CASE WriteIdentity(h)
    BY <2>1, <2>2 DEF WriteIdentity
  <2>3. CASE WriteConfig(h)
    BY <2>1, <2>3 DEF WriteConfig
  <2> QED BY <1>11, <2>2, <2>3
<1>12. ASSUME NEW h \in Hosts, WriteRoot(h) \/ EnrollFails(h) PROVE TypeOK'
  BY <1>12 DEF WriteRoot, EnrollFails
<1>13. ASSUME NEW h \in Hosts, StartAgent(h) \/ StopAgent(h) PROVE TypeOK'
  <2>1. runs' \in [Hosts -> Servers \cup {None}] /\ presents' \in [Hosts -> Servers \cup {None}]
    <3>1. CASE StartAgent(h)
      BY <3>1 DEF StartAgent
    <3>2. CASE StopAgent(h)
      BY <3>2 DEF StopAgent
    <3> QED BY <1>13, <3>1, <3>2
  <2>2. UNCHANGED <<tokens, servers, observed, requests, command, files, beats, deletes>>
    BY <1>13 DEF StartAgent, StopAgent
  <2> QED BY <2>1, <2>2
<1>14. ASSUME NEW h \in Hosts, NEW b \in Beats, NEW o \in Times, Beat(h, b, o) PROVE TypeOK'
  BY <1>14 DEF Beat
<1>15. CASE UNCHANGED vars
  BY <1>15 DEF vars
<1> QED BY <1>1, <1>2, <1>3, <1>4, <1>5, <1>6, <1>7, <1>8, <1>9, <1>10, <1>11, <1>12,
           <1>13, <1>14, <1>15 DEF Next, Controller, Host

-----------------------------------------------------------------------------
(* Tokens, requests and servers *)

\* The steps that change tokens, requests or servers other than a certificate.
LEMMA StoreSteps ==
    ASSUME [Next]_vars
    PROVE  \/ \E t \in Tokens, n \in Names : CreateToken(t, n)
           \/ \E t \in Tokens : RevokeToken(t) \/ ExpireToken(t)
           \/ \E q \in Requests : RedeemClaim(q) \/ RedeemRefuse(q)
           \/ \E q \in Requests, s \in Servers : RedeemCommit(q, s)
           \/ \E h \in Hosts, q \in Requests, t \in Tokens : Enroll(h, q, t)
           \/ \E d \in Deleters : SetDeleted(d)
           \/ UNCHANGED <<tokens, status, name, source, requests>>
  BY DEF Next, Controller, Host, vars, servers, CheckBeat, RecordBeat, DeleteBegin,
         RevokeCertificate, DeleteFails, WriteIdentity, WriteRoot, WriteConfig,
         EnrollFails, StartAgent, StopAgent, Beat

\* The single-use gate: a redemption holds its token alone until it commits, so
\* that what it makes is paid for once.
LEMMA NextStore ==
    IInv /\ [Next]_vars => ClaimsHeld' /\ MadeOnce' /\ TokenBuysOneServer' /\ LiveNamesUnique'
<1> DEFINE Store == ClaimsHeld /\ MadeOnce /\ TokenBuysOneServer /\ LiveNamesUnique
<1> SUFFICES ASSUME IInv, [Next]_vars PROVE Store'
  OBVIOUS
<1>a. TypeOK'
  BY NextType
<1> USE NoneIsNo, <1>a DEF IInv, TypeOK, ClaimsHeld, MadeOnce, TokenBuysOneServer,
                     LiveNamesUnique, tokens, servers, requests
<1>1. ASSUME NEW t \in Tokens, NEW n \in Names, CreateToken(t, n) PROVE Store'
  BY <1>1 DEF CreateToken
<1>2. ASSUME NEW t \in Tokens, RevokeToken(t) PROVE Store'
  BY <1>2 DEF RevokeToken, Locked
<1>3. ASSUME NEW t \in Tokens, ExpireToken(t) PROVE Store'
  BY <1>3 DEF ExpireToken
<1>4. ASSUME NEW q \in Requests, RedeemClaim(q) PROVE Store'
  BY <1>4 DEF RedeemClaim, Claimable, Locked
<1>5. ASSUME NEW q \in Requests, RedeemRefuse(q) PROVE Store'
  BY <1>5 DEF RedeemRefuse
<1>6. ASSUME NEW q \in Requests, NEW s \in Servers, RedeemCommit(q, s) PROVE Store'
  <2>1. asks[q] \in Tokens /\ token[asks[q]] # "used"
    BY <1>6 DEF RedeemCommit
  <2>2. ClaimsHeld'
    BY <1>6, <2>1 DEF RedeemCommit, Spent
  <2>3. MadeOnce'
    BY <1>6 DEF RedeemCommit
  <2>4. TokenBuysOneServer'
    <3>1. \A t \in Tokens : token'[t] = IF t = asks[q] THEN "used" ELSE token[t]
      BY <1>6, <2>1 DEF RedeemCommit, Spent
    <3>2. /\ \A r \in Servers : r # s => status'[r] = status[r] /\ source'[r] = source[r]
          /\ status[s] = "absent" /\ status'[s] = "active" /\ source'[s] = asks[q]
      BY <1>6 DEF RedeemCommit
    <3>3. \A r \in Servers : status[r] # "absent" => source[r] # asks[q]
      BY <2>1
    <3>4. \A r, u \in Servers : status'[r] # "absent" /\ status'[u] # "absent"
                                   /\ source'[r] = source'[u] => r = u
      BY <3>2, <3>3
    <3>5. ASSUME NEW t \in Tokens
          PROVE  token'[t] = "used" <=> \E r \in Servers : status'[r] # "absent" /\ source'[r] = t
      <4>1. CASE t = asks[q]
        BY <3>1, <3>2, <4>1
      <4>2. CASE t # asks[q]
        <5>1. \A r \in Servers : status'[r] # "absent" /\ source'[r] = t
                                  <=> status[r] # "absent" /\ source[r] = t
          BY <3>2, <4>2
        <5>2. token[t] = "used" <=> \E r \in Servers : status[r] # "absent" /\ source[r] = t
          OBVIOUS
        <5> QED BY <3>1, <4>2, <5>1, <5>2
      <4> QED BY <4>1, <4>2
    <3> QED BY <3>4, <3>5
  <2>5. LiveNamesUnique'
    BY <1>6 DEF RedeemCommit, NameFree
  <2> QED BY <2>2, <2>3, <2>4, <2>5
<1>7. ASSUME NEW h \in Hosts, NEW q \in Requests, NEW t \in Tokens, Enroll(h, q, t)
      PROVE  Store'
  BY <1>7 DEF Enroll
<1>8. ASSUME NEW d \in Deleters, SetDeleted(d) PROVE Store'
  <2>1. \A s \in Servers : /\ status'[s] # "absent" <=> status[s] # "absent"
                           /\ status'[s] = "active" => status[s] = "active"
    BY <1>8 DEF SetDeleted, DeletesOrdered
  <2> QED BY <1>8, <2>1 DEF SetDeleted
<1>9. CASE UNCHANGED <<tokens, status, name, source, requests>>
  BY <1>9
<1> QED BY <1>1, <1>2, <1>3, <1>4, <1>5, <1>6, <1>7, <1>8, <1>9, StoreSteps

-----------------------------------------------------------------------------
(* Hosts and agents *)

\* The steps that change a host's command, files or agent.
LEMMA HostSteps ==
    ASSUME [Next]_vars
    PROVE  \/ \E h \in Hosts, q \in Requests, t \in Tokens : Enroll(h, q, t)
           \/ \E h \in Hosts : \/ WriteIdentity(h) \/ WriteRoot(h) \/ WriteConfig(h)
                               \/ EnrollFails(h) \/ StartAgent(h) \/ StopAgent(h)
           \/ UNCHANGED <<command, files, agent>>
  BY DEF Next, Controller, Host, vars, CreateToken, RevokeToken, ExpireToken, RedeemClaim,
         RedeemRefuse, RedeemCommit, CheckBeat, RecordBeat, DeleteBegin, RevokeCertificate,
         SetDeleted, DeleteFails, Beat

\* Requests only go forward: what one was sent with and what it made stays.
LEMMA RequestsGrow ==
    ASSUME IInv, [Next]_vars, NEW q \in Requests, stage[q] # "none"
    PROVE  /\ by'[q] = by[q] /\ stage'[q] # "none"
           /\ stage[q] = "committed" => stage'[q] = "committed" /\ made'[q] = made[q]
<1> USE DEF IInv, TypeOK, requests
<1>1. ASSUME NEW h \in Hosts, NEW p \in Requests, NEW t \in Tokens, Enroll(h, p, t)
      PROVE  p # q /\ by'[q] = by[q] /\ stage'[q] = stage[q] /\ made'[q] = made[q]
  BY <1>1 DEF Enroll
<1>2. ASSUME NEW p \in Requests, RedeemClaim(p) \/ RedeemRefuse(p)
      PROVE  /\ by'[q] = by[q] /\ made'[q] = made[q] /\ stage'[q] # "none"
             /\ stage[q] = "committed" => stage'[q] = "committed"
  BY <1>2 DEF RedeemClaim, RedeemRefuse
<1>3. ASSUME NEW p \in Requests, NEW s \in Servers, RedeemCommit(p, s)
      PROVE  /\ by'[q] = by[q] /\ stage'[q] # "none"
             /\ stage[q] = "committed" => stage'[q] = "committed" /\ made'[q] = made[q]
  BY <1>3 DEF RedeemCommit
<1>4. CASE UNCHANGED requests
  BY <1>4
<1> QED BY <1>1, <1>2, <1>3, <1>4, StoreSteps
        DEF CreateToken, RevokeToken, ExpireToken, SetDeleted

\* What was created for a host stays created for it.
LEMMA IssuedStays ==
    ASSUME IInv, [Next]_vars, NEW s \in Servers, NEW h \in Hosts, Issued(s, h)
    PROVE  Issued(s, h)'
<1>1. PICK q \in Requests : by[q] = h /\ made[q] = s
  BY DEF Issued
<1>2. stage[q] = "committed"
  BY <1>1, NoneIsNo DEF IInv, MadeOnce
<1> QED BY <1>1, <1>2, RequestsGrow DEF Issued

\* Files and agents keep naming servers of their own host.
LEMMA NextHosts == IInv /\ [Next]_vars => HostsOwn'
<1> SUFFICES ASSUME IInv, [Next]_vars PROVE HostsOwn'
  OBVIOUS
<1> DEFINE StillIssued(s, h) == \E q \in Requests : by'[q] = h /\ made'[q] = s
<1>a. \A h \in Hosts : step[h] # "idle" =>
        /\ req[h] \in Requests /\ by'[req[h]] = h /\ stage'[req[h]] # "none"
        /\ stage[req[h]] = "committed" => stage'[req[h]] = "committed"
  BY RequestsGrow DEF IInv, HostsOwn
<1>b. \A s \in Servers, h \in Hosts : Issued(s, h) => StillIssued(s, h)
  BY IssuedStays DEF Issued
<1>c. \A h \in Hosts : step[h] # "idle" /\ stage[req[h]] = "committed" =>
        StillIssued(made[req[h]], h) /\ made[req[h]] \in Servers
  <2> SUFFICES ASSUME NEW h \in Hosts, step[h] # "idle", stage[req[h]] = "committed"
               PROVE  StillIssued(made[req[h]], h) /\ made[req[h]] \in Servers
    OBVIOUS
  <2>1. req[h] \in Requests /\ by[req[h]] = h /\ made[req[h]] # None
    BY DEF IInv, HostsOwn, MadeOnce
  <2>2. made[req[h]] \in Servers /\ Issued(made[req[h]], h)
    BY <2>1 DEF IInv, TypeOK, Issued
  <2> HIDE DEF StillIssued
  <2> QED BY <2>2, <1>b
<1>d. \A h \in Hosts : /\ identity[h] # None => StillIssued(identity[h], h)
                       /\ config[h] # None => StillIssued(config[h], h)
                       /\ runs[h] # None => StillIssued(runs[h], h)
  <2> HIDE DEF StillIssued
  <2> QED BY <1>b DEF IInv, TypeOK, HostsOwn
<1>e. \A s, h : Issued(s, h)' <=> StillIssued(s, h)
  BY DEF Issued
<1> HIDE DEF StillIssued
<1> USE NoneIsNo, <1>e DEF command, files, agent
<1>1. ASSUME NEW h \in Hosts, NEW q \in Requests, NEW t \in Tokens, Enroll(h, q, t)
      PROVE  HostsOwn'
  <2>1. /\ by' = [by EXCEPT ![q] = h] /\ stage' = [stage EXCEPT ![q] = "sent"]
        /\ step' = [step EXCEPT ![h] = "waiting"] /\ req' = [req EXCEPT ![h] = q]
        /\ UNCHANGED <<identity, config, runs, presents>>
    BY <1>1 DEF Enroll
  <2> QED BY <2>1, <1>a, <1>d DEF HostsOwn, IInv, TypeOK, Issued
<1>2. ASSUME NEW h \in Hosts, WriteIdentity(h) PROVE HostsOwn'
  BY <1>2, <1>a, <1>c, <1>d DEF WriteIdentity, HostsOwn, IInv, TypeOK
<1>3. ASSUME NEW h \in Hosts, WriteRoot(h) PROVE HostsOwn'
  BY <1>3, <1>a, <1>d DEF WriteRoot, HostsOwn, IInv, TypeOK
<1>4. ASSUME NEW h \in Hosts, WriteConfig(h) PROVE HostsOwn'
  BY <1>4, <1>a, <1>c, <1>d DEF WriteConfig, HostsOwn, IInv, TypeOK
<1>5. ASSUME NEW h \in Hosts, EnrollFails(h) PROVE HostsOwn'
  BY <1>5, <1>a, <1>d DEF EnrollFails, HostsOwn, IInv, TypeOK
<1>6. ASSUME NEW h \in Hosts, StartAgent(h) PROVE HostsOwn'
  BY <1>6, <1>a, <1>d DEF StartAgent, Loads, HostsOwn, IInv, TypeOK
<1>7. ASSUME NEW h \in Hosts, StopAgent(h) PROVE HostsOwn'
  BY <1>7, <1>a, <1>d DEF StopAgent, HostsOwn, IInv, TypeOK
<1>8. CASE UNCHANGED <<command, files, agent>>
  BY <1>8, <1>a, <1>d DEF HostsOwn, IInv, TypeOK
<1> QED BY <1>1, <1>2, <1>3, <1>4, <1>5, <1>6, <1>7, <1>8, HostSteps

-----------------------------------------------------------------------------
(* Deletion *)

\* The steps that change a server's status, its certificate or a delete request.
LEMMA DeleteSteps ==
    ASSUME [Next]_vars
    PROVE  \/ \E q \in Requests, s \in Servers : RedeemCommit(q, s)
           \/ \E d \in Deleters, s \in Servers : DeleteBegin(d, s)
           \/ \E d \in Deleters : RevokeCertificate(d) \/ SetDeleted(d) \/ DeleteFails(d)
           \/ UNCHANGED <<status, cert, del, target>>
  BY DEF Next, Controller, Host, vars, servers, deletes, CreateToken, RevokeToken,
         ExpireToken, RedeemClaim, RedeemRefuse, CheckBeat, RecordBeat, Enroll,
         WriteIdentity, WriteRoot, WriteConfig, EnrollFails, StartAgent, StopAgent, Beat

\* A tombstone comes after the revocation, and a revocation stays.
LEMMA NextDeletes == IInv /\ [Next]_vars => DeletesOrdered' /\ DeletedIsRevoked'
<1> SUFFICES ASSUME IInv, [Next]_vars PROVE DeletesOrdered' /\ DeletedIsRevoked'
  OBVIOUS
<1> USE DEF IInv, TypeOK, DeletesOrdered, DeletedIsRevoked, servers, deletes
<1>1. ASSUME NEW q \in Requests, NEW s \in Servers, RedeemCommit(q, s)
      PROVE  DeletesOrdered' /\ DeletedIsRevoked'
  BY <1>1 DEF RedeemCommit
<1>2. ASSUME NEW d \in Deleters, NEW s \in Servers, DeleteBegin(d, s)
      PROVE  DeletesOrdered' /\ DeletedIsRevoked'
  BY <1>2 DEF DeleteBegin
<1>3. ASSUME NEW d \in Deleters, RevokeCertificate(d)
      PROVE  DeletesOrdered' /\ DeletedIsRevoked'
  BY <1>3 DEF RevokeCertificate
<1>4. ASSUME NEW d \in Deleters, SetDeleted(d)
      PROVE  DeletesOrdered' /\ DeletedIsRevoked'
  BY <1>4 DEF SetDeleted
<1>5. ASSUME NEW d \in Deleters, DeleteFails(d)
      PROVE  DeletesOrdered' /\ DeletedIsRevoked'
  BY <1>5 DEF DeleteFails
<1>6. CASE UNCHANGED <<status, cert, del, target>>
  BY <1>6
<1> QED BY <1>1, <1>2, <1>3, <1>4, <1>5, <1>6, DeleteSteps

-----------------------------------------------------------------------------
(* Heartbeats *)

\* The steps that change a heartbeat or what is recorded of one.
LEMMA BeatSteps ==
    ASSUME [Next]_vars
    PROVE  \/ \E h \in Hosts, b \in Beats, o \in Times : Beat(h, b, o)
           \/ \E b \in Beats : CheckBeat(b) \/ RecordBeat(b)
           \/ UNCHANGED <<observed, beats>>
  BY DEF Next, Controller, Host, vars, CreateToken, RevokeToken, ExpireToken, RedeemClaim,
         RedeemRefuse, RedeemCommit, Enroll, WriteIdentity, WriteRoot, WriteConfig,
         EnrollFails, StartAgent, StopAgent, DeleteBegin, RevokeCertificate, SetDeleted,
         DeleteFails

\* Only RecordBeat touches what was observed, and it takes the newer time.
LEMMA NextBeats == IInv /\ [Next]_vars => BeatsKnown' /\ LastSeenIsNewest'
<1> SUFFICES ASSUME IInv, [Next]_vars PROVE BeatsKnown' /\ LastSeenIsNewest'
  OBVIOUS
<1> USE NoneIsNo DEF IInv, TypeOK, observed, beats
<1>1. ASSUME NEW h \in Hosts, NEW b \in Beats, NEW o \in Times, Beat(h, b, o)
      PROVE  BeatsKnown' /\ LastSeenIsNewest'
  <2>1. runs[h] \in Servers /\ presents[h] \in Servers
    BY <1>1 DEF Beat, HostsOwn
  <2>2. /\ beat' = [beat EXCEPT ![b] = "sent"]
        /\ about' = [about EXCEPT ![b] = [cert |-> presents[h], claims |-> runs[h], at |-> o]]
        /\ UNCHANGED <<seen, rows>>
    BY <1>1 DEF Beat
  <2>3. BeatsKnown'
    BY <2>1, <2>2 DEF BeatsKnown
  <2> QED BY <2>2, <2>3 DEF LastSeenIsNewest
<1>2. ASSUME NEW b \in Beats, CheckBeat(b) PROVE BeatsKnown' /\ LastSeenIsNewest'
  BY <1>2 DEF CheckBeat, BeatsKnown, LastSeenIsNewest
<1>3. ASSUME NEW b \in Beats, RecordBeat(b) PROVE BeatsKnown' /\ LastSeenIsNewest'
  <2> DEFINE s == about[b].claims
             o == about[b].at
  <2>1. s \in Servers /\ o \in Times
    BY <1>3 DEF RecordBeat, BeatsKnown
  <2>2. BeatsKnown'
    BY <1>3 DEF RecordBeat, BeatsKnown
  <2>3. CASE UNCHANGED <<seen, rows>>
    BY <2>2, <2>3 DEF LastSeenIsNewest
  <2>4. CASE /\ rows' = [rows EXCEPT ![s] = @ \cup {o}]
             /\ seen' = [seen EXCEPT ![s] = Newer(s, o)]
    <3> HIDE DEF s, o
    <3>1. \A r \in Servers : r # s => rows'[r] = rows[r] /\ seen'[r] = seen[r]
      BY <2>1, <2>4
    <3>2. rows'[s] = rows[s] \cup {o} /\ seen'[s] = Newer(s, o)
      BY <2>1, <2>4
    <3>3. o \in Nat /\ o > 0 /\ seen[s] \in Nat /\ \A u \in rows[s] : u \in Nat
      BY <2>1, BoundsAssumption DEF Times, None
    <3>4. seen'[s] \in rows'[s] /\ \A u \in rows'[s] : u <= seen'[s]
      <4>1. CASE rows[s] = {}
        <5>1. seen[s] = 0
          BY <2>1, <4>1 DEF LastSeenIsNewest, None
        <5>2. Newer(s, o) = o
          BY <3>3, <5>1 DEF Newer
        <5> QED BY <3>2, <3>3, <4>1, <5>2
      <4>2. CASE rows[s] # {}
        <5>1. seen[s] \in rows[s] /\ \A u \in rows[s] : u <= seen[s]
          BY <2>1, <4>2 DEF LastSeenIsNewest
        <5>2. CASE seen[s] > o
          BY <3>2, <3>3, <5>1, <5>2 DEF Newer
        <5>3. CASE ~(seen[s] > o)
          BY <3>2, <3>3, <5>1, <5>3 DEF Newer
        <5> QED BY <5>2, <5>3
      <4> QED BY <4>1, <4>2
    <3>5. LastSeenIsNewest'
      BY <3>1, <3>2, <3>4 DEF LastSeenIsNewest
    <3> QED BY <2>2, <3>5
  <2> QED BY <1>3, <2>3, <2>4 DEF RecordBeat
<1>4. CASE UNCHANGED <<observed, beats>>
  BY <1>4 DEF BeatsKnown, LastSeenIsNewest
<1> QED BY <1>1, <1>2, <1>3, <1>4, BeatSteps

-----------------------------------------------------------------------------
(* The theorems *)

\* IInv holds in every reachable state.
THEOREM Inductive == Spec => []IInv
<1>1. IInv /\ [Next]_vars => IInv'
  BY NextType, NextStore, NextHosts, NextDeletes, NextBeats DEF IInv
<1> QED BY <1>1, InitInv, PTL DEF Spec

\* Every row, file and message keeps its type.
THEOREM TypeCorrect == Spec => []TypeOK
  BY Inductive, PTL DEF IInv

\* However many requests present one token, and however their transactions
\* interleave, it buys one server (Redeem's locking UPDATE).
THEOREM TokenOnce == Spec => []TokenBuysOneServer
  BY Inductive, PTL DEF IInv

\* Two servers in service never have one name (servers_name_unique_idx).
THEOREM NamesUnique == Spec => []LiveNamesUnique
  BY Inductive, PTL DEF IInv

\* Tokens are spent soundly, for any number of hosts, tokens and requests.
THEOREM TokensAreSound == Spec => []TokensSound
<1>1. TypeOK /\ TokenBuysOneServer /\ LiveNamesUnique => TokensSound
  BY DEF TokensSound
<1> QED BY <1>1, TypeCorrect, TokenOnce, NamesUnique, PTL

\* A tombstoned server's certificate is revoked, for any number of concurrent
\* delete requests that fail anywhere (deleteServerAuthorized).
THEOREM DeletedRevoked == Spec => []DeletedIsRevoked
  BY Inductive, PTL DEF IInv

\* last_seen_at is the newest recorded observation (RecordHeartbeat).
THEOREM LastSeenCorrect == Spec => []LastSeenIsNewest
  BY Inductive, PTL DEF IInv

\* A running agent is the one server that its own host enrolled (LoadState).
THEOREM AgentIdentity == Spec => []AgentIsOneServer
<1>1. IInv => AgentIsOneServer
  <2> SUFFICES ASSUME IInv PROVE AgentIsOneServer
    OBVIOUS
  <2>1. ASSUME NEW h \in Hosts, runs[h] # None
        PROVE  /\ presents[h] = runs[h]
               /\ \E q \in Requests : by[q] = h /\ made[q] = runs[h]
    BY <2>1 DEF IInv, HostsOwn, Issued
  <2>2. ASSUME NEW g \in Hosts, NEW h \in Hosts, runs[g] # None, runs[g] = runs[h]
        PROVE  g = h
    <3>1. PICK p \in Requests : by[p] = g /\ made[p] = runs[g]
      BY <2>1, <2>2
    <3>2. PICK q \in Requests : by[q] = h /\ made[q] = runs[h]
      BY <2>1, <2>2
    <3>3. p = q
      BY <2>2, <3>1, <3>2 DEF IInv, MadeOnce
    <3> QED BY <3>1, <3>2, <3>3
  <2> QED BY <2>1, <2>2 DEF AgentIsOneServer
<1> QED BY <1>1, Inductive, PTL

\* No operation, and no late heartbeat, touches a tombstoned server (SetStatus,
\* RecordHeartbeat).
THEOREM TombstoneFinal == Spec => TombstoneIsFinal
<1> DEFINE Stays == \A s \in Servers : status[s] = "deleted" =>
                       status'[s] = "deleted" /\ cert'[s] = "revoked"
           Silent == \A s \in Servers : status[s] = "deleted" => rows'[s] = rows[s]
<1>1. ASSUME IInv, [Next]_vars PROVE Stays
  <2> USE DEF IInv, TypeOK, DeletesOrdered, DeletedIsRevoked, servers
  <2>1. ASSUME NEW q \in Requests, NEW s \in Servers, RedeemCommit(q, s) PROVE Stays
    BY <1>1, <2>1 DEF RedeemCommit
  <2>2. ASSUME NEW d \in Deleters, RevokeCertificate(d) \/ SetDeleted(d) PROVE Stays
    BY <1>1, <2>2 DEF RevokeCertificate, SetDeleted
  <2>3. CASE UNCHANGED <<status, cert>>
    BY <1>1, <2>3
  <2> QED BY <1>1, <2>1, <2>2, <2>3, DeleteSteps DEF DeleteBegin, DeleteFails
<1>2. ASSUME IInv, [Next]_vars PROVE Silent
  <2>1. ASSUME NEW b \in Beats, RecordBeat(b) PROVE Silent
    BY <1>2, <2>1 DEF RecordBeat, Recordable, observed, IInv, TypeOK, BeatsKnown
  <2>2. CASE UNCHANGED rows
    BY <2>2
  <2> QED BY <1>2, <2>1, <2>2, BeatSteps DEF Beat, CheckBeat, observed
<1>3. IInv /\ [Next]_vars => Stays /\ Silent
  BY <1>1, <1>2
<1>4. Stays /\ Silent => \A s \in Servers : status[s] = "deleted" =>
                            status'[s] = "deleted" /\ rows'[s] = rows[s] /\ cert'[s] = "revoked"
  OBVIOUS
<1> QED BY <1>3, <1>4, Inductive, PTL DEF Spec, TombstoneIsFinal
=============================================================================
