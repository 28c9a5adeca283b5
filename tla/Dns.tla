-------------------------------- MODULE Dns ---------------------------------
(***************************************************************************)
(* DNS providers, zones, records, certificate orders and certificates of   *)
(* one project (controller/dns_tls.go, dns/dns.go, certs/certs.go).  A     *)
(* provider's token and a certificate's key are secrets in another table   *)
(* than their row, and written in another transaction.  The token's        *)
(* reference is made of the provider's name, so providers of one name      *)
(* share it; a certificate's key has a reference of its own.  No caller    *)
(* advances an order except to cancel it, or binds or renews a             *)
(* certificate.                                                            *)
(***************************************************************************)
EXTENDS Naturals

CONSTANTS
    DnProviders,   \* provider rows, all of them created under one name
    DnRequests,    \* requests for providers that are served at the same time
    DnZones,       \* zone rows, all of one apex
    DnRecords,     \* record rows
    MaxDnFaults    \* bound: statements that fail, clients that hang up

\* 0 stands for no token and for no zone.
ASSUME DnsAssumption == 0 \notin DnProviders /\ 0 \notin DnZones

VARIABLES
    dnProv,    \* dnProv[p]: state of a provider's row
    dnToken,   \* whose token the shared reference holds (0: none)
    dnReq,     \* dnReq[r]: where a request is, and the provider it is about
    dnZone,    \* dnZone[z]: the provider of a zone (0: no row)
    dnRec,     \* dnRec[k]: zone and sync_state of a record
    dnOrder,   \* state of a certificate order
    dnCancel,  \* the state that each of two cancellations has read
    dnCert, dnKey,  \* state of a certificate's row, whether its key is sealed
    dnFaults

dnRows == <<dnZone, dnRec>>
dnTls == <<dnOrder, dnCancel, dnCert, dnKey>>
dnsVars == <<dnProv, dnToken, dnReq, dnRows, dnTls, dnFaults>>

NoRec == [zone |-> 0, sync |-> "none"]
DnIdle == [at |-> "idle", prov |-> 0]

DnsInit ==
    /\ dnProv = [p \in DnProviders |-> "absent"] /\ dnToken = 0
    /\ dnReq = [r \in DnRequests |-> DnIdle]
    /\ dnZone = [z \in DnZones |-> 0] /\ dnRec = [k \in DnRecords |-> NoRec]
    /\ dnOrder = "absent" /\ dnCancel = [i \in {1, 2} |-> "none"]
    /\ dnCert = "absent" /\ dnKey = FALSE
    /\ dnFaults = 0

DnFault == dnFaults < MaxDnFaults /\ dnFaults' = dnFaults + 1
DnAt(r, at, p) == dnReq' = [dnReq EXCEPT ![r] = [at |-> at, prov |-> p]]
DnEnds(r) == dnReq' = [dnReq EXCEPT ![r] = DnIdle]

-----------------------------------------------------------------------------
\* Providers.  A new one's token is sealed first.

\* The secret store overwrites what is there.
TokenOverwritten == TRUE
\* secret.Create inserts, and refuses a reference that exists.
TokenFree == dnToken = 0

SealToken(r, p) ==
    /\ dnReq[r] = DnIdle /\ dnProv[p] = "absent" /\ \A q \in DnRequests : dnReq[q].prov # p
    /\ TokenFree /\ dnToken' = p
    /\ DnAt(r, "insert", p)
    /\ UNCHANGED <<dnProv, dnRows, dnTls, dnFaults>>

InsertProvider(r) ==
    /\ dnReq[r].at = "insert"
    /\ dnProv' = [dnProv EXCEPT ![dnReq[r].prov] = "live"] /\ DnEnds(r)
    /\ UNCHANGED <<dnToken, dnRows, dnTls, dnFaults>>

\* The insert fails and the token is taken back, unless that fails as well.
InsertFails(r) ==
    /\ dnReq[r].at = "insert" /\ DnFault
    /\ dnToken' \in {0, dnToken} /\ DnEnds(r)
    /\ UNCHANGED <<dnProv, dnRows, dnTls>>

\* The handler reads the row; DELETE is refused while a zone refers to it.
ReadProvider(r, p) ==
    /\ dnReq[r] = DnIdle /\ dnProv[p] = "live"
    /\ DnAt(r, "delete", p)
    /\ UNCHANGED <<dnProv, dnToken, dnRows, dnTls, dnFaults>>

DeleteProvider(r) ==
    LET p == dnReq[r].prov
        hit == dnProv[p] = "live" /\ \A z \in DnZones : dnZone[z] # p
    IN /\ dnReq[r].at = "delete"
       /\ dnProv' = IF hit THEN [dnProv EXCEPT ![p] = "deleted"] ELSE dnProv
       /\ IF hit THEN DnAt(r, "unseal", p) ELSE DnEnds(r)
       /\ UNCHANGED <<dnToken, dnRows, dnTls, dnFaults>>

DeleteToken(r) ==
    /\ dnReq[r].at = "unseal" /\ dnToken' = 0 /\ DnEnds(r)
    /\ UNCHANGED <<dnProv, dnRows, dnTls, dnFaults>>

\* The error is dropped: the name's reference is taken from now on.
DeleteTokenFails(r) ==
    /\ dnReq[r].at = "unseal" /\ DnFault /\ DnEnds(r)
    /\ UNCHANGED <<dnProv, dnToken, dnRows, dnTls>>

-----------------------------------------------------------------------------
\* Zones and records.

\* The apex is unique in the project, and the provider has to exist.
CreateZone(z, p) ==
    /\ \A y \in DnZones : dnZone[y] = 0
    /\ dnProv[p] = "live" /\ dnZone' = [dnZone EXCEPT ![z] = p]
    /\ UNCHANGED <<dnProv, dnToken, dnReq, dnRec, dnTls, dnFaults>>

\* Its records go with it.
DeleteZone(z) ==
    /\ dnZone[z] # 0 /\ dnZone' = [dnZone EXCEPT ![z] = 0]
    /\ dnRec' = [k \in DnRecords |-> IF dnRec[k].zone = z THEN NoRec ELSE dnRec[k]]
    /\ UNCHANGED <<dnProv, dnToken, dnReq, dnTls, dnFaults>>

SetRecord(k, zone, sync) ==
    /\ dnRec' = [dnRec EXCEPT ![k] = [zone |-> zone, sync |-> sync]]
    /\ UNCHANGED <<dnProv, dnToken, dnReq, dnZone, dnTls, dnFaults>>

CreateRecord(k, z) == dnRec[k] = NoRec /\ dnZone[z] # 0 /\ SetRecord(k, z, "pending")

\* By the record's id alone, and whatever its sync_state.
UpdateRecord(k) == dnRec[k] # NoRec /\ SetRecord(k, dnRec[k].zone, "pending")
DeleteRecord(k) == dnRec[k] # NoRec /\ SetRecord(k, dnRec[k].zone, "deleting")

-----------------------------------------------------------------------------
\* Orders and certificates.

CreateOrder ==
    /\ dnOrder = "absent" /\ dnOrder' = "pending"
    /\ UNCHANGED <<dnProv, dnToken, dnReq, dnRows, dnCancel, dnCert, dnKey, dnFaults>>

\* AdvanceOrderState reads, checks the transition, and updates without a guard.
Advances(from, to) ==
    to \in CASE from = "pending" -> {"ready", "invalid", "canceled"}
             [] from = "ready" -> {"processing", "invalid", "canceled"}
             [] from = "processing" -> {"valid", "invalid", "canceled"}
             [] OTHER -> {}

ReadOrder(i) ==
    /\ dnOrder # "absent" /\ dnCancel[i] = "none"
    /\ Advances(dnOrder, "canceled") /\ dnCancel' = [dnCancel EXCEPT ![i] = dnOrder]
    /\ UNCHANGED <<dnProv, dnToken, dnReq, dnRows, dnOrder, dnCert, dnKey, dnFaults>>

CancelOrder(i) ==
    /\ dnCancel[i] # "none" /\ dnOrder' = "canceled"
    /\ dnCancel' = [dnCancel EXCEPT ![i] = "none"]
    /\ UNCHANGED <<dnProv, dnToken, dnReq, dnRows, dnCert, dnKey, dnFaults>>

\* Record: a key that fits its certificate is sealed, then the row inserted;
\* a failed insert takes the key back, or tries to.
SealKey ==
    /\ dnCert = "absent" /\ dnCert' = "sealing" /\ dnKey' = TRUE
    /\ UNCHANGED <<dnProv, dnToken, dnReq, dnRows, dnOrder, dnCancel, dnFaults>>

ImportCert ==
    /\ dnCert = "sealing" /\ dnCert' = "active"
    /\ UNCHANGED <<dnProv, dnToken, dnReq, dnRows, dnOrder, dnCancel, dnKey, dnFaults>>

ImportFails ==
    /\ dnCert = "sealing" /\ DnFault /\ dnCert' = "failed" /\ dnKey' \in BOOLEAN
    /\ UNCHANGED <<dnProv, dnToken, dnReq, dnRows, dnOrder, dnCancel>>

RevokeCert ==
    /\ dnCert = "active" /\ dnCert' = "revoked"
    /\ UNCHANGED <<dnProv, dnToken, dnReq, dnRows, dnOrder, dnCancel, dnKey, dnFaults>>

DnsNext ==
    \/ \E r \in DnRequests :
        \/ \E p \in DnProviders : SealToken(r, p) \/ ReadProvider(r, p)
        \/ InsertProvider(r) \/ InsertFails(r) \/ DeleteProvider(r)
        \/ DeleteToken(r) \/ DeleteTokenFails(r)
    \/ \E z \in DnZones : DeleteZone(z) \/ \E p \in DnProviders : CreateZone(z, p)
    \/ \E k \in DnRecords : UpdateRecord(k) \/ DeleteRecord(k) \/ \E z \in DnZones : CreateRecord(k, z)
    \/ CreateOrder \/ \E i \in {1, 2} : ReadOrder(i) \/ CancelOrder(i)
    \/ SealKey \/ ImportCert \/ ImportFails \/ RevokeCert

DnsSpec == DnsInit /\ [][DnsNext]_dnsVars

-----------------------------------------------------------------------------
\* Whatever requests race and fail (dns_tls.go:187-203, 241-256): every provider
\* that exists has its own token behind its reference, every zone that exists
\* has its provider and every record its zone, and a certificate its key.
CredentialsAreKept ==
    /\ \A p \in DnProviders : dnProv[p] = "live" => dnToken = p
    /\ \A z \in DnZones : dnZone[z] # 0 => dnProv[dnZone[z]] = "live"
    /\ \A k \in DnRecords : dnRec[k].zone # 0 => dnZone[dnRec[k].zone] # 0
    /\ dnCert \in {"active", "revoked"} => dnKey
=============================================================================
