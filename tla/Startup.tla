------------------------------- MODULE Startup -------------------------------
(***************************************************************************)
(* Two controllers that start against one database, as in a rolling        *)
(* upgrade: cmd/controller/main.go connects, db/migrate applies the        *)
(* pending migrations under a session advisory lock, and controller.Build  *)
(* makes or loads the installation's identity and its two certificate      *)
(* authorities (nodes/authority.go).  A controller may die between any two *)
(* steps and start again with another binary or other keys.                *)
(***************************************************************************)
EXTENDS Naturals, Sequences

CONSTANTS StProcs,     \* the controllers
          StVersions,  \* the number of migrations of the newest binary
          StKeys,      \* the versions of the secret key, 1..StKeys
          MaxStarts    \* bound: starts, all controllers together

ASSUME StartupAssumption == StVersions \in Nat /\ StKeys \in Nat /\ MaxStarts \in Nat
                             /\ "nobody" \notin StProcs

VARIABLES stRows,      \* schema_migrations: [version -> checksum]
          stEffects,   \* how often the SQL of each version was committed
          stLock,      \* who holds the advisory lock
          stIdentity,  \* controller_identity.id, 0: no row
          stSecrets,   \* secret_values: [reference -> the root and its key's version]
          stProcess,   \* the state of each controller's process
          stStarts     \* starts so far: what a start mints is known by its number

startupVars == <<stRows, stEffects, stLock, stIdentity, stSecrets, stProcess, stStarts>>

StNobody == "nobody"
CARefs == <<"controller", "node">>    \* the references, in the order EnsureAuthority takes them
NoRoot == [root |-> 0, kind |-> "none", key |-> 0]
NoRows == [v \in {} |-> "released"]
Off == [at |-> "off", start |-> 0, upto |-> 0, edited |-> FALSE, key |-> 0,
        seen |-> NoRows, next |-> 1, id |-> 0, roots |-> <<>>, why |-> "none"]

StartupInit ==
  /\ stRows = NoRows /\ stEffects = [v \in 1 .. StVersions |-> 0]
  /\ stLock = StNobody /\ stIdentity = 0
  /\ stSecrets = [i \in DOMAIN CARefs |-> NoRoot]
  /\ stProcess = [p \in StProcs |-> Off] /\ stStarts = 0

Go(p, at) == stProcess' = [stProcess EXCEPT ![p].at = at]

\* A start: a binary that carries migrations 1..n, of which one may have been edited
\* after its release (n = 0: it runs without RunMigrations), with the keys 1..k.
Boot(p) ==
  /\ stProcess[p].at = "off" /\ stStarts < MaxStarts
  /\ \E n \in 0 .. StVersions, e \in BOOLEAN, k \in 1 .. StKeys :
        /\ e => n > 0
        /\ stProcess' = [stProcess EXCEPT ![p] =
             [Off EXCEPT !.at = IF n > 0 THEN "connected" ELSE "build", !.start = stStarts + 1,
                         !.upto = n, !.edited = e, !.key = k]]
  /\ stStarts' = stStarts + 1
  /\ UNCHANGED <<stRows, stEffects, stLock, stIdentity, stSecrets>>

StChecksum(p, v) == IF stProcess[p].edited /\ v = 1 THEN "edited" ELSE "released"

\* Up: the advisory lock, then schema_migrations is made and read, once.
LockSchema(p) ==
  /\ stProcess[p].at = "connected" /\ stLock = StNobody
  /\ stLock' = p /\ Go(p, "locked")
  /\ UNCHANGED <<stRows, stEffects, stIdentity, stSecrets, stStarts>>

LoadApplied(p) ==
  /\ stProcess[p].at = "locked"
  /\ stProcess' = [stProcess EXCEPT ![p].at = "migrating", ![p].seen = stRows]
  /\ UNCHANGED <<stRows, stEffects, stLock, stIdentity, stSecrets, stStarts>>

Migrating(p) == stProcess[p].at = "migrating" /\ stProcess[p].next <= stProcess[p].upto

\* The error ends run(): the process exits, its session and its lock with it.
MigrationFails(p, why) ==
  /\ stProcess' = [stProcess EXCEPT ![p] = [Off EXCEPT !.at = "failed", !.why = why]]
  /\ stLock' = IF stLock = p THEN StNobody ELSE stLock

\* A version that was applied already must carry the same checksum.
VerifyApplied(p) ==
  LET v == stProcess[p].next IN
  /\ Migrating(p) /\ v \in DOMAIN stProcess[p].seen
  /\ IF stProcess[p].seen[v] = StChecksum(p, v)
     THEN stProcess' = [stProcess EXCEPT ![p].next = @ + 1] /\ UNCHANGED stLock
     ELSE MigrationFails(p, "checksum")
  /\ UNCHANGED <<stRows, stEffects, stIdentity, stSecrets, stStarts>>

\* applyOne: the migration's SQL and its row in one transaction, on the connection that
\* holds the lock.  The SQL creates tables, so it fails where it ran before.
ApplyOne(p) ==
  LET v == stProcess[p].next IN
  /\ Migrating(p) /\ v \notin DOMAIN stProcess[p].seen
  /\ IF v \in DOMAIN stRows
     THEN MigrationFails(p, "clash") /\ UNCHANGED <<stRows, stEffects>>
     ELSE /\ stRows' = [w \in DOMAIN stRows \cup {v} |->
                          IF w = v THEN StChecksum(p, v) ELSE stRows[w]]
          /\ stEffects' = [stEffects EXCEPT ![v] = @ + 1]
          /\ stProcess' = [stProcess EXCEPT ![p].next = @ + 1] /\ UNCHANGED stLock
  /\ UNCHANGED <<stIdentity, stSecrets, stStarts>>

\* The deferred unlock, after the last migration.
UnlockSchema(p) ==
  /\ stProcess[p].at = "migrating" /\ stProcess[p].next > stProcess[p].upto
  /\ stLock' = StNobody
  /\ stProcess' = [stProcess EXCEPT ![p].at = "build", ![p].seen = NoRows, ![p].next = 1]
  /\ UNCHANGED <<stRows, stEffects, stIdentity, stSecrets, stStarts>>

\* Build goes on without node management when the authority cannot be prepared.
Unmanaged(p, why) ==
  stProcess' = [stProcess EXCEPT ![p].at = "serving", ![p].why = why, ![p].key = 0, ![p].roots = <<>>]

\* ensureControllerIdentity: INSERT .. ON CONFLICT DO NOTHING; with no row returned the
\* id is read by a second statement.  The table is the first migration's here.
EnsureIdentity(p) ==
  /\ stProcess[p].at = "build"
  /\ IF 1 \notin DOMAIN stRows
     THEN Unmanaged(p, "no table") /\ UNCHANGED stIdentity
     ELSE IF stIdentity = 0
     THEN /\ stIdentity' = stProcess[p].start
          /\ stProcess' = [stProcess EXCEPT ![p].at = "roots", ![p].id = stProcess[p].start]
     ELSE Go(p, "identified") /\ UNCHANGED stIdentity
  /\ UNCHANGED <<stRows, stEffects, stLock, stSecrets, stStarts>>

ReadIdentity(p) ==
  /\ stProcess[p].at = "identified"
  /\ stProcess' = [stProcess EXCEPT ![p].at = "roots", ![p].id = stIdentity]
  /\ UNCHANGED <<stRows, stEffects, stLock, stIdentity, stSecrets, stStarts>>

StKind(i) == CARefs[i]
ThisCA(p) == Len(stProcess[p].roots) + 1
HoldsRoot(p, r) ==
  stProcess' = [stProcess EXCEPT
    ![p].roots = Append(@, r),
    ![p].at = IF ThisCA(p) = Len(CARefs) THEN "serving" ELSE "roots",
    ![p].key = IF ThisCA(p) = Len(CARefs) THEN 0 ELSE @]

\* Mutant of CreateSecret: Set, which overwrites the root another controller stored.
SetSecret(i, r) == stSecrets' = [stSecrets EXCEPT ![i] = r]

\* secret.Store.Create: a plain INSERT, refused for a reference that exists.
CreateSecret(i, r) == stSecrets[i] = NoRoot /\ stSecrets' = [stSecrets EXCEPT ![i] = r]

\* ensureCA mints a root, and it becomes the installation's when Create stores it ..
MintRoot(p) ==
  LET i == ThisCA(p)
      fresh == [root |-> stProcess[p].start, kind |-> StKind(i), key |-> stProcess[p].key] IN
  /\ stProcess[p].at = "roots"
  /\ CreateSecret(i, fresh) /\ HoldsRoot(p, fresh)
  /\ UNCHANGED <<stRows, stEffects, stLock, stIdentity, stStarts>>

\* .. or ErrAlreadyExists sends it to the stored one,
RootExists(p) ==
  /\ stProcess[p].at = "roots" /\ stSecrets[ThisCA(p)] # NoRoot
  /\ Go(p, "load")
  /\ UNCHANGED <<stRows, stEffects, stLock, stIdentity, stSecrets, stStarts>>

\* which opens only with the key it was sealed with, and must be of the expected kind.
LoadRoot(p) ==
  LET stored == stSecrets[ThisCA(p)] IN
  /\ stProcess[p].at = "load"
  /\ IF stored.key > stProcess[p].key THEN Unmanaged(p, "key")
     ELSE IF stored.kind # StKind(ThisCA(p)) THEN Unmanaged(p, "kind")
     ELSE HoldsRoot(p, stored)
  /\ UNCHANGED <<stRows, stEffects, stLock, stIdentity, stSecrets, stStarts>>

\* The process ends, whatever it was doing; its session's lock ends with it.
ProcessEnds(p) ==
  /\ stProcess[p].at # "off"
  /\ stProcess' = [stProcess EXCEPT ![p] = Off]
  /\ stLock' = IF stLock = p THEN StNobody ELSE stLock
  /\ UNCHANGED <<stRows, stEffects, stIdentity, stSecrets, stStarts>>

StartupNext ==
  \E p \in StProcs :
    \/ Boot(p) \/ LockSchema(p) \/ LoadApplied(p) \/ VerifyApplied(p) \/ ApplyOne(p) \/ UnlockSchema(p)
    \/ EnsureIdentity(p) \/ ReadIdentity(p) \/ MintRoot(p) \/ RootExists(p) \/ LoadRoot(p) \/ ProcessEnds(p)

StartupSpec == StartupInit /\ [][StartupNext]_startupVars

-----------------------------------------------------------------------------
ManagesNodes(p) == stProcess[p].at = "serving" /\ Len(stProcess[p].roots) = Len(CARefs)

\* A start is sound whatever starts, dies or is older beside it (migrate.go:153-208,
\* authority.go:140-249): each migration took effect exactly as often as its row
\* says, and no migrator was stopped by another one's work; a process that
\* migrated and got past it has every migration of its binary, with its
\* checksum; a controller that manages nodes works under the identity and the
\* roots of the installation, so that what one controller signs the other
\* verifies; and each root is of the kind its reference names.
BootSound ==
  /\ \A v \in 1 .. StVersions : stEffects[v] = IF v \in DOMAIN stRows THEN 1 ELSE 0
  /\ \A p \in StProcs :
       /\ stProcess[p].why \notin {"clash", "kind"}
       /\ stProcess[p].at \in {"build", "identified", "roots", "load", "serving"}
            => \A v \in 1 .. stProcess[p].upto : v \in DOMAIN stRows /\ stRows[v] = StChecksum(p, v)
       /\ ManagesNodes(p) => /\ stProcess[p].id = stIdentity
                             /\ \A i \in DOMAIN CARefs : stProcess[p].roots[i] = stSecrets[i]
  /\ \A i \in DOMAIN CARefs : stSecrets[i] # NoRoot => stSecrets[i].kind = StKind(i)
=============================================================================
