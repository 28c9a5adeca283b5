-------------------------- MODULE ControllerProofs --------------------------
(***************************************************************************)
(* A controller process: how it boots next to others, and how it answers   *)
(* requests and streams events.                                            *)
(***************************************************************************)
EXTENDS Startup, Serving, Events, SequenceTheorems, TLAPS

-----------------------------------------------------------------------------
(***************************************************************************)
(* Startup: BootSound for any number of controllers, migrations and keys.  *)
(* It rests on three facts that no step of a controller takes away from    *)
(* the others: the advisory lock makes what a migrator read stay what the  *)
(* table says, and the identity and the roots, once stored, do not change. *)
(***************************************************************************)

Checksums == {"released", "edited"}
Rows == UNION {[D -> Checksums] : D \in SUBSET (1 .. StVersions)}
Roots == [root : Nat, kind : {"none", "controller", "node"}, key : Nat]
Stages == {"off", "connected", "locked", "migrating", "failed", "build", "identified", "roots", "load", "serving"}
Processes ==
  [at : Stages, start : Nat, upto : 0 .. StVersions, edited : BOOLEAN, key : Nat, seen : Rows,
   next : Nat, id : Nat, roots : Seq(Roots), why : {"none", "checksum", "clash", "no table", "key", "kind"}]

StartupTypeOK ==
  /\ stRows \in Rows /\ stEffects \in [1 .. StVersions -> Nat]
  /\ stLock \in StProcs \cup {StNobody} /\ stIdentity \in Nat
  /\ stSecrets \in [1 .. 2 -> Roots]
  /\ stProcess \in [StProcs -> Processes] /\ stStarts \in Nat

\* Every row is a migration that took effect once.
EffectsAreRows == \A v \in 1 .. StVersions : stEffects[v] = IF v \in DOMAIN stRows THEN 1 ELSE 0

\* A stored root is of its reference's kind.
KindsMatch == \A i \in 1 .. 2 : stSecrets[i] # NoRoot => stSecrets[i].kind = StKind(i)

Recorded(p, v) == v \in DOMAIN stRows /\ stRows[v] = StChecksum(p, v)

\* The migrator holds the lock, what it has passed is recorded, and what lies ahead is
\* as it read it.
Migrator(p) ==
  LET c == stProcess[p] IN
  /\ c.at \in {"locked", "migrating"} <=> stLock = p
  /\ c.at \in {"connected", "locked"} => c.next = 1
  /\ c.at = "migrating" =>
       /\ c.next \in 1 .. c.upto + 1
       /\ \A v \in 1 .. c.upto : v < c.next => Recorded(p, v)
       /\ \A v \in 1 .. c.upto : v >= c.next =>
            /\ v \in DOMAIN c.seen <=> v \in DOMAIN stRows
            /\ v \in DOMAIN c.seen => c.seen[v] = stRows[v]

Past == {"build", "identified", "roots", "load", "serving"}
Migrated(p) == stProcess[p].at \in Past => \A v \in 1 .. stProcess[p].upto : Recorded(p, v)

\* The identity a controller works under is the installation's.
Identified(p) ==
  LET c == stProcess[p] IN
  /\ c.at \in Past => c.start # 0
  /\ c.at \in {"connected", "locked", "migrating"} => c.start # 0
  /\ c.at = "identified" => stIdentity # 0
  /\ c.at \in {"roots", "load"} \/ ManagesNodes(p) => c.id = stIdentity /\ c.id # 0

\* The roots it holds are the stored ones.
RootsHeld(p) ==
  LET c == stProcess[p] IN
  /\ Len(c.roots) <= 2
  /\ c.at # "serving" => Len(c.roots) < 2
  /\ c.at = "load" => stSecrets[Len(c.roots) + 1] # NoRoot
  /\ \A i \in 1 .. 2 : i <= Len(c.roots) => c.roots[i] = stSecrets[i] /\ stSecrets[i] # NoRoot

ProcessOK(p) ==
  /\ stProcess[p].why \notin {"clash", "kind"}
  /\ Migrator(p) /\ Migrated(p) /\ Identified(p) /\ RootsHeld(p)

StartupInv ==
  /\ StartupTypeOK /\ EffectsAreRows /\ KindsMatch
  /\ \A p \in StProcs : ProcessOK(p)

-----------------------------------------------------------------------------
LEMMA NoRowsIsRows == NoRows \in Rows
<1>1. NoRows \in [{} -> Checksums]
  BY DEF NoRows
<1> QED BY <1>1 DEF Rows

LEMMA TwoRoots == Len(CARefs) = 2 /\ DOMAIN CARefs = 1 .. 2
BY DEF CARefs

LEMMA NothingHeld == ASSUME NEW roots, roots = <<>> PROVE Len(roots) = 0
OBVIOUS

LEMMA NoRootsIsSeq == <<>> \in Seq(Roots)
OBVIOUS

\* The fields of a process, for the steps that need only some of them.
LEMMA ProcessFields ==
  ASSUME NEW c \in Processes
  PROVE  /\ c.at \in Stages /\ c.start \in Nat /\ c.upto \in 0 .. StVersions /\ c.edited \in BOOLEAN
         /\ c.key \in Nat /\ c.seen \in Rows /\ c.next \in Nat /\ c.id \in Nat
         /\ c.roots \in Seq(Roots) /\ Len(c.roots) \in Nat
<1>1. c.roots \in Seq(Roots)
  BY Zenon DEF Processes
<1>2. Len(c.roots) \in Nat
  BY <1>1
<1> QED BY <1>1, <1>2, Zenon DEF Processes

\* Writing some of the fields leaves a process.
LEMMA ProcessUpdates ==
  ASSUME NEW c \in Processes, NEW at \in Stages, NEW rows \in Rows, NEW n \in Nat, NEW roots \in Seq(Roots),
         NEW key \in Nat, NEW why \in {"none", "checksum", "clash", "no table", "key", "kind"}
  PROVE  /\ [c EXCEPT !.at = at] \in Processes
         /\ [c EXCEPT !.next = n] \in Processes
         /\ [c EXCEPT !.at = at, !.seen = rows] \in Processes
         /\ [c EXCEPT !.at = at, !.seen = rows, !.next = n] \in Processes
         /\ [c EXCEPT !.at = at, !.id = n] \in Processes
         /\ [c EXCEPT !.at = at, !.why = why, !.key = 0, !.roots = <<>>] \in Processes
         /\ [c EXCEPT !.roots = roots, !.at = at, !.key = key] \in Processes
         /\ [c EXCEPT !.at = at, !.why = why] \in Processes
<1>1. [c EXCEPT !.at = at] \in Processes
  BY DEF Processes
<1>2. [c EXCEPT !.next = n] \in Processes
  BY DEF Processes
<1>3. [c EXCEPT !.at = at, !.seen = rows] \in Processes
  BY DEF Processes
<1>4. [c EXCEPT !.at = at, !.seen = rows, !.next = n] \in Processes
  BY DEF Processes
<1>5. [c EXCEPT !.at = at, !.id = n] \in Processes
  BY DEF Processes
<1>6. [c EXCEPT !.at = at, !.why = why, !.key = 0, !.roots = <<>>] \in Processes
  BY NoRootsIsSeq DEF Processes
<1>7. [c EXCEPT !.roots = roots, !.at = at, !.key = key] \in Processes
  BY DEF Processes
<1>8. [c EXCEPT !.at = at, !.why = why] \in Processes
  BY DEF Processes
<1> QED BY <1>1, <1>2, <1>3, <1>4, <1>5, <1>6, <1>7, <1>8

\* A process that starts.
LEMMA StartIsAProcess ==
  ASSUME NEW c \in Processes, NEW at \in Stages, NEW n \in Nat, NEW upto \in 0 .. StVersions,
         NEW edited \in BOOLEAN, NEW key \in Nat
  PROVE  [c EXCEPT !.at = at, !.start = n, !.upto = upto, !.edited = edited, !.key = key] \in Processes
BY DEF Processes

\* What may happen to the shared state while one controller works: rows are added by
\* the holder of the lock, the identity and the roots are only stored once.
Accretes(p) ==
  /\ \A q \in StProcs : q # p => (stLock' = q <=> stLock = q)
  /\ stRows' = stRows \/ stLock = p
  /\ \A v \in DOMAIN stRows : v \in DOMAIN stRows' /\ stRows'[v] = stRows[v]
  /\ stIdentity # 0 => stIdentity' = stIdentity
  /\ \A i \in 1 .. 2 : stSecrets[i] # NoRoot => stSecrets'[i] = stSecrets[i]

\* A step of one controller takes nothing away from another.
LEMMA OthersKeep ==
  ASSUME StartupInv, NEW p \in StProcs, NEW q \in StProcs, q # p, Accretes(p),
         stProcess'[q] = stProcess[q]
  PROVE  ProcessOK(q)'
<1>1. stProcess[q] \in Processes /\ ProcessOK(q)
  BY DEF StartupInv, StartupTypeOK
<1>2. \A v \in 1 .. stProcess[q].upto : Recorded(q, v) => Recorded(q, v)'
  BY DEF Accretes, Recorded, StChecksum
<1>3. Migrator(q)'
  <2>1. CASE stRows' = stRows
    BY <1>1, <2>1 DEF ProcessOK, Migrator, Accretes, Recorded, StChecksum
  <2>2. CASE stLock = p
    BY <1>1, <2>2 DEF ProcessOK, Migrator, Accretes
  <2> QED BY <2>1, <2>2 DEF Accretes
<1>4. Migrated(q)'
  BY <1>1, <1>2 DEF ProcessOK, Migrated
<1>5. Identified(q)'
  BY <1>1 DEF ProcessOK, Identified, Accretes, ManagesNodes
<1>6. RootsHeld(q)'
  <2>1. Len(stProcess[q].roots) \in Nat
    BY <1>1, ProcessFields
  <2> QED BY <1>1, <2>1 DEF ProcessOK, RootsHeld, Accretes
<1> QED BY <1>1, <1>3, <1>4, <1>5, <1>6 DEF ProcessOK

\* So it is enough to look at the controller that took the step.
LEMMA OneProcessSteps ==
  ASSUME StartupInv, NEW p \in StProcs, NEW c \in Processes, Accretes(p),
         stProcess' = [stProcess EXCEPT ![p] = c],
         stRows' \in Rows, stEffects' \in [1 .. StVersions -> Nat], stLock' \in StProcs \cup {StNobody},
         stIdentity' \in Nat, stSecrets' \in [1 .. 2 -> Roots], stStarts' \in Nat,
         EffectsAreRows', KindsMatch', ProcessOK(p)'
  PROVE  StartupInv'
<1>1. stProcess' \in [StProcs -> Processes]
  BY DEF StartupInv, StartupTypeOK
<1>2. \A q \in StProcs : q # p => stProcess'[q] = stProcess[q]
  BY DEF StartupInv, StartupTypeOK
<1>3. \A q \in StProcs : ProcessOK(q)'
  BY <1>2, OthersKeep
<1>4. StartupTypeOK'
  BY <1>1 DEF StartupTypeOK
<1> QED BY <1>3, <1>4 DEF StartupInv

\* When the shared state is untouched but for the lock, only the process counts.
LEMMA OnlyProcessSteps ==
  ASSUME StartupInv, NEW p \in StProcs, NEW c \in Processes,
         stProcess' = [stProcess EXCEPT ![p] = c],
         UNCHANGED <<stRows, stEffects, stIdentity, stSecrets>>, stStarts' \in Nat,
         stLock' \in StProcs \cup {StNobody}, \A q \in StProcs : q # p => (stLock' = q <=> stLock = q),
         ProcessOK(p)'
  PROVE  StartupInv'
<1>1. EffectsAreRows' /\ KindsMatch'
  BY DEF StartupInv, EffectsAreRows, KindsMatch, StKind
<1>2. Accretes(p)
  BY DEF Accretes
<1> QED BY <1>1, <1>2, OneProcessSteps DEF StartupInv, StartupTypeOK

-----------------------------------------------------------------------------
LEMMA OffIsAProcess == Off \in Processes
<1>1. NoRows \in Rows /\ <<>> \in Seq(Roots)
  BY NoRowsIsRows
<1> QED BY <1>1, StartupAssumption DEF Off, Processes, Stages

\* Nothing has started.
LEMMA StartupStarts == StartupInit => StartupInv
<1> SUFFICES ASSUME StartupInit PROVE StartupInv
  OBVIOUS
<1>1. NoRoot \in Roots /\ DOMAIN CARefs = 1 .. 2
  BY DEF NoRoot, Roots, CARefs
<1>2. StartupTypeOK
  BY <1>1, OffIsAProcess, NoRowsIsRows DEF StartupInit, StartupTypeOK
<1>3. EffectsAreRows /\ KindsMatch
  BY <1>1 DEF StartupInit, EffectsAreRows, KindsMatch, NoRows
<1>4. ASSUME NEW p \in StProcs PROVE ProcessOK(p)
  <2>1. stProcess[p] = Off /\ stLock # p
    BY StartupAssumption DEF StartupInit, StNobody
  <2>2. /\ Off.at = "off" /\ Off.why = "none" /\ Off.roots = <<>>
    BY DEF Off
  <2>3. Migrator(p) /\ Migrated(p)
    BY <2>1, <2>2 DEF Migrator, Migrated, Past
  <2>4. Identified(p) /\ RootsHeld(p)
    BY <2>1, <2>2 DEF Identified, RootsHeld, ManagesNodes, Past
  <2> QED BY <2>1, <2>2, <2>3, <2>4 DEF ProcessOK
<1> QED BY <1>2, <1>3, <1>4 DEF StartupInv

\* A process that is off or has failed promises nothing but to hold no lock.
LEMMA IdleIsOK ==
  ASSUME NEW p \in StProcs, stProcess'[p].at \in {"off", "failed"}, stLock' # p,
         stProcess'[p].why \notin {"clash", "kind"}, stProcess'[p].roots = <<>>
  PROVE  ProcessOK(p)'
BY DEF ProcessOK, Migrator, Migrated, Identified, RootsHeld, ManagesNodes, Past

\* A process without roots holds the right ones.
LEMMA NoRootsHeld ==
  ASSUME NEW p, stProcess'[p].roots = <<>>, stProcess'[p].at # "load"
  PROVE  RootsHeld(p)'
<1>1. Len(stProcess'[p].roots) = 0
  OBVIOUS
<1> QED BY <1>1 DEF RootsHeld

\* Nor does it manage nodes.
LEMMA NothingManaged ==
  ASSUME NEW p, stProcess'[p].roots = <<>>
  PROVE  ~ManagesNodes(p)'
<1>1. Len(stProcess'[p].roots) = 0
  BY NothingHeld
<1>2. Len(CARefs) # 0
  BY TwoRoots
<1> QED BY <1>1, <1>2, Zenon DEF ManagesNodes

LEMMA BootKeeps ==
  ASSUME StartupInv, NEW p \in StProcs, Boot(p)
  PROVE  StartupInv'
<1> PICK n \in 0 .. StVersions, e \in BOOLEAN, k \in 1 .. StKeys :
         stProcess' = [stProcess EXCEPT ![p] =
             [Off EXCEPT !.at = IF n > 0 THEN "connected" ELSE "build", !.start = stStarts + 1,
                         !.upto = n, !.edited = e, !.key = k]]
  BY DEF Boot
<1> DEFINE c == [Off EXCEPT !.at = IF n > 0 THEN "connected" ELSE "build", !.start = stStarts + 1,
                         !.upto = n, !.edited = e, !.key = k]
<1>1. /\ stStarts \in Nat /\ stStarts' = stStarts + 1 /\ UNCHANGED <<stRows, stEffects, stLock, stIdentity, stSecrets>>
      /\ stProcess[p].at = "off" /\ stProcess' = [stProcess EXCEPT ![p] = c]
      /\ stLock \in StProcs \cup {StNobody} /\ stLock # p
  BY DEF Boot, StartupInv, StartupTypeOK, ProcessOK, Migrator
<1>2. c \in Processes
  <2>1. stStarts + 1 \in Nat /\ k \in Nat /\ (IF n > 0 THEN "connected" ELSE "build") \in Stages
    BY <1>1, StartupAssumption DEF Stages
  <2> QED BY <2>1, OffIsAProcess, StartIsAProcess
<1>3. /\ c.at = IF n > 0 THEN "connected" ELSE "build"
      /\ c.start # 0 /\ c.upto = n /\ c.next = 1 /\ c.roots = <<>> /\ c.why = "none"
  BY <1>1 DEF Off
<1>4. stProcess'[p] = c
  BY <1>1 DEF StartupInv, StartupTypeOK
<1> HIDE DEF c
<1>a. c.at \in {"connected", "build"} /\ (c.at = "build" => n = 0)
  BY <1>3, StartupAssumption
<1>5. Migrator(p)'
  BY <1>1, <1>3, <1>4, <1>a DEF Migrator
<1>b. Migrated(p)'
  <2>1. c.at = "build" => 1 .. c.upto = {}
    BY <1>3, <1>a
  <2> QED BY <1>4, <1>a, <2>1 DEF Migrated, Past
<1>6. Identified(p)'
  BY <1>3, <1>4, <1>a DEF Identified, ManagesNodes, Past
<1>c. RootsHeld(p)'
  BY <1>3, <1>4, <1>a, NoRootsHeld
<1>7. ProcessOK(p)'
  BY <1>3, <1>4, <1>5, <1>b, <1>6, <1>c DEF ProcessOK
<1>8. UNCHANGED <<stRows, stEffects, stIdentity, stSecrets>> /\ stStarts' \in Nat /\ stLock' = stLock
  BY <1>1
<1> QED BY <1>1, <1>2, <1>7, <1>8, OnlyProcessSteps

\* What every step below starts from.
LEMMA ProcessFacts ==
  ASSUME StartupInv, NEW p \in StProcs
  PROVE  /\ stProcess[p] \in Processes /\ ProcessOK(p)
         /\ stRows \in Rows /\ stEffects \in [1 .. StVersions -> Nat] /\ stIdentity \in Nat /\ stStarts \in Nat
         /\ stSecrets \in [1 .. 2 -> Roots] /\ stLock \in StProcs \cup {StNobody} /\ stLock \in StProcs \cup {"nobody"}
         /\ "nobody" \notin StProcs
         /\ \A c : stProcess' = [stProcess EXCEPT ![p] = c] => stProcess'[p] = c
BY StartupAssumption DEF StartupInv, StartupTypeOK, StNobody

\* The lock is taken, and the table read, before anything is compared.
LEMMA LockKeeps ==
  ASSUME StartupInv, NEW p \in StProcs, LockSchema(p)
  PROVE  StartupInv'
<1> DEFINE c == [stProcess[p] EXCEPT !.at = "locked"]
<1>1. /\ stProcess' = [stProcess EXCEPT ![p] = c] /\ stLock = StNobody /\ stLock' = p
      /\ stProcess[p].at = "connected"
      /\ UNCHANGED <<stRows, stEffects, stIdentity, stSecrets>> /\ stStarts' = stStarts
  BY DEF LockSchema, Go
<1>2. c \in Processes
  BY ProcessFacts, ProcessUpdates, NoRowsIsRows, NoRootsIsSeq DEF Stages
<1>3. /\ stProcess'[p] = c /\ c.at = "locked" /\ c.next = stProcess[p].next /\ c.start = stProcess[p].start
      /\ c.roots = stProcess[p].roots /\ c.why = stProcess[p].why
  BY <1>1, ProcessFacts DEF Processes
<1> HIDE DEF c
<1>4. Migrator(p)' /\ Migrated(p)'
  BY <1>1, <1>3, ProcessFacts DEF ProcessOK, Migrator, Migrated, Past
<1>5. Identified(p)'
  BY <1>1, <1>3, ProcessFacts DEF ProcessOK, Identified, ManagesNodes, Past
<1>6. RootsHeld(p)'
  BY <1>1, <1>3, ProcessFacts DEF ProcessOK, RootsHeld
<1>7. ProcessOK(p)'
  BY <1>3, <1>4, <1>5, <1>6, ProcessFacts DEF ProcessOK
<1>8. \A q \in StProcs : q # p => (stLock' = q <=> stLock = q)
  BY <1>1, ProcessFacts DEF StNobody
<1> QED BY <1>1, <1>2, <1>7, <1>8, ProcessFacts, OnlyProcessSteps

LEMMA LoadAppliedKeeps ==
  ASSUME StartupInv, NEW p \in StProcs, LoadApplied(p)
  PROVE  StartupInv'
<1> DEFINE c == [stProcess[p] EXCEPT !.at = "migrating", !.seen = stRows]
<1>1. /\ stProcess' = [stProcess EXCEPT ![p] = c] /\ stLock' = stLock
      /\ stProcess[p].at = "locked"
      /\ UNCHANGED <<stRows, stEffects, stIdentity, stSecrets>> /\ stStarts' = stStarts
  BY DEF LoadApplied
<1>2. c \in Processes
  BY ProcessFacts, ProcessUpdates, NoRootsIsSeq DEF Stages
<1>3. /\ stProcess'[p] = c /\ c.at = "migrating" /\ c.next = stProcess[p].next /\ c.start = stProcess[p].start
      /\ c.roots = stProcess[p].roots /\ c.why = stProcess[p].why /\ c.seen = stRows /\ c.upto = stProcess[p].upto
  BY <1>1, ProcessFacts DEF Processes
<1>n. c.next = 1 /\ c.upto \in Nat
  BY <1>1, <1>3, ProcessFacts, ProcessFields, StartupAssumption DEF ProcessOK, Migrator
<1> HIDE DEF c
<1>4. Migrator(p)' /\ Migrated(p)'
  BY <1>1, <1>3, <1>n, ProcessFacts DEF ProcessOK, Migrator, Migrated, Past
<1>5. Identified(p)'
  BY <1>1, <1>3, ProcessFacts DEF ProcessOK, Identified, ManagesNodes, Past
<1>6. RootsHeld(p)'
  BY <1>1, <1>3, ProcessFacts DEF ProcessOK, RootsHeld
<1>7. ProcessOK(p)'
  BY <1>3, <1>4, <1>5, <1>6, ProcessFacts DEF ProcessOK
<1> QED BY <1>1, <1>2, <1>7, ProcessFacts, OnlyProcessSteps

\* A process that ends, or whose migration fails, gives its lock back.
LEMMA StopKeeps ==
  ASSUME StartupInv, NEW p \in StProcs, NEW c \in Processes,
         stProcess' = [stProcess EXCEPT ![p] = c],
         c.at \in {"off", "failed"}, c.why \notin {"clash", "kind"}, c.roots = <<>>,
         stLock' = IF stLock = p THEN StNobody ELSE stLock,
         UNCHANGED <<stRows, stEffects, stIdentity, stSecrets>>, stStarts' = stStarts
  PROVE  StartupInv'
<1>1. stProcess'[p] = c
  BY ProcessFacts
<1>2. stLock' # p /\ stLock' \in StProcs \cup {StNobody}
  BY ProcessFacts DEF StNobody
<1>3. \A q \in StProcs : q # p => (stLock' = q <=> stLock = q)
  BY ProcessFacts DEF StNobody
<1>4. ProcessOK(p)'
  BY <1>1, <1>2, IdleIsOK
<1> QED BY <1>2, <1>3, <1>4, ProcessFacts, OnlyProcessSteps

LEMMA EndKeeps ==
  ASSUME StartupInv, NEW p \in StProcs, ProcessEnds(p)
  PROVE  StartupInv'
<1>1. Off.at = "off" /\ Off.why = "none" /\ Off.roots = <<>>
  BY DEF Off
<1> QED BY <1>1, OffIsAProcess, StopKeeps DEF ProcessEnds

\* A version that is recorded with this binary's checksum is passed; another checksum
\* ends the start.
LEMMA VerifyKeeps ==
  ASSUME StartupInv, NEW p \in StProcs, VerifyApplied(p)
  PROVE  StartupInv'
<1> DEFINE v == stProcess[p].next
           c == [stProcess[p] EXCEPT !.next = stProcess[p].next + 1]
<1>0. /\ stProcess[p].at = "migrating" /\ v <= stProcess[p].upto /\ v \in DOMAIN stProcess[p].seen
      /\ UNCHANGED <<stRows, stEffects, stIdentity, stSecrets>> /\ stStarts' = stStarts
  BY DEF VerifyApplied, Migrating
<1>1. CASE stProcess[p].seen[v] = StChecksum(p, v)
  <2>1. stProcess' = [stProcess EXCEPT ![p] = c] /\ stLock' = stLock
    BY <1>1 DEF VerifyApplied
  <2>2. stProcess[p].next + 1 \in Nat
    BY ProcessFacts, ProcessFields
  <2>3. c \in Processes
    BY <2>2, ProcessFacts, ProcessUpdates, NoRowsIsRows, NoRootsIsSeq DEF Stages
  <2>4. /\ stProcess'[p] = c /\ c.at = "migrating" /\ c.next = v + 1 /\ c.start = stProcess[p].start
        /\ c.roots = stProcess[p].roots /\ c.why = stProcess[p].why /\ c.seen = stProcess[p].seen
        /\ c.upto = stProcess[p].upto /\ c.edited = stProcess[p].edited
    BY <2>1, <1>0, ProcessFacts DEF Processes
  <2>5. /\ v \in 1 .. stProcess[p].upto /\ stProcess[p].upto \in Nat
        /\ v \in DOMAIN stRows /\ stProcess[p].seen[v] = stRows[v]
    <3>1. stProcess[p].upto \in Nat
      BY ProcessFacts, ProcessFields, StartupAssumption
    <3>2. v \in 1 .. stProcess[p].upto
      BY <1>0, <3>1, ProcessFacts DEF ProcessOK, Migrator
    <3>3. v \in DOMAIN stRows /\ stProcess[p].seen[v] = stRows[v]
      BY <1>0, <3>1, <3>2, ProcessFacts DEF ProcessOK, Migrator
    <3> QED BY <3>1, <3>2, <3>3
  <2>6. \A w \in 1 .. stProcess[p].upto : Recorded(p, w)' <=> Recorded(p, w)
    BY <1>0, <2>4 DEF Recorded, StChecksum
  <2>7. Recorded(p, v)
    BY <1>1, <2>5 DEF Recorded
  <2> HIDE DEF c, v
  <2>8. Migrator(p)'
    <3>1. /\ c.next \in 1 .. c.upto + 1
          /\ \A w \in 1 .. c.upto : w < c.next => w < v \/ w = v
          /\ \A w \in 1 .. c.upto : w >= c.next => w >= v
      BY <2>4, <2>5
    <3>2. \A w \in 1 .. c.upto : w < c.next => Recorded(p, w)'
      BY <1>0, <2>4, <2>6, <2>7, <3>1, ProcessFacts DEF ProcessOK, Migrator, v
    <3>3. \A w \in 1 .. c.upto : w >= c.next =>
            /\ w \in DOMAIN c.seen <=> w \in DOMAIN stRows'
            /\ w \in DOMAIN c.seen => c.seen[w] = stRows'[w]
      BY <1>0, <2>4, <3>1, ProcessFacts DEF ProcessOK, Migrator, v
    <3>4. stLock' = p
      BY <1>0, <2>1, ProcessFacts DEF ProcessOK, Migrator
    <3> QED BY <2>4, <3>1, <3>2, <3>3, <3>4 DEF Migrator
  <2>9. Migrated(p)' /\ Identified(p)'
    BY <1>0, <2>4, ProcessFacts DEF ProcessOK, Migrated, Identified, ManagesNodes, Past
  <2>10. RootsHeld(p)'
    BY <1>0, <2>4, ProcessFacts DEF ProcessOK, RootsHeld
  <2>11. ProcessOK(p)'
    BY <2>4, <2>8, <2>9, <2>10, ProcessFacts DEF ProcessOK
  <2> QED BY <1>0, <2>1, <2>3, <2>11, ProcessFacts, OnlyProcessSteps
<1>2. CASE stProcess[p].seen[v] # StChecksum(p, v)
  <2> DEFINE d == [Off EXCEPT !.at = "failed", !.why = "checksum"]
  <2>1. /\ stProcess' = [stProcess EXCEPT ![p] = d]
        /\ stLock' = IF stLock = p THEN StNobody ELSE stLock
    BY <1>2 DEF VerifyApplied, MigrationFails
  <2>2. d \in Processes
    BY OffIsAProcess, ProcessUpdates, NoRowsIsRows, NoRootsIsSeq DEF Stages
  <2>3. d.at = "failed" /\ d.why = "checksum" /\ d.roots = <<>>
    BY DEF Off
  <2> QED BY <1>0, <2>1, <2>2, <2>3, StopKeeps
<1> QED BY <1>1, <1>2

\* A row is added to a table.
LEMMA AddedIsRows ==
  ASSUME NEW rows \in Rows, NEW v \in 1 .. StVersions, NEW sum \in Checksums
  PROVE  /\ [w \in DOMAIN rows \cup {v} |-> IF w = v THEN sum ELSE rows[w]] \in Rows
         /\ DOMAIN rows \in SUBSET (1 .. StVersions)
<1>1. PICK D \in SUBSET (1 .. StVersions) : rows \in [D -> Checksums]
  BY DEF Rows
<1>2. D \cup {v} \in SUBSET (1 .. StVersions) /\ DOMAIN rows = D
  BY <1>1
<1>3. [w \in D \cup {v} |-> IF w = v THEN sum ELSE rows[w]] \in [D \cup {v} -> Checksums]
  BY <1>1
<1> QED BY <1>1, <1>2, <1>3 DEF Rows

\* A version that was not recorded is applied under the lock, so nobody else has
\* recorded it since, and its row and its effect come together.
LEMMA ApplyKeeps ==
  ASSUME StartupInv, NEW p \in StProcs, ApplyOne(p)
  PROVE  StartupInv'
<1> DEFINE v == stProcess[p].next
           c == [stProcess[p] EXCEPT !.next = stProcess[p].next + 1]
<1>0. /\ stProcess[p].at = "migrating" /\ v <= stProcess[p].upto /\ v \notin DOMAIN stProcess[p].seen
      /\ UNCHANGED <<stIdentity, stSecrets>> /\ stStarts' = stStarts
  BY DEF ApplyOne, Migrating
<1>1. /\ stProcess[p].upto \in 0 .. StVersions /\ stProcess[p].next \in Nat /\ StVersions \in Nat
  BY ProcessFacts, ProcessFields, StartupAssumption
<1>2. v \in 1 .. stProcess[p].upto /\ v \in 1 .. StVersions
  BY <1>0, <1>1, ProcessFacts DEF ProcessOK, Migrator
<1>3. v \notin DOMAIN stRows /\ stLock = p
  BY SMTT(40), <1>0, <1>1, <1>2, ProcessFacts DEF ProcessOK, Migrator
<1>4. /\ stRows' = [w \in DOMAIN stRows \cup {v} |-> IF w = v THEN StChecksum(p, v) ELSE stRows[w]]
      /\ stEffects' = [stEffects EXCEPT ![v] = @ + 1]
      /\ stProcess' = [stProcess EXCEPT ![p] = c] /\ stLock' = stLock
  BY <1>3 DEF ApplyOne
<1>5. StChecksum(p, v) \in Checksums
  BY DEF StChecksum, Checksums
<1>6. /\ stRows' \in Rows /\ DOMAIN stRows' = DOMAIN stRows \cup {v}
      /\ stRows'[v] = StChecksum(p, v) /\ \A w \in DOMAIN stRows : stRows'[w] = stRows[w]
  <2> HIDE DEF v
  <2>1. stRows \in Rows
    BY ProcessFacts
  <2>2. stRows' \in Rows
    BY <1>2, <1>4, <1>5, <2>1, AddedIsRows
  <2>3. \A w \in DOMAIN stRows : w # v
    BY <1>3
  <2> QED BY <1>4, <2>2, <2>3
<1>7. stEffects' \in [1 .. StVersions -> Nat] /\ EffectsAreRows'
  <2>1. stEffects[v] = 0
    BY <1>2, <1>3 DEF StartupInv, EffectsAreRows
  <2> HIDE DEF v
  <2>2. stEffects \in [1 .. StVersions -> Nat]
    BY ProcessFacts
  <2>3. stEffects' \in [1 .. StVersions -> Nat] /\ stEffects'[v] = 1
        /\ \A w \in 1 .. StVersions : w # v => stEffects'[w] = stEffects[w]
    BY <1>2, <1>4, <2>1, <2>2
  <2>4. EffectsAreRows
    BY DEF StartupInv
  <2> QED BY <1>6, <2>3, <2>4 DEF EffectsAreRows
<1>8. c \in Processes
  <2>1. stProcess[p].next + 1 \in Nat
    BY <1>1
  <2> QED BY <2>1, ProcessFacts, ProcessUpdates, NoRowsIsRows, NoRootsIsSeq DEF Stages
<1>9. /\ stProcess'[p] = c /\ c.at = "migrating" /\ c.next = v + 1 /\ c.start = stProcess[p].start
      /\ c.roots = stProcess[p].roots /\ c.why = stProcess[p].why /\ c.seen = stProcess[p].seen
      /\ c.upto = stProcess[p].upto /\ c.edited = stProcess[p].edited
  BY <1>0, <1>4, ProcessFacts DEF Processes
<1>10. Accretes(p)
  BY <1>0, <1>3, <1>4, <1>6 DEF Accretes
<1>11. \A w \in 1 .. stProcess[p].upto : w = v \/ Recorded(p, w) => Recorded(p, w)'
  BY <1>6, <1>9 DEF Recorded, StChecksum
<1> HIDE DEF c, v
<1>12. Migrator(p)'
  <2>1. /\ c.next \in 1 .. c.upto + 1
        /\ \A w \in 1 .. c.upto : w < c.next => w < v \/ w = v
        /\ \A w \in 1 .. c.upto : w >= c.next => w >= v /\ w # v
    BY <1>1, <1>2, <1>9
  <2>2. \A w \in 1 .. c.upto : w < c.next => Recorded(p, w)'
    BY <1>0, <1>9, <1>11, <2>1, ProcessFacts DEF ProcessOK, Migrator, v
  <2>3. \A w \in 1 .. c.upto : w >= c.next =>
          /\ w \in DOMAIN c.seen <=> w \in DOMAIN stRows'
          /\ w \in DOMAIN c.seen => c.seen[w] = stRows'[w]
    BY <1>0, <1>6, <1>9, <2>1, ProcessFacts DEF ProcessOK, Migrator, v
  <2> QED BY <1>3, <1>4, <1>9, <2>1, <2>2, <2>3 DEF Migrator
<1>13. Migrated(p)' /\ Identified(p)'
  BY <1>0, <1>9, ProcessFacts DEF ProcessOK, Migrated, Identified, ManagesNodes, Past
<1>14. RootsHeld(p)'
  BY <1>0, <1>9, ProcessFacts DEF ProcessOK, RootsHeld
<1>15. ProcessOK(p)'
  BY <1>9, <1>12, <1>13, <1>14, ProcessFacts DEF ProcessOK
<1>16. KindsMatch'
  BY <1>0 DEF StartupInv, KindsMatch, StKind
<1> QED BY <1>0, <1>4, <1>6, <1>7, <1>8, <1>10, <1>15, <1>16, ProcessFacts, OneProcessSteps

\* After the last migration the lock is free again.
LEMMA UnlockKeeps ==
  ASSUME StartupInv, NEW p \in StProcs, UnlockSchema(p)
  PROVE  StartupInv'
<1> DEFINE c == [stProcess[p] EXCEPT !.at = "build", !.seen = NoRows, !.next = 1]
<1>1. /\ stProcess[p].at = "migrating" /\ stProcess[p].next > stProcess[p].upto
      /\ stProcess' = [stProcess EXCEPT ![p] = c] /\ stLock' = StNobody
      /\ UNCHANGED <<stRows, stEffects, stIdentity, stSecrets>> /\ stStarts' = stStarts
  BY DEF UnlockSchema
<1>2. c \in Processes
  BY ProcessFacts, ProcessUpdates, NoRowsIsRows, NoRootsIsSeq DEF Stages
<1>3. /\ stProcess'[p] = c /\ c.at = "build" /\ c.start = stProcess[p].start
      /\ c.roots = stProcess[p].roots /\ c.why = stProcess[p].why
      /\ c.upto = stProcess[p].upto /\ c.edited = stProcess[p].edited
  BY <1>1, ProcessFacts DEF Processes
<1>4. \A w \in 1 .. stProcess[p].upto : Recorded(p, w)
  <2>1. stProcess[p].upto \in Nat /\ stProcess[p].next \in Nat
    BY ProcessFacts, ProcessFields, StartupAssumption
  <2> QED BY <1>1, <2>1, ProcessFacts DEF ProcessOK, Migrator
<1>5. stLock = p
  BY <1>1, ProcessFacts DEF ProcessOK, Migrator
<1> HIDE DEF c
<1>6. Migrator(p)'
  BY <1>1, <1>3, ProcessFacts DEF Migrator, StNobody
<1>7. Migrated(p)'
  BY <1>1, <1>3, <1>4 DEF Migrated, Recorded, StChecksum
<1>8. Identified(p)'
  BY <1>1, <1>3, ProcessFacts DEF ProcessOK, Identified, ManagesNodes, Past
<1>9. RootsHeld(p)'
  BY <1>1, <1>3, ProcessFacts DEF ProcessOK, RootsHeld
<1>10. ProcessOK(p)'
  BY <1>3, <1>6, <1>7, <1>8, <1>9, ProcessFacts DEF ProcessOK
<1>11. \A q \in StProcs : q # p => (stLock' = q <=> stLock = q)
  BY <1>1, <1>5, ProcessFacts DEF StNobody
<1> QED BY <1>1, <1>2, <1>10, <1>11, ProcessFacts, OnlyProcessSteps

-----------------------------------------------------------------------------
\* Past the migrations a controller only moves on; what it holds is checked where it
\* is taken.
LEMMA PastKeeps ==
  ASSUME StartupInv, NEW p \in StProcs, stProcess[p].at \in Past, stProcess'[p].at \in Past,
         stProcess'[p].start = stProcess[p].start, stProcess'[p].upto = stProcess[p].upto,
         stProcess'[p].edited = stProcess[p].edited, stProcess'[p].why \notin {"clash", "kind"},
         stLock' = stLock, stRows' = stRows,
         stProcess'[p].at = "identified" => stIdentity' # 0,
         stProcess'[p].at \in {"roots", "load"} \/ ManagesNodes(p)' =>
            stProcess'[p].id = stIdentity' /\ stProcess'[p].id # 0,
         RootsHeld(p)'
  PROVE  ProcessOK(p)'
<1>1. Migrator(p)'
  BY ProcessFacts DEF ProcessOK, Migrator, Past
<1>2. Migrated(p)'
  BY ProcessFacts DEF ProcessOK, Migrated, Recorded, StChecksum
<1>3. Identified(p)'
  BY ProcessFacts DEF ProcessOK, Identified, Past
<1> QED BY <1>1, <1>2, <1>3 DEF ProcessOK

\* The roots it held are still the stored ones when it takes none.
LEMMA SameRootsHeld ==
  ASSUME StartupInv, NEW p \in StProcs, stProcess'[p].roots = stProcess[p].roots,
         stProcess[p].at # "serving", stSecrets' = stSecrets,
         stProcess'[p].at = "load" => stSecrets[ThisCA(p)] # NoRoot
  PROVE  RootsHeld(p)'
BY ProcessFacts DEF ProcessOK, RootsHeld, ThisCA

\* Without node management it holds nothing.
LEMMA UnmanagedKeeps ==
  ASSUME StartupInv, NEW p \in StProcs, stProcess[p].at \in Past, NEW why \in {"no table", "key"},
         Unmanaged(p, why), UNCHANGED <<stRows, stEffects, stIdentity, stSecrets>>,
         stStarts' = stStarts, stLock' = stLock
  PROVE  StartupInv'
<1> DEFINE c == [stProcess[p] EXCEPT !.at = "serving", !.why = why, !.key = 0, !.roots = <<>>]
<1>1. stProcess' = [stProcess EXCEPT ![p] = c]
  BY DEF Unmanaged
<1>2. c \in Processes
  BY ZenonT(60), ProcessFacts, ProcessUpdates, NoRowsIsRows, NoRootsIsSeq DEF Stages
<1>3. /\ stProcess'[p] = c /\ c.at = "serving" /\ c.start = stProcess[p].start
      /\ c.roots = <<>> /\ c.why = why
      /\ c.upto = stProcess[p].upto /\ c.edited = stProcess[p].edited
  BY <1>1, ProcessFacts DEF Processes
<1> HIDE DEF c
<1>4. RootsHeld(p)'
  BY <1>3, NoRootsHeld
<1>m. ~ManagesNodes(p)'
  BY <1>3, NothingManaged
<1>5. ProcessOK(p)'
  BY <1>3, <1>4, <1>m, PastKeeps DEF Past
<1> QED BY <1>1, <1>2, <1>5, ProcessFacts, OnlyProcessSteps

\* The first controller stores its identity, the others read it.
LEMMA EnsureKeeps ==
  ASSUME StartupInv, NEW p \in StProcs, EnsureIdentity(p)
  PROVE  StartupInv'
<1>0. /\ stProcess[p].at = "build" /\ stStarts' = stStarts
      /\ UNCHANGED <<stRows, stEffects, stSecrets>> /\ stLock' = stLock
  BY DEF EnsureIdentity
<1>1. CASE 1 \notin DOMAIN stRows
  BY <1>0, <1>1, UnmanagedKeeps DEF EnsureIdentity, Past
<1>2. CASE 1 \in DOMAIN stRows /\ stIdentity = 0
  <2> DEFINE c == [stProcess[p] EXCEPT !.at = "roots", !.id = stProcess[p].start]
  <2>1. stProcess' = [stProcess EXCEPT ![p] = c] /\ stIdentity' = stProcess[p].start
    BY <1>2 DEF EnsureIdentity
  <2>2. stProcess[p].start \in Nat /\ stProcess[p].start # 0
    BY <1>0, ProcessFacts, ProcessFields DEF ProcessOK, Identified, Past
  <2>3. c \in Processes
    BY <2>2, ProcessFacts, ProcessUpdates, NoRowsIsRows, NoRootsIsSeq DEF Stages
  <2>4. /\ stProcess'[p] = c /\ c.at = "roots" /\ c.start = stProcess[p].start
        /\ c.roots = stProcess[p].roots /\ c.why = stProcess[p].why
        /\ c.upto = stProcess[p].upto /\ c.edited = stProcess[p].edited /\ c.id = stProcess[p].start
    BY <2>1, ProcessFacts DEF Processes
  <2> HIDE DEF c
  <2>5. RootsHeld(p)'
    BY <1>0, <2>4, SameRootsHeld
  <2>6. ProcessOK(p)'
    BY <1>0, <2>1, <2>2, <2>4, <2>5, ProcessFacts, PastKeeps DEF Past, ManagesNodes, ProcessOK
  <2>7. Accretes(p)
    BY <1>0, <1>2 DEF Accretes
  <2>8. EffectsAreRows' /\ KindsMatch'
    BY <1>0 DEF StartupInv, EffectsAreRows, KindsMatch, StKind
  <2> QED BY <1>0, <2>1, <2>2, <2>3, <2>6, <2>7, <2>8, ProcessFacts, OneProcessSteps
<1>3. CASE 1 \in DOMAIN stRows /\ stIdentity # 0
  <2> DEFINE c == [stProcess[p] EXCEPT !.at = "identified"]
  <2>1. stProcess' = [stProcess EXCEPT ![p] = c] /\ stIdentity' = stIdentity
    BY <1>3 DEF EnsureIdentity, Go
  <2>2. c \in Processes
    BY ProcessFacts, ProcessUpdates, NoRowsIsRows, NoRootsIsSeq DEF Stages
  <2>3. /\ stProcess'[p] = c /\ c.at = "identified" /\ c.start = stProcess[p].start
        /\ c.roots = stProcess[p].roots /\ c.why = stProcess[p].why
        /\ c.upto = stProcess[p].upto /\ c.edited = stProcess[p].edited
    BY <2>1, ProcessFacts DEF Processes
  <2> HIDE DEF c
  <2>4. RootsHeld(p)'
    BY <1>0, <2>3, SameRootsHeld
  <2>5. ProcessOK(p)'
    BY <1>0, <1>3, <2>1, <2>3, <2>4, ProcessFacts, PastKeeps DEF Past, ManagesNodes, ProcessOK
  <2> QED BY <1>0, <2>1, <2>2, <2>5, ProcessFacts, OnlyProcessSteps
<1> QED BY <1>1, <1>2, <1>3

LEMMA ReadIdentityKeeps ==
  ASSUME StartupInv, NEW p \in StProcs, ReadIdentity(p)
  PROVE  StartupInv'
<1> DEFINE c == [stProcess[p] EXCEPT !.at = "roots", !.id = stIdentity]
<1>1. /\ stProcess[p].at = "identified" /\ stProcess' = [stProcess EXCEPT ![p] = c]
      /\ UNCHANGED <<stRows, stEffects, stIdentity, stSecrets>> /\ stStarts' = stStarts /\ stLock' = stLock
  BY DEF ReadIdentity
<1>2. c \in Processes
  BY ProcessFacts, ProcessUpdates, NoRowsIsRows, NoRootsIsSeq DEF Stages
<1>3. /\ stProcess'[p] = c /\ c.at = "roots" /\ c.start = stProcess[p].start
      /\ c.roots = stProcess[p].roots /\ c.why = stProcess[p].why
      /\ c.upto = stProcess[p].upto /\ c.edited = stProcess[p].edited /\ c.id = stIdentity
  BY ZenonT(60), <1>1, ProcessFacts DEF Processes
<1>4. stIdentity # 0
  BY <1>1, ProcessFacts DEF ProcessOK, Identified
<1> HIDE DEF c
<1>5. RootsHeld(p)'
  BY <1>1, <1>3, SameRootsHeld
<1>6. ProcessOK(p)'
  BY <1>1, <1>3, <1>4, <1>5, ProcessFacts, PastKeeps DEF Past, ProcessOK
<1> QED BY <1>1, <1>2, <1>6, ProcessFacts, OnlyProcessSteps

\* One more root is held, and it is the stored one.
LEMMA HoldKeeps ==
  ASSUME StartupInv, NEW p \in StProcs, stProcess[p].at \in {"roots", "load"}, NEW r \in Roots, r # NoRoot,
         HoldsRoot(p, r), stSecrets' \in [1 .. 2 -> Roots], stSecrets'[ThisCA(p)] = r,
         \A i \in 1 .. 2 : stSecrets[i] # NoRoot => stSecrets'[i] = stSecrets[i],
         KindsMatch', UNCHANGED <<stRows, stEffects, stIdentity>>, stStarts' = stStarts, stLock' = stLock
  PROVE  StartupInv'
<1> DEFINE at == IF ThisCA(p) = Len(CARefs) THEN "serving" ELSE "roots"
           key == IF ThisCA(p) = Len(CARefs) THEN 0 ELSE stProcess[p].key
           roots == Append(stProcess[p].roots, r)
           c == [stProcess[p] EXCEPT !.roots = roots, !.at = at, !.key = key]
<1>1. stProcess' = [stProcess EXCEPT ![p] = c]
  BY DEF HoldsRoot
<1>2. /\ stProcess[p].roots \in Seq(Roots) /\ Len(stProcess[p].roots) \in Nat /\ stProcess[p].key \in Nat
      /\ Len(stProcess[p].roots) < 2 /\ RootsHeld(p)
      /\ stProcess[p].id = stIdentity /\ stProcess[p].id # 0
  BY ProcessFacts, ProcessFields DEF ProcessOK, RootsHeld, Identified
<1>3. /\ roots \in Seq(Roots) /\ Len(roots) = Len(stProcess[p].roots) + 1 /\ roots[Len(stProcess[p].roots) + 1] = r
      /\ \A i \in 1 .. Len(stProcess[p].roots) : roots[i] = stProcess[p].roots[i]
  BY <1>2
<1>4. at \in Stages /\ key \in Nat /\ at \in {"serving", "roots"} /\ (at # "serving" => Len(roots) < 2)
  <2>1. ThisCA(p) = Len(stProcess[p].roots) + 1 /\ Len(CARefs) = 2
    BY TwoRoots DEF ThisCA
  <2> QED BY <1>2, <1>3, <2>1 DEF Stages
<1> HIDE DEF at, key, roots
<1>5. c \in Processes
  BY ZenonT(60), <1>3, <1>4, ProcessFacts, ProcessUpdates, NoRowsIsRows
<1>6. /\ stProcess'[p] = c /\ c.at = at /\ c.start = stProcess[p].start
      /\ c.roots = roots /\ c.why = stProcess[p].why
      /\ c.upto = stProcess[p].upto /\ c.edited = stProcess[p].edited /\ c.id = stProcess[p].id
  BY ZenonT(60), <1>1, ProcessFacts DEF Processes
<1> HIDE DEF c
<1>7. RootsHeld(p)'
  <2>1. stSecrets'[Len(stProcess[p].roots) + 1] = r
    BY DEF ThisCA
  <2>2. \A i \in 1 .. 2 : i <= Len(roots) => roots[i] = stSecrets'[i] /\ stSecrets'[i] # NoRoot
    <3> TAKE i \in 1 .. 2
    <3>1. CASE i = Len(stProcess[p].roots) + 1
      BY <1>3, <2>1, <3>1
    <3>2. CASE i <= Len(stProcess[p].roots)
      BY <1>2, <1>3, <3>2 DEF RootsHeld
    <3> QED BY <1>2, <1>3, <3>1, <3>2
  <2>3. Len(roots) <= 2
    BY <1>2, <1>3
  <2> QED BY <1>4, <1>6, <2>2, <2>3 DEF RootsHeld
<1>8. ProcessOK(p)'
  BY <1>2, <1>4, <1>6, <1>7, ProcessFacts, PastKeeps DEF Past, ProcessOK
<1>9. Accretes(p) /\ EffectsAreRows'
  BY DEF Accretes, StartupInv, EffectsAreRows
<1> QED BY <1>1, <1>5, <1>8, <1>9, ProcessFacts, OneProcessSteps

\* A root becomes the installation's only where none is stored.
LEMMA MintKeeps ==
  ASSUME StartupInv, NEW p \in StProcs, MintRoot(p)
  PROVE  StartupInv'
<1> DEFINE i == ThisCA(p)
           fresh == [root |-> stProcess[p].start, kind |-> StKind(i), key |-> stProcess[p].key]
<1>1. /\ stProcess[p].at = "roots" /\ stSecrets[i] = NoRoot /\ stSecrets' = [stSecrets EXCEPT ![i] = fresh]
      /\ HoldsRoot(p, fresh) /\ UNCHANGED <<stRows, stEffects, stIdentity>> /\ stStarts' = stStarts /\ stLock' = stLock
  BY DEF MintRoot, CreateSecret
<1>2. i \in 1 .. 2
  BY <1>1, ProcessFacts, ProcessFields DEF ProcessOK, RootsHeld, ThisCA
<1> HIDE DEF i
<1>3. StKind(i) \in {"controller", "node"}
  BY <1>2 DEF StKind, CARefs
<1>4. fresh \in Roots /\ fresh.kind = StKind(i) /\ fresh # NoRoot
  BY <1>3, ProcessFacts, ProcessFields DEF Roots, NoRoot
<1> HIDE DEF fresh
<1>5. stSecrets' \in [1 .. 2 -> Roots] /\ stSecrets'[i] = fresh
  BY <1>1, <1>2, <1>4, ProcessFacts
<1>6. \A j \in 1 .. 2 : j # i => stSecrets'[j] = stSecrets[j]
  BY <1>1, <1>2, ProcessFacts
<1>7. KindsMatch'
  BY <1>4, <1>5, <1>6 DEF StartupInv, KindsMatch, StKind
<1> QED BY <1>1, <1>4, <1>5, <1>6, <1>7, HoldKeeps DEF i

\* A reference that exists sends it to the stored root.
LEMMA ExistsKeeps ==
  ASSUME StartupInv, NEW p \in StProcs, RootExists(p)
  PROVE  StartupInv'
<1> DEFINE c == [stProcess[p] EXCEPT !.at = "load"]
<1>1. /\ stProcess[p].at = "roots" /\ stProcess' = [stProcess EXCEPT ![p] = c] /\ stSecrets[ThisCA(p)] # NoRoot
      /\ UNCHANGED <<stRows, stEffects, stIdentity, stSecrets>> /\ stStarts' = stStarts /\ stLock' = stLock
  BY DEF RootExists, Go
<1>2. c \in Processes
  BY ProcessFacts, ProcessUpdates, NoRowsIsRows, NoRootsIsSeq DEF Stages
<1>3. /\ stProcess'[p] = c /\ c.at = "load" /\ c.start = stProcess[p].start
      /\ c.roots = stProcess[p].roots /\ c.why = stProcess[p].why
      /\ c.upto = stProcess[p].upto /\ c.edited = stProcess[p].edited /\ c.id = stProcess[p].id
  BY <1>1, ProcessFacts DEF Processes
<1>4. stProcess[p].id = stIdentity /\ stProcess[p].id # 0
  BY <1>1, ProcessFacts DEF ProcessOK, Identified
<1> HIDE DEF c
<1>5. RootsHeld(p)'
  BY <1>1, <1>3, SameRootsHeld
<1>6. ProcessOK(p)'
  BY <1>1, <1>3, <1>4, <1>5, ProcessFacts, PastKeeps DEF Past, ProcessOK
<1> QED BY <1>1, <1>2, <1>6, ProcessFacts, OnlyProcessSteps

\* The stored root is of the expected kind; without its key there is no management.
LEMMA LoadKeeps ==
  ASSUME StartupInv, NEW p \in StProcs, LoadRoot(p)
  PROVE  StartupInv'
<1> DEFINE i == ThisCA(p)
           stored == stSecrets[i]
<1>1. /\ stProcess[p].at = "load" /\ UNCHANGED <<stRows, stEffects, stIdentity, stSecrets>>
      /\ stStarts' = stStarts /\ stLock' = stLock
  BY DEF LoadRoot
<1>2. i \in 1 .. 2 /\ stored # NoRoot
  BY SMTT(40), <1>1, ProcessFacts, ProcessFields DEF ProcessOK, RootsHeld, ThisCA
<1>3. stored.kind = StKind(i) /\ stored \in Roots /\ KindsMatch'
  <2>1. KindsMatch
    BY DEF StartupInv
  <2> QED BY <1>1, <1>2, <2>1, ProcessFacts DEF KindsMatch, StKind
<1>4. CASE stored.key > stProcess[p].key
  <2>1. Unmanaged(p, "key")
    BY <1>4 DEF LoadRoot
  <2> QED BY <1>1, <2>1, UnmanagedKeeps DEF Past
<1>5. CASE ~(stored.key > stProcess[p].key)
  <2>1. HoldsRoot(p, stored)
    BY <1>3, <1>5 DEF LoadRoot
  <2> QED BY <1>1, <1>2, <1>3, <2>1, ProcessFacts, HoldKeeps
<1> QED BY <1>4, <1>5

-----------------------------------------------------------------------------
LEMMA StartupStep == StartupInv /\ [StartupNext]_startupVars => StartupInv'
<1> SUFFICES ASSUME StartupInv, [StartupNext]_startupVars PROVE StartupInv'
  OBVIOUS
<1>1. ASSUME NEW p \in StProcs,
             Boot(p) \/ LockSchema(p) \/ LoadApplied(p) \/ VerifyApplied(p) \/ ApplyOne(p) \/ UnlockSchema(p)
      PROVE  StartupInv'
  BY <1>1, BootKeeps, LockKeeps, LoadAppliedKeeps, VerifyKeeps, ApplyKeeps, UnlockKeeps
<1>2. ASSUME NEW p \in StProcs,
             EnsureIdentity(p) \/ ReadIdentity(p) \/ MintRoot(p) \/ RootExists(p) \/ LoadRoot(p) \/ ProcessEnds(p)
      PROVE  StartupInv'
  BY <1>2, EnsureKeeps, ReadIdentityKeeps, MintKeeps, ExistsKeeps, LoadKeeps, EndKeeps
<1>3. CASE UNCHANGED startupVars
  BY <1>3 DEF startupVars, StartupInv, StartupTypeOK, EffectsAreRows, KindsMatch, ProcessOK, Migrator, Migrated,
              Identified, RootsHeld, Recorded, ManagesNodes, StChecksum
<1> QED BY <1>1, <1>2, <1>3 DEF StartupNext

LEMMA StartupInvariant == StartupSpec => []StartupInv
BY StartupStarts, StartupStep, PTL DEF StartupSpec

LEMMA InvIsSound == StartupInv => BootSound
<1> SUFFICES ASSUME StartupInv PROVE BootSound
  OBVIOUS
<1>1. \A v \in 1 .. StVersions : stEffects[v] = IF v \in DOMAIN stRows THEN 1 ELSE 0
  BY DEF StartupInv, EffectsAreRows
<1>2. \A i \in DOMAIN CARefs : stSecrets[i] # NoRoot => stSecrets[i].kind = StKind(i)
  BY TwoRoots DEF StartupInv, KindsMatch
<1>3. ASSUME NEW p \in StProcs
      PROVE  /\ stProcess[p].why \notin {"clash", "kind"}
             /\ stProcess[p].at \in {"build", "identified", "roots", "load", "serving"}
                  => \A v \in 1 .. stProcess[p].upto : v \in DOMAIN stRows /\ stRows[v] = StChecksum(p, v)
  BY <1>3, ProcessFacts DEF ProcessOK, Migrated, Recorded, Past
<1>4. ASSUME NEW p \in StProcs, ManagesNodes(p)
      PROVE  /\ stProcess[p].id = stIdentity
             /\ \A i \in DOMAIN CARefs : stProcess[p].roots[i] = stSecrets[i]
  <2>1. Len(stProcess[p].roots) = 2
    BY <1>4, TwoRoots DEF ManagesNodes
  <2> QED BY <1>4, <2>1, TwoRoots, ProcessFacts DEF ProcessOK, Identified, RootsHeld
<1> QED BY <1>1, <1>2, <1>3, <1>4 DEF BootSound

\* A start is sound whatever starts, dies or is older beside it (migrate.go:153-208,
\* authority.go:140-249).
THEOREM StartsAreSound == StartupSpec => []BootSound
BY StartupInvariant, InvIsSound, PTL

-----------------------------------------------------------------------------
(***************************************************************************)
(* Serving: AnswersAreWhole for any set of requests. What it says of a     *)
(* request that is over rests on what an open one may look like and on why *)
(* a handler may still run when nobody waits for it: ServingInv.           *)
(***************************************************************************)

Requests ==
  [kind : RequestKinds \cup {"none"}, run : {"none", "running", "returned", "panicked", "killed"},
   ctx : {"live", "deadline", "canceled"}, said : SUBSET {"handler", "503", "500", "cut"},
   open : BOOLEAN, gone : BOOLEAN]

ServingTypeOK ==
  /\ svReq \in [SvRequests -> Requests]
  /\ svMain \in {"select", "drain", "gone"} /\ svExit \in {"none", "panic", "failed", "clean"}
  /\ svSignal \in BOOLEAN /\ svNode \in {"serves", "drains", "returned"}

\* A request that is worked on: nothing is said yet, and a context that ended
\* without a deadline ended with the client.
OpenIsSilent(q) ==
  /\ q.open => q.said = {} /\ q.kind # "none"
  /\ q.open /\ q.kind = "api" /\ q.ctx = "canceled" => q.gone

\* A handler nobody waits for is an API route's, and its context is over.
AbandonedIsTold(q) ==
  /\ q.run = "running" /\ ~q.open => q.kind = "api" /\ q.ctx # "live"
  /\ q.run = "none" <=> q.kind = "none"

\* One answer, the handler's own only when it returned, none only for a client that left.
OverIsAnswered(q) ==
  /\ \A one, other \in q.said : one = other
  /\ "handler" \in q.said => q.run = "returned"
  /\ q.kind = "api" /\ ~q.open /\ q.said = {} => q.gone

\* While the process is up nothing is killed, and only a node's connection is cut.
UpIsWhole(q) ==
  /\ svMain # "gone" => q.run # "killed" /\ ("cut" \in q.said => q.kind = "node")
  /\ svSignal /\ q.kind = "node" => q.ctx # "live"
  /\ svExit = "clean" => /\ q.kind # "node" => "cut" \notin q.said
                         /\ q.run = "killed" => q.ctx # "live"

ServingInv ==
  /\ ServingTypeOK
  /\ svMain # "gone" <=> svExit = "none"
  /\ svMain = "drain" => svSignal
  /\ \A r \in SvRequests :
       OpenIsSilent(svReq[r]) /\ AbandonedIsTold(svReq[r]) /\ OverIsAnswered(svReq[r]) /\ UpIsWhole(svReq[r])

-----------------------------------------------------------------------------
\* Nothing has been accepted yet.
LEMMA ServingStarts == ServingInit => ServingInv
<1> SUFFICES ASSUME ServingInit PROVE ServingInv
  OBVIOUS
<1>1. NoRequest \in Requests
  BY DEF NoRequest, Requests, RequestKinds
<1>2. ServingTypeOK
  BY <1>1 DEF ServingInit, ServingTypeOK
<1>3. \A r \in SvRequests : svReq[r] = NoRequest
  BY DEF ServingInit
<1>4. OpenIsSilent(NoRequest) /\ AbandonedIsTold(NoRequest) /\ OverIsAnswered(NoRequest)
  BY DEF NoRequest, OpenIsSilent, AbandonedIsTold, OverIsAnswered
<1>5. UpIsWhole(NoRequest)
  BY DEF NoRequest, UpIsWhole, ServingInit
<1> QED BY <1>2, <1>3, <1>4, <1>5 DEF ServingInv, ServingInit

\* A step that replaces one request by one that fits (withTimeout, net/http), and
\* leaves the process alone, keeps the invariant.
LEMMA OneRequestChanges ==
  ASSUME ServingInv, NEW r \in SvRequests, NEW q \in Requests, Set(r, q), UNCHANGED svProcess,
         OpenIsSilent(q), AbandonedIsTold(q), OverIsAnswered(q), UpIsWhole(q)
  PROVE  ServingInv'
<1>1. svReq' \in [SvRequests -> Requests] /\ svReq'[r] = q
  BY DEF ServingInv, ServingTypeOK, Set
<1>2. \A x \in SvRequests : x # r => svReq'[x] = svReq[x]
  BY DEF ServingInv, ServingTypeOK, Set
<1>3. UNCHANGED <<svMain, svExit, svSignal, svNode>>
  BY DEF svProcess
<1>4. ASSUME NEW x \in SvRequests
      PROVE  (OpenIsSilent(svReq[x]) /\ AbandonedIsTold(svReq[x]) /\ OverIsAnswered(svReq[x]) /\ UpIsWhole(svReq[x]))'
  <2>1. CASE x = r
    BY <2>1, <1>1, <1>3 DEF OpenIsSilent, AbandonedIsTold, OverIsAnswered, UpIsWhole
  <2>2. CASE x # r
    BY <2>2, <1>2, <1>3 DEF ServingInv, OpenIsSilent, AbandonedIsTold, OverIsAnswered, UpIsWhole
  <2> QED BY <2>1, <2>2
<1> QED BY <1>1, <1>3, <1>4 DEF ServingInv, ServingTypeOK

\* A request is accepted.
LEMMA AcceptKeeps ==
  ASSUME ServingInv, NEW r \in SvRequests, NEW kind \in RequestKinds, AcceptRequest(r, kind)
  PROVE  ServingInv'
<1> DEFINE q == [NoRequest EXCEPT !.kind = kind, !.run = "running", !.open = TRUE,
                              !.ctx = IF kind = "node" /\ svSignal THEN "canceled" ELSE "live"]
<1>1. Set(r, q) /\ UNCHANGED svProcess /\ svMain # "gone"
  BY DEF AcceptRequest, ServerUp
<1>2. /\ q.kind = kind /\ q.run = "running" /\ q.open /\ q.said = {}
      /\ q.ctx = IF kind = "node" /\ svSignal THEN "canceled" ELSE "live"
  BY DEF NoRequest
<1>3. q \in Requests
  BY DEF NoRequest, Requests, RequestKinds
<1>4. OpenIsSilent(q) /\ AbandonedIsTold(q) /\ OverIsAnswered(q)
  BY <1>2 DEF OpenIsSilent, AbandonedIsTold, OverIsAnswered, RequestKinds
<1>5. UpIsWhole(q)
  BY <1>1, <1>2 DEF UpIsWhole, ServingInv
<1> HIDE DEF q
<1> QED BY <1>1, <1>3, <1>4, <1>5, OneRequestChanges

\* The handler returns or panics, the deadline passes, the client leaves, or the
\* middleware answers.
LEMMA RequestKeeps ==
  ASSUME ServingInv, NEW r \in SvRequests,
         \/ HandlerReturns(r) \/ RequestExpires(r) \/ ClientLeaves(r) \/ FlushBuffer(r) \/ StopWaiting(r)
         \/ HandlerPanics(r) /\ svReq[r].kind # "api"
  PROVE  ServingInv'
<1>r. /\ svReq[r] \in Requests /\ svMain # "gone" /\ svExit = "none"
      /\ OpenIsSilent(svReq[r]) /\ AbandonedIsTold(svReq[r]) /\ OverIsAnswered(svReq[r]) /\ UpIsWhole(svReq[r])
  BY DEF ServingInv, ServingTypeOK, ServerUp, HandlerReturns, RequestExpires, ClientLeaves, FlushBuffer,
         StopWaiting, HandlerPanics
<1>1. CASE HandlerReturns(r)
  <2> DEFINE q == IF svReq[r].kind = "api" THEN [svReq[r] EXCEPT !.run = "returned"]
            ELSE [svReq[r] EXCEPT !.run = "returned", !.said = @ \cup {"handler"}, !.open = FALSE]
  <2>1. Set(r, q) /\ UNCHANGED svProcess
    BY <1>1 DEF HandlerReturns
  <2>2. q \in Requests /\ OpenIsSilent(q) /\ AbandonedIsTold(q) /\ OverIsAnswered(q) /\ UpIsWhole(q)
    BY ZenonT(60), <1>1, <1>r DEF HandlerReturns, Requests, RequestKinds, ServerUp, Listens, NoRequest,
       OpenIsSilent, AbandonedIsTold, OverIsAnswered, UpIsWhole, ServingInv, ServingTypeOK
  <2> HIDE DEF q
  <2> QED BY <2>1, <2>2, OneRequestChanges
<1>2. CASE RequestExpires(r)
  <2> DEFINE q == [svReq[r] EXCEPT !.ctx = "deadline"]
  <2>1. Set(r, q) /\ UNCHANGED svProcess
    BY <1>2 DEF RequestExpires
  <2>2. q \in Requests /\ OpenIsSilent(q) /\ AbandonedIsTold(q) /\ OverIsAnswered(q) /\ UpIsWhole(q)
    BY <1>2, <1>r DEF RequestExpires, Requests, RequestKinds, ServerUp, Listens, NoRequest,
       OpenIsSilent, AbandonedIsTold, OverIsAnswered, UpIsWhole, ServingInv, ServingTypeOK
  <2> HIDE DEF q
  <2> QED BY <2>1, <2>2, OneRequestChanges
<1>3. CASE ClientLeaves(r)
  <2> DEFINE q == [svReq[r] EXCEPT !.gone = TRUE, !.ctx = IF @ = "live" THEN "canceled" ELSE @]
  <2>1. Set(r, q) /\ UNCHANGED svProcess
    BY <1>3 DEF ClientLeaves
  <2>2. q \in Requests /\ OpenIsSilent(q) /\ AbandonedIsTold(q) /\ OverIsAnswered(q) /\ UpIsWhole(q)
    BY ZenonT(60), <1>3, <1>r DEF ClientLeaves, Requests, RequestKinds, ServerUp, Listens, NoRequest,
       OpenIsSilent, AbandonedIsTold, OverIsAnswered, UpIsWhole, ServingInv, ServingTypeOK
  <2> HIDE DEF q
  <2> QED BY <2>1, <2>2, OneRequestChanges
<1>4. CASE FlushBuffer(r)
  <2> DEFINE q == [svReq[r] EXCEPT !.said = @ \cup {"handler"}, !.open = FALSE,
                             !.ctx = IF @ = "live" THEN "canceled" ELSE @]
  <2>1. Set(r, q) /\ UNCHANGED svProcess
    BY <1>4 DEF FlushBuffer
  <2>2. q \in Requests /\ OpenIsSilent(q) /\ AbandonedIsTold(q) /\ OverIsAnswered(q) /\ UpIsWhole(q)
    BY <1>4, <1>r DEF FlushBuffer, Requests, RequestKinds, ServerUp, Listens, NoRequest,
       OpenIsSilent, AbandonedIsTold, OverIsAnswered, UpIsWhole, ServingInv, ServingTypeOK
  <2> HIDE DEF q
  <2> QED BY <2>1, <2>2, OneRequestChanges
<1>5. CASE StopWaiting(r)
  <2> DEFINE q == [svReq[r] EXCEPT !.said = IF svReq[r].ctx = "deadline" THEN @ \cup {"503"} ELSE @,
                             !.open = FALSE]
  <2>1. Set(r, q) /\ UNCHANGED svProcess
    BY <1>5 DEF StopWaiting
  <2>2. q \in Requests /\ OpenIsSilent(q) /\ AbandonedIsTold(q) /\ OverIsAnswered(q) /\ UpIsWhole(q)
    BY <1>5, <1>r DEF StopWaiting, Requests, RequestKinds, ServerUp, Listens, NoRequest,
       OpenIsSilent, AbandonedIsTold, OverIsAnswered, UpIsWhole, ServingInv, ServingTypeOK
  <2> HIDE DEF q
  <2> QED BY <2>1, <2>2, OneRequestChanges
<1>6. CASE HandlerPanics(r) /\ svReq[r].kind # "api"
  <2> DEFINE q == [svReq[r] EXCEPT !.run = "panicked", !.open = FALSE,
                              !.said = @ \cup {IF svReq[r].kind = "stream" THEN "500" ELSE "cut"}]
  <2>1. Set(r, q) /\ UNCHANGED svProcess
    BY <1>6 DEF HandlerPanics
  <2>2. q \in Requests /\ OpenIsSilent(q) /\ AbandonedIsTold(q) /\ OverIsAnswered(q) /\ UpIsWhole(q)
    BY <1>6, <1>r DEF HandlerPanics, Requests, RequestKinds, ServerUp, Listens, NoRequest,
       OpenIsSilent, AbandonedIsTold, OverIsAnswered, UpIsWhole, ServingInv, ServingTypeOK
  <2> HIDE DEF q
  <2> QED BY <2>1, <2>2, OneRequestChanges
<1> QED BY <1>1, <1>2, <1>3, <1>4, <1>5, <1>6

\* The process ends: what was open is cut and what ran is killed, and a clean end comes
\* only after Shutdown found no public request.
LEMMA ExitKeeps ==
  ASSUME ServingInv, svMain # "gone", NEW how \in {"panic", "failed", "clean"}, Exit(how),
         how = "clean" => svMain = "drain" /\ Quiescent
  PROVE  ServingInv'
<1> DEFINE cut(q) == [q EXCEPT !.run = IF @ = "running" THEN "killed" ELSE @,
                        !.said = IF q.open THEN @ \cup {"cut"} ELSE @,
                        !.open = FALSE]
<1>1. /\ svMain' = "gone" /\ svExit' = how /\ UNCHANGED <<svSignal, svNode>>
      /\ svReq' = [r \in SvRequests |-> cut(svReq[r])]
  BY DEF Exit
<1>2. ASSUME NEW r \in SvRequests
      PROVE  /\ svReq'[r] \in Requests
             /\ (OpenIsSilent(svReq[r]) /\ AbandonedIsTold(svReq[r]) /\ OverIsAnswered(svReq[r]) /\ UpIsWhole(svReq[r]))'
  <2> DEFINE q == svReq[r]
  <2>1. /\ q \in Requests
        /\ OpenIsSilent(q) /\ AbandonedIsTold(q) /\ OverIsAnswered(q) /\ UpIsWhole(q)
    BY DEF ServingInv, ServingTypeOK
  <2>2. svReq'[r] = cut(q)
    BY <1>1
  <2>3. cut(q) \in Requests
    BY <2>1 DEF Requests, RequestKinds
  <2>4. OpenIsSilent(cut(q)) /\ AbandonedIsTold(cut(q)) /\ OverIsAnswered(cut(q))
    BY <2>1 DEF Requests, RequestKinds, OpenIsSilent, AbandonedIsTold, OverIsAnswered
  <2>5. svSignal /\ q.kind = "node" => cut(q).ctx # "live"
    BY <2>1 DEF UpIsWhole, Requests
  <2>6. how = "clean" => /\ q.kind # "node" => "cut" \notin cut(q).said
                         /\ cut(q).run = "killed" => cut(q).ctx # "live"
    <3> SUFFICES ASSUME how = "clean" PROVE /\ q.kind # "node" => "cut" \notin cut(q).said
                                            /\ cut(q).run = "killed" => cut(q).ctx # "live"
      OBVIOUS
    <3>1. svSignal /\ (q.open => q.kind = "node")
      BY DEF Quiescent, ServingInv
    <3>2. q.kind # "node" => "cut" \notin cut(q).said
      BY <2>1, <3>1 DEF UpIsWhole, Requests
    <3>3. q.run = "running" => q.ctx # "live"
      BY <2>1, <3>1 DEF UpIsWhole, AbandonedIsTold
    <3>4. cut(q).run = "killed" => q.run = "running"
      BY <2>1 DEF UpIsWhole, Requests
    <3> QED BY <2>1, <3>2, <3>3, <3>4 DEF Requests
  <2>7. UpIsWhole(svReq[r])'
    BY <1>1, <2>1, <2>2, <2>5, <2>6 DEF UpIsWhole, Requests
  <2> QED BY <2>2, <2>3, <2>4, <2>7 DEF OpenIsSilent, AbandonedIsTold, OverIsAnswered
<1> HIDE DEF cut
<1>3. ServingTypeOK'
  BY <1>1, <1>2 DEF ServingInv, ServingTypeOK
<1> QED BY <1>1, <1>2, <1>3 DEF ServingInv

\* The signal cancels the contexts of the node listener's requests.
LEMMA SignalKeeps ==
  ASSUME ServingInv, SignalArrives
  PROVE  ServingInv'
<1> DEFINE told(q) == [q EXCEPT !.ctx = IF q.kind = "node" /\ @ = "live" THEN "canceled" ELSE @]
<1>1. /\ svReq' = [r \in SvRequests |-> told(svReq[r])] /\ svSignal' = TRUE
      /\ UNCHANGED <<svMain, svExit, svNode>> /\ svMain # "gone" /\ svExit = "none"
  BY DEF SignalArrives, ServerUp, ServingInv
<1>2. ASSUME NEW r \in SvRequests
      PROVE  /\ svReq'[r] \in Requests
             /\ (OpenIsSilent(svReq[r]) /\ AbandonedIsTold(svReq[r]) /\ OverIsAnswered(svReq[r]) /\ UpIsWhole(svReq[r]))'
  <2>1. /\ svReq[r] \in Requests
        /\ OpenIsSilent(svReq[r]) /\ AbandonedIsTold(svReq[r]) /\ OverIsAnswered(svReq[r]) /\ UpIsWhole(svReq[r])
    BY DEF ServingInv, ServingTypeOK
  <2>2. svReq'[r] = told(svReq[r])
    BY <1>1
  <2>3. told(svReq[r]) \in Requests
    BY <2>1 DEF Requests, RequestKinds
  <2>4. /\ OpenIsSilent(told(svReq[r])) /\ AbandonedIsTold(told(svReq[r])) /\ OverIsAnswered(told(svReq[r]))
        /\ svReq[r].kind = "node" => told(svReq[r]).ctx # "live"
    BY <2>1 DEF Requests, RequestKinds, OpenIsSilent, AbandonedIsTold, OverIsAnswered
  <2>5. UpIsWhole(svReq[r])'
    BY <1>1, <2>1, <2>2, <2>4 DEF UpIsWhole, Requests
  <2> QED BY <2>2, <2>3, <2>4, <2>5 DEF OpenIsSilent, AbandonedIsTold, OverIsAnswered
<1> HIDE DEF told
<1>3. ServingTypeOK'
  BY <1>1, <1>2 DEF ServingInv, ServingTypeOK
<1> QED BY <1>1, <1>2, <1>3 DEF ServingInv

\* The node listener ends, or main takes the signal: no request changes.
LEMMA ListenersKeep ==
  ASSUME ServingInv, NodeDrains \/ NodeReturns \/ DrainStarts
  PROVE  ServingInv'
<1>1. UNCHANGED <<svReq, svExit, svSignal>> /\ ServingTypeOK'
  BY DEF NodeDrains, NodeReturns, DrainStarts, ServingInv, ServingTypeOK
<1>2. svMain # "gone" <=> svMain' # "gone"
  BY DEF NodeDrains, NodeReturns, DrainStarts
<1>3. svMain' = "drain" => svSignal
  BY DEF NodeDrains, NodeReturns, DrainStarts, ServingInv
<1> QED BY <1>1, <1>2, <1>3 DEF ServingInv, OpenIsSilent, AbandonedIsTold, OverIsAnswered, UpIsWhole

\* Every step keeps the invariant.
LEMMA ServingStep == ServingInv /\ [ServingNext]_servingVars => ServingInv'
<1> SUFFICES ASSUME ServingInv, [ServingNext]_servingVars PROVE ServingInv'
  OBVIOUS
<1>1. ASSUME NEW r \in SvRequests, NEW kind \in RequestKinds, AcceptRequest(r, kind) PROVE ServingInv'
  BY <1>1, AcceptKeeps
<1>2. ASSUME NEW r \in SvRequests,
             HandlerReturns(r) \/ RequestExpires(r) \/ ClientLeaves(r) \/ FlushBuffer(r) \/ StopWaiting(r)
      PROVE  ServingInv'
  BY <1>2, RequestKeeps
<1>3. ASSUME NEW r \in SvRequests, HandlerPanics(r) PROVE ServingInv'
  <2>1. CASE svReq[r].kind = "api"
    <3>1. Exit("panic") /\ svMain # "gone"
      BY <1>3, <2>1 DEF HandlerPanics, ServerUp
    <3> QED BY <3>1, ExitKeeps
  <2>2. CASE svReq[r].kind # "api"
    BY <1>3, <2>2, RequestKeeps
  <2> QED BY <2>1, <2>2
<1>4. CASE SignalArrives
  BY <1>4, SignalKeeps
<1>5. CASE NodeDrains \/ NodeReturns \/ DrainStarts
  BY <1>5, ListenersKeep
<1>6. CASE NodeListenerEnds \/ HTTPServerFails \/ ShutdownTimesOut
  <2>1. Exit("failed") /\ svMain # "gone"
    BY <1>6 DEF NodeListenerEnds, HTTPServerFails, ShutdownTimesOut
  <2> QED BY <2>1, ExitKeeps
<1>7. CASE ShutdownComplete
  <2>1. Exit("clean") /\ svMain = "drain" /\ Quiescent
    BY <1>7 DEF ShutdownComplete
  <2> QED BY <2>1, ExitKeeps
<1>8. CASE UNCHANGED servingVars
  BY <1>8 DEF servingVars, ServingInv, ServingTypeOK, OpenIsSilent, AbandonedIsTold, OverIsAnswered, UpIsWhole
<1> QED BY <1>1, <1>2, <1>3, <1>4, <1>5, <1>6, <1>7, <1>8 DEF ServingNext

LEMMA ServingInvariant == ServingSpec => []ServingInv
BY ServingStarts, ServingStep, PTL DEF ServingSpec

\* What a client is told is true, whatever is running when the process ends
\* (server.go:298-332, main.go:274-284).
THEOREM AnswersCorrect == ServingSpec => []AnswersAreWhole
<1>1. ServingInv => AnswersAreWhole
  BY DEF ServingInv, AnswersAreWhole, OverIsAnswered, UpIsWhole
<1> QED BY <1>1, ServingInvariant, PTL

-----------------------------------------------------------------------------
(***************************************************************************)
(* Events: NoSilentGap for any number of clients, events and connections   *)
(* and any size of the channel and of the log. The hole is made when an    *)
(* event finds the channel full, and noticed later: the invariant relates  *)
(* the end of the channel to the newest event (UpTo) and says that each    *)
(* hole lies behind a mark (Waiting).                                      *)
(***************************************************************************)

Subscriptions ==
  [at : {"none", "new", "run", "wrote"}, buf : Seq(Nat), lagged : BOOLEAN, since : Nat, got : Seq(Nat), told : Nat]

EventTypeOK ==
  /\ evNext \in Nat /\ evLog \in Seq(Nat) /\ evSub \in [EvClients -> Subscriptions]
  /\ evLast \in [EvClients -> Nat]

\* The log is the newest ids, without a hole.
LogIsTail ==
  /\ Len(evLog) <= evNext /\ (evNext > 0 => evLog # <<>>)
  /\ \A i \in 1 .. Len(evLog) : evLog[i] = evNext - Len(evLog) + i

\* Where the stream is, and where its channel ends.
Position(sub) == IF sub.got = <<>> THEN sub.since ELSE sub.got[Len(sub.got)]
EndOf(sub) == IF sub.buf = <<>> THEN Position(sub) ELSE sub.buf[Len(sub.buf)]

\* b may come after a: from the start, next in line, or over a gap that is known.
Follows(a, b, known) == a = 0 \/ b = a + 1 \/ (b > a /\ known)

\* The client knows of a gap, or will before the next event.
Warned(sub) == sub.lagged /\ (sub.at = "run" => sub.told <= Len(sub.got))

\* What was written, what waits in the channel, and where that ends.
Written(sub) ==
  \A i \in 1 .. Len(sub.got) :
    Follows(IF i = 1 THEN sub.since ELSE sub.got[i - 1], sub.got[i], sub.told < i)

Waiting(sub) ==
  /\ Len(sub.buf) <= EvBuffer /\ \A i \in 1 .. Len(sub.buf) : sub.buf[i] > 0
  /\ sub.buf # <<>> => Follows(Position(sub), sub.buf[1], Warned(sub))
  /\ \A i \in 1 .. Len(sub.buf) - 1 : Follows(sub.buf[i], sub.buf[i + 1], sub.lagged)

UpTo(sub, next) ==
  /\ EndOf(sub) <= next /\ \A i \in 1 .. Len(sub.buf) : sub.buf[i] <= next
  /\ EndOf(sub) = 0 \/ EndOf(sub) = next \/ (sub.lagged /\ (sub.buf = <<>> => Warned(sub)))

\* The id that the client would resume from.
Resumes(sub, last) ==
  /\ sub.at = "new" => sub.got = <<>> /\ last = sub.since
  /\ sub.at = "wrote" => sub.got # <<>>
  /\ IF sub.got = <<>> THEN last \in {0, sub.since} ELSE last = sub.got[Len(sub.got)]

StreamSound(sub, next, last) == Written(sub) /\ Waiting(sub) /\ UpTo(sub, next) /\ Resumes(sub, last)

StreamsSound == \A k \in EvClients : evLast[k] <= evNext /\ (k \in Live => StreamSound(evSub[k], evNext, evLast[k]))

EventInv == EventTypeOK /\ LogIsTail /\ StreamsSound
\* A sequence of ids and its length.
LEMMA NatSeq ==
  ASSUME NEW s \in Seq(Nat)
  PROVE  /\ Len(s) \in Nat /\ (s = <<>> <=> Len(s) = 0) /\ \A i \in 1 .. Len(s) : s[i] \in Nat
<1>1. Len(s) \in Nat /\ \A i \in 1 .. Len(s) : s[i] \in Nat
  BY LenProperties
<1>2. s = <<>> => Len(s) = 0
  BY EmptySeq
<1>3. s # <<>> => Len(s) # 0
  BY EmptySeq
<1>. QED
  BY <1>1, <1>2, <1>3

LEMMA AppendNat ==
  ASSUME NEW s \in Seq(Nat), NEW x \in Nat
  PROVE  /\ Append(s, x) \in Seq(Nat) /\ Append(s, x) # <<>> /\ Len(Append(s, x)) = Len(s) + 1
         /\ (\A i \in 1 .. Len(s) : Append(s, x)[i] = s[i]) /\ Append(s, x)[Len(s) + 1] = x
BY AppendProperties

LEMMA EventStarts == EventInit => EventInv
<1> USE EventAssumption
<1> SUFFICES ASSUME EventInit PROVE EventInv
  OBVIOUS
<1>1. NoSub \in Subscriptions
  BY EmptySeq DEF NoSub, Subscriptions
<1>2. EventTypeOK /\ LogIsTail
  BY <1>1, EmptySeq DEF EventInit, EventTypeOK, LogIsTail
<1>3. StreamsSound
  BY DEF EventInit, StreamsSound, Live, NoSub
<1>. QED
  BY <1>2, <1>3 DEF EventInv

\* A publisher's push into one channel.
LEMMA PushKeeps ==
  ASSUME NEW sub \in Subscriptions, NEW next \in Nat, NEW last \in Nat, StreamSound(sub, next, last)
  PROVE  Push(sub, next + 1) \in Subscriptions /\ StreamSound(Push(sub, next + 1), next + 1, last)
<1> DEFINE new == Push(sub, next + 1)
<1>0. sub.buf \in Seq(Nat) /\ sub.got \in Seq(Nat) /\ sub.told \in Nat /\ sub.since \in Nat /\ sub.lagged \in BOOLEAN
      /\ Len(sub.buf) \in Nat /\ Len(sub.got) \in Nat
  BY LenProperties DEF Subscriptions
<1>p. Position(sub) \in Nat
  BY <1>0 DEF Position
<1>e. sub.buf # <<>> => Len(sub.buf) \in 1 .. Len(sub.buf) /\ sub.buf[Len(sub.buf)] \in Nat
  BY <1>0, EmptySeq, ElementOfSeq
<1>1. CASE Len(sub.buf) < EvBuffer
  <2>1. new = [sub EXCEPT !.buf = Append(sub.buf, next + 1)]
    BY <1>1 DEF Push
  <2>2. new \in Subscriptions
    <3>1. next + 1 \in Nat
      OBVIOUS
    <3>2. Append(sub.buf, next + 1) \in Seq(Nat)
      BY <3>1, <1>0, AppendProperties
    <3>. QED
      BY <3>2, <2>1 DEF Subscriptions
  <2>3. /\ new.at = sub.at /\ new.lagged = sub.lagged /\ new.since = sub.since /\ new.got = sub.got /\ new.told = sub.told
        /\ new.buf = Append(sub.buf, next + 1)
    BY <2>1 DEF Subscriptions
  <2> DEFINE b == Append(sub.buf, next + 1)
  <2>4. b # <<>> /\ Len(b) = Len(sub.buf) + 1 /\ (\A i \in 1 .. Len(sub.buf) : b[i] = sub.buf[i]) /\ b[Len(sub.buf) + 1] = next + 1
    <3>1. next + 1 \in Nat
      OBVIOUS
    <3>. QED
      BY SMTT(40), <3>1, <1>0, AppendProperties
  <2> HIDE DEF b, new
  <2>a. new.buf = b
    BY <2>3 DEF b
  <2>5. Position(new) = Position(sub) /\ Warned(new) = Warned(sub) /\ EndOf(new) = next + 1
    BY <2>3, <2>4, <2>a, <1>0 DEF Position, Warned, EndOf
  <2>6. Follows(EndOf(sub), next + 1, IF sub.buf = <<>> THEN Warned(sub) ELSE sub.lagged)
    BY <1>0, <1>p, <1>e DEF StreamSound, UpTo, Follows, EndOf
  <2>7. Waiting(new)
    <3>1. Len(b) <= EvBuffer /\ \A i \in 1 .. Len(b) : b[i] > 0
      <4>1. \A i \in 1 .. Len(sub.buf) : sub.buf[i] > 0
        BY DEF StreamSound, Waiting
      <4>. QED
        <5>1. Len(b) <= EvBuffer
          BY <2>4, <1>0, <1>1, EventAssumption
        <5>2. ASSUME NEW i \in 1 .. Len(b) PROVE b[i] > 0
          <6>1. CASE i \in 1 .. Len(sub.buf)
            BY <6>1, <4>1, <2>4
          <6>2. CASE i = Len(sub.buf) + 1
            BY <6>2, <2>4
          <6>. QED
            BY <6>1, <6>2, <2>4, <1>0
        <5>. QED
          BY <5>1, <5>2
    <3>2. Follows(Position(sub), b[1], Warned(sub))
      <4>1. CASE sub.buf = <<>>
        BY <4>1, <2>4, <2>6, EmptySeq DEF EndOf
      <4>2. CASE sub.buf # <<>>
        BY <4>2, <2>4, <1>e, <1>0 DEF StreamSound, Waiting
      <4>. QED
        BY <4>1, <4>2
    <3>3. \A i \in 1 .. Len(b) - 1 : Follows(b[i], b[i + 1], sub.lagged)
      <4> SUFFICES ASSUME NEW i \in 1 .. Len(b) - 1 PROVE Follows(b[i], b[i + 1], sub.lagged)
        OBVIOUS
      <4>1. CASE i < Len(sub.buf)
        <5>0. PICK n \in Nat : n = Len(sub.buf) /\ Len(b) = n + 1
          BY <2>4, <1>0
        <5>2. i \in 1 .. n - 1 /\ i \in 1 .. n /\ i + 1 \in 1 .. n
          BY <4>1, <5>0
        <5>1. i \in 1 .. Len(sub.buf) - 1 /\ b[i] = sub.buf[i] /\ b[i + 1] = sub.buf[i + 1]
          BY <5>2, <5>0, <2>4
        <5>. QED
          BY <5>1 DEF StreamSound, Waiting
      <4>2. CASE i = Len(sub.buf)
        <5>0. sub.buf # <<>>
          BY <4>2, EmptySeq
        <5>1. b[i] = EndOf(sub) /\ b[i + 1] = next + 1
          <6>1. i \in 1 .. Len(sub.buf)
            BY <4>2, <5>0, <1>e
          <6>2. b[i] = sub.buf[i]
            BY <6>1, <2>4
          <6>. QED
            BY <6>2, <4>2, <5>0, <2>4 DEF EndOf
        <5>. QED
          BY <5>0, <5>1, <2>6
      <4>. QED
        BY <4>1, <4>2, <2>4, <1>0
    <3>. QED
      BY <3>1, <3>2, <3>3, <2>3, <2>5, <2>a DEF Waiting
  <2>8. UpTo(new, next + 1)
    <3>1. \A i \in 1 .. Len(b) : b[i] <= next + 1
      <4> SUFFICES ASSUME NEW i \in 1 .. Len(b) PROVE b[i] <= next + 1
        OBVIOUS
      <4>1. CASE i = Len(sub.buf) + 1
        BY <4>1, <2>4
      <4>2. CASE i \in 1 .. Len(sub.buf)
        <5>1. sub.buf[i] \in Nat /\ sub.buf[i] <= next
          BY <4>2, <1>0, ElementOfSeq DEF StreamSound, UpTo
        <5>. QED
          BY <5>1, <4>2, <2>4
      <4>. QED
        BY <4>1, <4>2, <2>4, <1>0
    <3>. QED
      BY <3>1, <2>5, <2>a DEF UpTo
  <2>9. Written(new) /\ Resumes(new, last)
    BY <2>3 DEF StreamSound, Written, Resumes
  <2>. QED
    BY <2>2, <2>7, <2>8, <2>9 DEF StreamSound, new
<1>2. CASE ~(Len(sub.buf) < EvBuffer)
  <2>1. new = [sub EXCEPT !.lagged = TRUE]
    BY <1>2 DEF Push
  <2>2. new \in Subscriptions
    BY <2>1 DEF Subscriptions
  <2>3. /\ new.at = sub.at /\ new.lagged = TRUE /\ new.since = sub.since /\ new.got = sub.got /\ new.told = sub.told
        /\ new.buf = sub.buf
    BY <2>1 DEF Subscriptions
  <2>4. sub.buf # <<>>
    BY <1>2, EmptySeq, EventAssumption
  <2> HIDE DEF new
  <2>5. Position(new) = Position(sub) /\ EndOf(new) = EndOf(sub) /\ (Warned(sub) => Warned(new))
    BY <2>3 DEF Position, Warned, EndOf
  <2>6. Waiting(new)
    <3>1. Follows(Position(new), new.buf[1], Warned(new))
      BY <2>3, <2>4, <2>5 DEF StreamSound, Waiting, Follows
    <3>2. \A i \in 1 .. Len(new.buf) - 1 : Follows(new.buf[i], new.buf[i + 1], new.lagged)
      BY <2>3 DEF StreamSound, Waiting, Follows
    <3>. QED
      BY <3>1, <3>2, <2>3 DEF StreamSound, Waiting
  <2>7. UpTo(new, next + 1)
    <3>1. \A i \in 1 .. Len(new.buf) : new.buf[i] <= next + 1
      BY <2>3, <1>0, ElementOfSeq DEF StreamSound, UpTo
    <3>2. EndOf(sub) \in Nat
      BY <1>e, <1>p DEF EndOf
    <3>. QED
      BY <3>1, <3>2, <2>3, <2>4, <2>5 DEF StreamSound, UpTo
  <2>8. Written(new) /\ Resumes(new, last)
    BY <2>3 DEF StreamSound, Written, Resumes
  <2>. QED
    BY <2>2, <2>6, <2>7, <2>8 DEF StreamSound, new
<1>. QED
  BY <1>1, <1>2
\* The log after an event.
LEMMA RememberKeeps ==
  ASSUME NEW log \in Seq(Nat), NEW id \in Nat, Len(log) < id, \A i \in 1 .. Len(log) : log[i] = id - 1 - Len(log) + i
  PROVE  LET new == Remember(log, id)
         IN /\ new \in Seq(Nat) /\ Len(new) <= id /\ new # <<>>
            /\ \A i \in 1 .. Len(new) : new[i] = id - Len(new) + i
<1> DEFINE all == Append(log, id)
<1>0. Len(log) \in Nat
  BY LenProperties
<1>1. all \in Seq(Nat) /\ all # <<>> /\ Len(all) = Len(log) + 1 /\ (\A i \in 1 .. Len(log) : all[i] = log[i])
      /\ all[Len(log) + 1] = id
  BY AppendProperties
<1>t. Remember(log, id) = IF Len(all) > EvReplay THEN Tail(all) ELSE all
  BY DEF Remember
<1> HIDE DEF all
<1>2. ASSUME NEW i \in 1 .. Len(all) PROVE all[i] = id - Len(all) + i
  <2>1. CASE i \in 1 .. Len(log)
    BY <2>1, <1>0, <1>1
  <2>2. CASE i = Len(log) + 1
    BY <2>2, <1>0, <1>1
  <2>. QED
    BY <2>1, <2>2, <1>0, <1>1
<1>3. Tail(all) \in Seq(Nat) /\ Len(Tail(all)) = Len(all) - 1 /\ \A i \in 1 .. Len(Tail(all)) : Tail(all)[i] = all[i + 1]
  BY <1>1, HeadTailProperties
<1> DEFINE rest == Tail(all)
<1> HIDE DEF rest
<1>r. rest \in Seq(Nat) /\ Len(rest) = Len(log) /\ \A i \in 1 .. Len(rest) : rest[i] = all[i + 1]
  BY <1>0, <1>1, <1>3 DEF rest
<1>4. ASSUME NEW i \in 1 .. Len(rest) PROVE rest[i] = id - Len(rest) + i
  <2>1. i + 1 \in 1 .. Len(all) /\ rest[i] = all[i + 1]
    BY <1>0, <1>1, <1>r
  <2>2. all[i + 1] = id - Len(all) + (i + 1)
    BY <2>1, <1>2
  <2>. QED
    BY <2>1, <2>2, <1>0, <1>1, <1>r
<1>5. Len(all) > EvReplay => rest # <<>>
  BY <1>0, <1>1, <1>r, EmptySeq, EventAssumption
<1>6. CASE Len(all) > EvReplay
  <2>1. Remember(log, id) = rest
    BY <1>6, <1>t DEF rest
  <2>. QED
    BY <2>1, <1>0, <1>r, <1>4, <1>5, <1>6
<1>7. CASE ~(Len(all) > EvReplay)
  <2>1. Remember(log, id) = all
    BY <1>7, <1>t
  <2>. QED
    BY <2>1, <1>0, <1>1, <1>2
<1>. QED
  BY <1>6, <1>7

LEMMA PublishKeeps == ASSUME EventInv, PublishEvent PROVE EventInv'
<1>1. evNext \in Nat /\ evNext' = evNext + 1 /\ evLast' = evLast /\ evLog' = Remember(evLog, evNext + 1)
  BY DEF PublishEvent, EventInv, EventTypeOK
<1>2. evLog' \in Seq(Nat) /\ LogIsTail'
  <2>1. evNext' \in Nat /\ evLog \in Seq(Nat) /\ Len(evLog) \in Nat /\ Len(evLog) < evNext'
        /\ \A i \in 1 .. Len(evLog) : evLog[i] = evNext' - 1 - Len(evLog) + i
    BY <1>1, LenProperties DEF EventInv, EventTypeOK, LogIsTail
  <2>2. evLog' = Remember(evLog, evNext')
    BY <1>1
  <2>. QED
    BY <2>1, <2>2, RememberKeeps DEF LogIsTail
<1>3. ASSUME NEW k \in EvClients
      PROVE  /\ evSub'[k] \in Subscriptions /\ evLast'[k] \in Nat /\ evLast'[k] <= evNext'
             /\ evSub'[k].at # "none" => StreamSound(evSub'[k], evNext', evLast'[k])
  <2>1. evSub[k] \in Subscriptions /\ evLast[k] \in Nat /\ evLast[k] <= evNext
    BY DEF EventInv, EventTypeOK, StreamsSound
  <2>2. CASE k \in Live
    <3>1. evSub'[k] = Push(evSub[k], evNext + 1)
      BY <2>2 DEF PublishEvent
    <3>2. StreamSound(evSub[k], evNext, evLast[k])
      BY <2>2 DEF EventInv, StreamsSound
    <3>3. evSub'[k] \in Subscriptions /\ StreamSound(evSub'[k], evNext + 1, evLast[k])
      BY <3>1, <3>2, <2>1, <1>1, PushKeeps
    <3>. QED
      BY <3>3, <2>1, <1>1
  <2>3. CASE k \notin Live
    <3>1. evSub'[k] = evSub[k]
      BY <2>3 DEF PublishEvent
    <3>. QED
      BY <3>1, <2>1, <2>3, <1>1 DEF Live
  <2>. QED
    BY <2>2, <2>3
<1>4. evSub' = [k \in EvClients |-> evSub'[k]] /\ evLast' = [k \in EvClients |-> evLast'[k]]
  BY <1>1 DEF PublishEvent, EventInv, EventTypeOK
<1>5. EventTypeOK'
  BY <1>1, <1>2, <1>3, <1>4 DEF EventTypeOK
<1>6. StreamsSound'
  BY <1>3 DEF StreamsSound, Live
<1>. QED
  BY <1>2, <1>5, <1>6 DEF EventInv

\* What the log has after an id: an end of it, which begins with the next id unless the
\* log begins later.
LEMMA MissedIsEnd ==
  ASSUME EventInv, NEW since \in Nat, since > 0, since <= evNext
  PROVE  LET missed == Missed(since)
         IN /\ missed \in Seq(Nat) /\ Len(missed) \in Nat
            /\ \A i \in 1 .. Len(missed) : missed[i] = evNext - Len(missed) + i /\ missed[i] > 0
            /\ missed # <<>> => missed[1] = since + 1 \/ (missed[1] > since + 1 /\ Misses(since))
            /\ missed = <<>> => since = evNext
<1> DEFINE n == Len(evLog)
           start == evNext - n
           IsSeen(c) == \A i \in 1 .. n : evLog[i] <= since <=> i <= c
           seen == CHOOSE c \in 0 .. n : IsSeen(c)
           missed == SubSeq(evLog, seen + 1, n)
<1>1. /\ evLog \in Seq(Nat) /\ evNext \in Nat /\ n \in Nat /\ start \in Nat
      /\ (\A i \in 1 .. n : evLog[i] = start + i) /\ (evNext > 0 => evLog # <<>>)
  BY LenProperties DEF EventInv, EventTypeOK, LogIsTail
<1>2. evLog # <<>> /\ n >= 1 /\ Head(evLog) = evLog[1]
  <2>1. evLog # <<>>
    BY <1>1
  <2>. QED
    BY <2>1, <1>1, EmptySeq
<1>3. Misses(since) <=> since + 1 < start + 1
  BY <1>1, <1>2 DEF Misses
<1>m. Missed(since) = missed
  BY DEF Missed
<1> HIDE DEF n, start
<1>4. \E c \in 0 .. n : IsSeen(c)
  <2>1. CASE since < start
    <3>1. IsSeen(0)
      BY <2>1, <1>1
    <3> HIDE DEF IsSeen
    <3>. QED
      BY <3>1, <1>1
  <2>2. CASE since >= start /\ since - start <= n
    <3>1. IsSeen(since - start)
      BY <2>2, <1>1
    <3>2. since - start \in 0 .. n
      BY <2>2, <1>1
    <3> HIDE DEF IsSeen
    <3>. QED
      BY <3>1, <3>2
  <2>3. CASE since - start > n
    BY <2>3, <1>1 DEF start
  <2>. QED
    BY <2>1, <2>2, <2>3, <1>1
<1>5. seen \in 0 .. n /\ IsSeen(seen)
  BY <1>4
<1> HIDE DEF seen
<1>6. missed \in Seq(Nat) /\ Len(missed) = n - seen /\ \A i \in 1 .. n - seen : missed[i] = evLog[seen + i]
  <2>1. seen + 1 \in Int /\ n \in Int
    BY <1>5, <1>1
  <2>2. \A i \in seen + 1 .. n : evLog[i] \in Nat
    BY <1>1, <1>5
  <2>3. /\ missed \in Seq(Nat) /\ Len(missed) = IF seen + 1 <= n THEN n - (seen + 1) + 1 ELSE 0
        /\ \A i \in 1 .. n - (seen + 1) + 1 : missed[i] = evLog[seen + 1 + i - 1]
    BY <2>1, <2>2, SubSeqProperties
  <2> HIDE DEF missed
  <2>. QED
    BY <2>3, <1>5, <1>1
<1> HIDE DEF missed
<1>7. evNext = start + n
  BY <1>1 DEF start
<1>8. ASSUME NEW i \in 1 .. Len(missed) PROVE missed[i] = evNext - Len(missed) + i /\ missed[i] > 0
  <2>1. i \in 1 .. n - seen /\ seen + i \in 1 .. n
    BY <1>1, <1>5, <1>6
  <2>2. missed[i] = start + (seen + i)
    BY <2>1, <1>1, <1>6
  <2>. QED
    BY <2>1, <2>2, <1>1, <1>5, <1>6, <1>7
<1>9. missed # <<>> => missed[1] = since + 1 \/ (missed[1] > since + 1 /\ Misses(since))
  <2> SUFFICES ASSUME missed # <<>> PROVE missed[1] = since + 1 \/ (missed[1] > since + 1 /\ Misses(since))
    OBVIOUS
  <2>1. seen < n
    BY <1>5, <1>6, <1>1, EmptySeq
  <2>2. missed[1] = start + seen + 1
    BY <2>1, <1>6, <1>5, <1>1
  <2>3. evLog[seen + 1] = start + seen + 1 /\ ~(evLog[seen + 1] <= since)
    BY <2>1, <1>5, <1>1
  <2>4. CASE seen = 0
    BY <2>2, <2>3, <2>4, <1>3, <1>1
  <2>5. CASE seen > 0
    <3>1. evLog[seen] = start + seen /\ evLog[seen] <= since
      BY <2>5, <1>5, <1>1
    <3>. QED
      BY <3>1, <2>2, <2>3, <1>5, <1>1
  <2>. QED
    BY <2>4, <2>5, <1>5
<1>10. missed = <<>> => since = evNext
  <2> SUFFICES ASSUME missed = <<>> PROVE since = evNext
    OBVIOUS
  <2>1. seen = n
    BY <1>6, <1>5, <1>1, EmptySeq
  <2>2. evLog[n] = start + n /\ evLog[n] <= since
    BY <2>1, <1>5, <1>2, <1>1
  <2>. QED
    BY <2>2, <1>7, <1>1
<1>. QED
  BY <1>m, <1>1, <1>5, <1>6, <1>8, <1>9, <1>10
LEMMA SubscribeKeeps == ASSUME EventInv, NEW k \in EvClients, Subscribe(k) PROVE EventInv'
<1> PICK since \in Nat : since = evLast[k]
  BY DEF EventInv, EventTypeOK
<1> DEFINE blank == [NoSub EXCEPT !.at = "new", !.since = since]
           new == CaughtUp(blank, since)
<1>1. /\ evNext' = evNext /\ evLog' = evLog /\ evLast' = evLast /\ evNext \in Nat /\ since <= evNext
      /\ evSub' = [evSub EXCEPT ![k] = new]
  BY DEF Subscribe, EventInv, EventTypeOK, StreamsSound
<1>b. /\ NoSub \in Subscriptions /\ NoSub.buf = <<>> /\ NoSub.lagged = FALSE /\ NoSub.got = <<>>
  BY EmptySeq, EventAssumption DEF NoSub, Subscriptions
<1>3. blank \in Subscriptions
  BY <1>b DEF Subscriptions
<1>2. blank.at = "new" /\ blank.buf = <<>> /\ blank.lagged = FALSE /\ blank.since = since /\ blank.got = <<>>
  BY <1>b DEF Subscriptions
<1> HIDE DEF blank
<1>4. new \in Subscriptions /\ StreamSound(new, evNext, since)
  <2>1. CASE since = 0
    <3>1. new = blank
      BY <2>1 DEF CaughtUp
    <3>. QED
      BY <3>1, <2>1, <1>1, <1>2, <1>3, EmptySeq, EventAssumption
      DEF StreamSound, Written, Waiting, UpTo, Resumes, EndOf, Position
  <2>2. CASE since > 0
    <3>m. PICK m : m = Missed(since)
      OBVIOUS
    <3>1. /\ m \in Seq(Nat) /\ Len(m) \in Nat
          /\ \A i \in 1 .. Len(m) : m[i] = evNext - Len(m) + i /\ m[i] > 0
          /\ m # <<>> => m[1] = since + 1 \/ (m[1] > since + 1 /\ Misses(since))
          /\ m = <<>> => since = evNext
      BY <1>1, <2>2, <3>m, MissedIsEnd
    <3>b. PICK b : b = IF Len(m) > EvBuffer THEN SubSeq(m, 1, EvBuffer) ELSE m
      OBVIOUS
    <3>g. PICK lag \in BOOLEAN : lag = (Misses(since) \/ Len(m) > EvBuffer)
      OBVIOUS
    <3>2. /\ b \in Seq(Nat) /\ Len(b) = (IF Len(m) > EvBuffer THEN EvBuffer ELSE Len(m))
          /\ \A i \in 1 .. Len(b) : b[i] = m[i]
      <4>1. CASE Len(m) > EvBuffer
        <5>1. 1 \in Int /\ EvBuffer \in Int /\ \A i \in 1 .. EvBuffer : m[i] \in Nat
          BY <4>1, <3>1, EventAssumption, ElementOfSeq
        <5>2. /\ SubSeq(m, 1, EvBuffer) \in Seq(Nat) /\ Len(SubSeq(m, 1, EvBuffer)) = IF 1 <= EvBuffer THEN EvBuffer - 1 + 1 ELSE 0
              /\ \A i \in 1 .. EvBuffer - 1 + 1 : SubSeq(m, 1, EvBuffer)[i] = m[1 + i - 1]
          BY <5>1, SubSeqProperties
        <5>. QED
          BY <4>1, <5>2, <3>b, EventAssumption
      <4>2. CASE ~(Len(m) > EvBuffer)
        BY <4>2, <3>1, <3>b
      <4>. QED
        BY <4>1, <4>2
    <3>3. new = [blank EXCEPT !.buf = b, !.lagged = lag]
      BY <2>2, <3>m, <3>b, <3>g DEF CaughtUp
    <3>4. new \in Subscriptions
      BY <3>2, <3>3, <1>3 DEF Subscriptions
    <3>6. /\ new.at = "new" /\ new.buf = b /\ new.lagged = lag /\ new.since = since /\ new.got = <<>>
      BY <3>3, <1>2, <1>3 DEF Subscriptions
    <3> HIDE DEF new
    <3>7. Position(new) = since /\ (Warned(new) <=> lag) /\ EndOf(new) = IF b = <<>> THEN since ELSE b[Len(b)]
      BY <3>6 DEF Position, Warned, EndOf
    <3>l. Len(b) \in Nat /\ Len(b) <= Len(m) /\ Len(b) <= EvBuffer /\ (Len(b) = 0 => Len(m) = 0)
      BY <3>1, <3>2, EventAssumption
    <3>8. b = <<>> <=> m = <<>>
      BY <3>1, <3>2, <3>l, NatSeq
    <3>9. ASSUME NEW i \in 1 .. Len(b) PROVE b[i] = evNext - Len(m) + i /\ b[i] > 0 /\ b[i] <= evNext
      <4>1. i \in 1 .. Len(m)
        BY <3>1, <3>2, EventAssumption
      <4>. QED
        <5>1. b[i] = m[i] /\ m[i] = evNext - Len(m) + i /\ m[i] > 0
          BY <4>1, <3>1, <3>2
        <5>2. Len(m) \in Nat /\ i \in 1 .. Len(m) /\ evNext \in Nat
          BY <4>1, <3>1, <1>1
        <5>. QED
          BY <5>1, <5>2
    <3>10. b # <<>> => Len(b) \in Nat \ {0}
      BY <3>2, NatSeq
    <3>11. Waiting(new)
      <4>1. Len(b) <= EvBuffer
        BY <3>1, <3>2, EventAssumption
      <4>2. b # <<>> => b[1] = since + 1 \/ (b[1] > since + 1 /\ lag)
        <5> SUFFICES ASSUME b # <<>> PROVE b[1] = since + 1 \/ (b[1] > since + 1 /\ lag)
          OBVIOUS
        <5>1. b[1] = m[1]
          BY <3>2, <3>10
        <5>. QED
          BY <5>1, <3>1, <3>8, <3>g
      <4>3. b # <<>> => Follows(since, b[1], lag)
        <5> SUFFICES ASSUME b # <<>> PROVE Follows(since, b[1], lag)
          OBVIOUS
        <5>1. b[1] \in Nat
          BY <3>2, <3>10, ElementOfSeq
        <5>2. b[1] = since + 1 \/ (b[1] > since /\ lag)
          BY <5>1, <4>2
        <5>. QED
          BY <5>2 DEF Follows
      <4>4. ASSUME NEW i \in 1 .. Len(b) - 1 PROVE Follows(b[i], b[i + 1], lag)
        <5>1. i \in 1 .. Len(b) /\ i + 1 \in 1 .. Len(b)
          BY <3>1, <3>2, EventAssumption
        <5>2. b[i] = evNext - Len(m) + i /\ b[i + 1] = evNext - Len(m) + (i + 1)
          BY <5>1, <3>9
        <5>3. b[i + 1] = b[i] + 1
          BY <5>2, <3>1, <1>1
        <5>. QED
          BY <5>3 DEF Follows
      <4>5. \A i \in 1 .. Len(b) : b[i] > 0
        BY <3>9
      <4>6. Waiting(new) <=> /\ Len(b) <= EvBuffer /\ \A i \in 1 .. Len(b) : b[i] > 0
                             /\ b # <<>> => Follows(since, b[1], lag)
                             /\ \A i \in 1 .. Len(b) - 1 : Follows(b[i], b[i + 1], lag)
        <5>1. Warned(new) <=> lag
          BY <3>7
        <5>. QED
          BY <5>1, <3>6, <3>7 DEF Waiting, Follows
      <4>. QED
        BY <4>1, <4>3, <4>4, <4>5, <4>6
    <3>12. UpTo(new, evNext)
      <4>1. CASE b = <<>>
        BY <4>1, <3>1, <3>6, <3>7, <3>8, <3>9, <1>1 DEF UpTo
      <4>2. CASE b # <<>>
        <5>1. EndOf(new) = b[Len(b)] /\ Len(b) \in 1 .. Len(b)
          BY <4>2, <3>7, <3>10, <3>l
        <5>2. EndOf(new) = evNext - Len(m) + Len(b) /\ EndOf(new) <= evNext
          BY <5>1, <3>9
        <5>3. Len(b) = Len(m) \/ lag
          BY <3>1, <3>2, <3>g
        <5>4. EndOf(new) = evNext \/ lag
          <6> PICK n \in Nat : n = Len(b)
            BY <3>l
          <6>1. Len(m) = n => EndOf(new) = evNext - n + n
            BY <5>2
          <6>. QED
            BY <6>1, <5>3, <1>1
        <5>. QED
          BY <4>2, <5>2, <5>4, <3>6, <3>9 DEF UpTo
      <4>. QED
        BY <4>1, <4>2
    <3>13. Written(new) /\ Resumes(new, since)
      BY <3>6, EmptySeq DEF Written, Resumes
    <3>. QED
      BY <3>4, <3>11, <3>12, <3>13 DEF StreamSound, new
  <2>. QED
    BY <2>1, <2>2
<1> HIDE DEF new, blank
<1>5. ASSUME NEW c \in EvClients, c # k PROVE evSub'[c] = evSub[c]
  BY <1>1, <1>5 DEF EventInv, EventTypeOK
<1>6. evSub'[k] = new
  BY <1>1 DEF EventInv, EventTypeOK
<1>7. EventTypeOK' /\ LogIsTail'
  BY <1>1, <1>4 DEF EventInv, EventTypeOK, LogIsTail
<1>8. StreamsSound'
  BY <1>1, <1>4, <1>5, <1>6 DEF EventInv, StreamsSound, Live
<1>. QED
  BY <1>7, <1>8 DEF EventInv

\* A step of one client's handler that leaves its stream sound.
HandlerSteps(k, sub, last) ==
  /\ evNext' = evNext /\ evLog' = evLog
  /\ evSub' = [evSub EXCEPT ![k] = sub] /\ evLast' = [evLast EXCEPT ![k] = last]

LEMMA HandlerKeeps ==
  ASSUME EventInv, NEW k \in EvClients, NEW sub \in Subscriptions, NEW last \in Nat, last <= evNext,
         HandlerSteps(k, sub, last), sub.at # "none" => StreamSound(sub, evNext, last)
  PROVE  EventInv'
<1>1. evNext' = evNext /\ evLog' = evLog /\ evSub'[k] = sub /\ evLast'[k] = last
  BY DEF EventInv, EventTypeOK, HandlerSteps
<1>2. ASSUME NEW c \in EvClients, c # k PROVE evSub'[c] = evSub[c] /\ evLast'[c] = evLast[c]
  BY <1>2 DEF EventInv, EventTypeOK, HandlerSteps
<1>3. EventTypeOK' /\ LogIsTail'
  BY <1>1 DEF EventInv, EventTypeOK, LogIsTail, HandlerSteps
<1>4. StreamsSound'
  BY <1>1, <1>2 DEF EventInv, StreamsSound, Live
<1>. QED
  BY <1>3, <1>4 DEF EventInv

LEMMA UnsubscribeKeeps == ASSUME EventInv, NEW k \in EvClients, Unsubscribe(k) PROVE EventInv'
<1>1. NoSub \in Subscriptions /\ NoSub.at = "none"
  BY EmptySeq, EventAssumption DEF NoSub, Subscriptions
<1>2. evLast[k] \in Nat /\ evLast[k] <= evNext
  BY DEF EventInv, EventTypeOK, StreamsSound
<1>3. HandlerSteps(k, NoSub, evLast[k])
  BY DEF Unsubscribe, HandlerSteps, EventInv, EventTypeOK
<1>. QED
  BY <1>1, <1>2, <1>3, HandlerKeeps

\* What a live stream is, one fact at a time.
LEMMA LiveStream ==
  ASSUME EventInv, NEW k \in EvClients, evSub[k].at # "none"
  PROVE  /\ evSub[k] \in Subscriptions /\ evNext \in Nat /\ evLast[k] \in Nat /\ evLast[k] <= evNext
         /\ StreamSound(evSub[k], evNext, evLast[k])
BY DEF EventInv, EventTypeOK, StreamsSound, Live

\* Telling a client of the gap, before the loop waits again.
LEMMA TellKeeps ==
  ASSUME NEW sub \in Subscriptions, NEW next \in Nat, NEW last \in Nat, StreamSound(sub, next, last),
         sub.at \in {"new", "wrote"}, NEW l \in Nat,
         l = last \/ (sub.lagged /\ l = LastGot(sub))
  PROVE  LET new == [(IF sub.lagged THEN Told(sub) ELSE sub) EXCEPT !.at = "run"]
         IN new \in Subscriptions /\ StreamSound(new, next, l)
<1> DEFINE new == [(IF sub.lagged THEN Told(sub) ELSE sub) EXCEPT !.at = "run"]
<1>0. sub.got \in Seq(Nat) /\ Len(sub.got) \in Nat /\ sub.told \in Nat /\ sub.lagged \in BOOLEAN
  BY LenProperties DEF Subscriptions
<1>1. /\ new \in Subscriptions /\ new.at = "run" /\ new.buf = sub.buf /\ new.lagged = sub.lagged
      /\ new.since = sub.since /\ new.got = sub.got
      /\ new.told = IF sub.lagged /\ sub.told > Len(sub.got) THEN Len(sub.got) ELSE sub.told
  BY <1>0 DEF Told, Subscriptions
<1> HIDE DEF new
<1>2. Position(new) = Position(sub) /\ EndOf(new) = EndOf(sub) /\ (sub.lagged => Warned(new)) /\ (Warned(sub) => sub.lagged)
  BY <1>0, <1>1 DEF Position, EndOf, Warned
<1>3. Written(new)
  <2> SUFFICES ASSUME NEW i \in 1 .. Len(sub.got)
               PROVE  Follows(IF i = 1 THEN sub.since ELSE sub.got[i - 1], sub.got[i], new.told < i)
    BY <1>1 DEF Written
  <2>1. Follows(IF i = 1 THEN sub.since ELSE sub.got[i - 1], sub.got[i], sub.told < i)
    BY DEF StreamSound, Written
  <2>2. sub.told < i => new.told < i
    BY <1>0, <1>1
  <2>. QED
    BY <2>1, <2>2 DEF Follows
<1>4. Waiting(new)
  <2>1. sub.buf # <<>> => Follows(Position(new), sub.buf[1], Warned(new))
    BY <1>2 DEF StreamSound, Waiting, Follows
  <2>. QED
    BY <2>1, <1>1 DEF StreamSound, Waiting
<1>5. UpTo(new, next)
  BY <1>1, <1>2 DEF StreamSound, UpTo
<1>6. Resumes(new, l)
  BY <1>1 DEF StreamSound, Resumes, LastGot
<1>. QED
  BY <1>1, <1>3, <1>4, <1>5, <1>6 DEF StreamSound, new

LEMMA RunStartsKeeps == ASSUME EventInv, NEW k \in EvClients, RunStarts(k) PROVE EventInv'
<1> PICK sub \in Subscriptions : sub = evSub[k]
  BY DEF EventInv, EventTypeOK
<1> PICK l \in Nat : l = IF sub.lagged THEN 0 ELSE evLast[k]
  BY DEF EventInv, EventTypeOK
<1>1. sub.at = "new"
  BY DEF RunStarts
<1>2. evNext \in Nat /\ evLast[k] \in Nat /\ evLast[k] <= evNext /\ StreamSound(sub, evNext, evLast[k])
  BY <1>1, LiveStream
<1>3. sub.got = <<>> /\ LastGot(sub) = 0
  BY <1>1, <1>2 DEF StreamSound, Resumes, LastGot
<1> PICK new : new = [(IF sub.lagged THEN Told(sub) ELSE sub) EXCEPT !.at = "run"]
  OBVIOUS
<1>4. new \in Subscriptions /\ StreamSound(new, evNext, l)
  BY <1>1, <1>2, <1>3, TellKeeps
<1>5. HandlerSteps(k, new, l) /\ l <= evNext
  BY <1>2 DEF RunStarts, HandlerSteps, EventInv, EventTypeOK
<1>. QED
  BY <1>4, <1>5, HandlerKeeps

LEMMA WriteLagKeeps == ASSUME EventInv, NEW k \in EvClients, WriteLag(k) PROVE EventInv'
<1> PICK sub \in Subscriptions : sub = evSub[k]
  BY DEF EventInv, EventTypeOK
<1>1. sub.at = "wrote"
  BY DEF WriteLag
<1>2. evNext \in Nat /\ evLast[k] \in Nat /\ evLast[k] <= evNext /\ StreamSound(sub, evNext, evLast[k])
  BY <1>1, LiveStream
<1>3. LastGot(sub) = evLast[k]
  BY <1>1, <1>2 DEF StreamSound, Resumes, LastGot
<1> PICK new : new = [(IF sub.lagged THEN Told(sub) ELSE sub) EXCEPT !.at = "run"]
  OBVIOUS
<1>4. new \in Subscriptions /\ StreamSound(new, evNext, evLast[k])
  BY <1>1, <1>2, TellKeeps
<1>5. HandlerSteps(k, new, evLast[k])
  BY <1>3 DEF WriteLag, HandlerSteps, EventInv, EventTypeOK
<1>. QED
  BY <1>2, <1>4, <1>5, HandlerKeeps

\* The head of the channel is written.
LEMMA WriteEventKeeps == ASSUME EventInv, NEW k \in EvClients, WriteEvent(k) PROVE EventInv'
<1> PICK sub \in Subscriptions : sub = evSub[k]
  BY DEF EventInv, EventTypeOK
<1> PICK next \in Nat, last \in Nat : next = evNext /\ last = evLast[k]
  BY DEF EventInv, EventTypeOK
<1>1. sub.at = "run" /\ sub.buf # <<>>
  BY DEF WriteEvent
<1>2. StreamSound(sub, next, last)
  BY <1>1, LiveStream
<1>3. /\ sub.buf \in Seq(Nat) /\ sub.got \in Seq(Nat) /\ Len(sub.buf) \in Nat \ {0} /\ Len(sub.got) \in Nat
      /\ sub.told \in Nat /\ sub.since \in Nat /\ sub.lagged \in BOOLEAN
  BY <1>1, LenProperties, EmptySeq DEF Subscriptions
<1> PICK id \in Nat : id = sub.buf[1]
  BY <1>3, ElementOfSeq
<1>h. Head(sub.buf) = id
  BY <1>1, <1>3
<1>t. PICK rest \in Seq(Nat) : rest = Tail(sub.buf)
  BY <1>1, <1>3, HeadTailProperties
<1>g. PICK got \in Seq(Nat) : got = Append(sub.got, id)
  BY <1>3, AppendProperties
<1>4. Len(rest) = Len(sub.buf) - 1 /\ \A i \in 1 .. Len(rest) : rest[i] = sub.buf[i + 1]
  BY <1>1, <1>3, <1>t, HeadTailProperties
<1>5. got # <<>> /\ Len(got) = Len(sub.got) + 1 /\ (\A i \in 1 .. Len(sub.got) : got[i] = sub.got[i]) /\ got[Len(got)] = id
  <2>1. /\ Append(sub.got, id) # <<>> /\ Len(Append(sub.got, id)) = Len(sub.got) + 1
        /\ (\A i \in 1 .. Len(sub.got) : Append(sub.got, id)[i] = sub.got[i]) /\ Append(sub.got, id)[Len(sub.got) + 1] = id
    <3>1. sub.got \in Seq(Nat)
      BY <1>3
    <3>. QED
      BY ZenonT(60), <3>1, AppendNat
  <2>. QED
    BY <2>1, <1>g
<1>6. id > 0 /\ id <= next /\ Follows(Position(sub), id, Warned(sub))
  <2>1. 1 \in 1 .. Len(sub.buf)
    BY <1>3
  <2>2. Waiting(sub) /\ UpTo(sub, next)
    BY ZenonT(60), <1>2 DEF StreamSound
  <2>3. sub.buf[1] > 0 /\ Follows(Position(sub), sub.buf[1], Warned(sub))
    BY ZenonT(60), <1>1, <2>1, <2>2 DEF Waiting
  <2>4. sub.buf[1] <= next
    BY ZenonT(60), <2>1, <2>2 DEF UpTo
  <2>. QED
    BY ZenonT(60), <2>3, <2>4
<1>n. PICK new : new = [sub EXCEPT !.at = "wrote", !.buf = rest, !.got = got]
  OBVIOUS
<1>7. /\ new \in Subscriptions /\ new.at = "wrote" /\ new.buf = rest /\ new.got = got
      /\ new.lagged = sub.lagged /\ new.since = sub.since /\ new.told = sub.told
  BY <1>n DEF Subscriptions
<1>8. HandlerSteps(k, new, id)
  <2>1. evSub' = [evSub EXCEPT ![k] = new]
    BY <1>h, <1>t, <1>g, <1>n DEF WriteEvent
  <2>. QED
    BY <2>1, <1>h DEF WriteEvent, HandlerSteps
<1>9. Position(new) = id /\ (Warned(new) <=> sub.lagged) /\ (Warned(sub) => sub.told <= Len(sub.got))
  BY <1>1, <1>5, <1>7 DEF Position, Warned
<1>11. Len(rest) \in Nat /\ (rest = <<>> <=> Len(rest) = 0)
  BY NatSeq
<1>10. rest # <<>> => Len(rest) \in Nat \ {0} /\ Len(rest) \in 1 .. Len(rest)
  BY <1>11
<1>12. EndOf(new) = EndOf(sub)
  <2>1. CASE rest = <<>>
    <3>1. Len(sub.buf) = 1
      BY <2>1, <1>3, <1>4, <1>11
    <3>. QED
      BY <3>1, <2>1, <1>1, <1>7, <1>9 DEF EndOf
  <2>2. CASE rest # <<>>
    <3>1. rest[Len(rest)] = sub.buf[Len(rest) + 1] /\ Len(rest) + 1 = Len(sub.buf)
      <4>1. Len(rest) \in 1 .. Len(rest)
        BY <2>2, <1>10
      <4>2. rest[Len(rest)] = sub.buf[Len(rest) + 1]
        BY <4>1, <1>4
      <4>3. Len(rest) + 1 = Len(sub.buf)
        BY <1>3, <1>4
      <4>. QED
        BY <4>2, <4>3
    <3>. QED
      BY <3>1, <2>2, <1>1, <1>7 DEF EndOf
  <2>. QED
    BY <2>1, <2>2
<1>13. Written(new)
  <2> SUFFICES ASSUME NEW i \in 1 .. Len(got)
               PROVE  Follows(IF i = 1 THEN sub.since ELSE got[i - 1], got[i], sub.told < i)
    BY <1>7 DEF Written
  <2>1. CASE i \in 1 .. Len(sub.got)
    <3>1. got[i] = sub.got[i] /\ (i # 1 => got[i - 1] = sub.got[i - 1])
      <4>0. PICK n \in Nat : n = Len(sub.got)
        BY <1>3
      <4>1. i # 1 => i - 1 \in 1 .. Len(sub.got)
        BY <2>1, <4>0
      <4>. QED
        BY <2>1, <4>1, <1>5
    <3>2. Follows(IF i = 1 THEN sub.since ELSE sub.got[i - 1], sub.got[i], sub.told < i)
      BY <2>1, <1>2 DEF StreamSound, Written
    <3>. QED
      BY <3>1, <3>2
  <2>2. CASE i = Len(got)
    <3>1. Warned(sub) => sub.told < i
      BY SMTT(40), <2>2, <1>3, <1>5, <1>9
    <3>2. Position(sub) = IF i = 1 THEN sub.since ELSE got[i - 1]
      <4>1. CASE sub.got = <<>>
        <5>1. i = 1
          BY <4>1, <2>2, <1>5, EmptySeq
        <5>. QED
          BY <5>1, <4>1 DEF Position
      <4>2. CASE sub.got # <<>>
        <5>1. Len(sub.got) \in Nat \ {0}
          BY <4>2, <1>3, EmptySeq
        <5>2. i # 1 /\ i - 1 = Len(sub.got) /\ got[i - 1] = sub.got[Len(sub.got)]
          <6>1. i = Len(sub.got) + 1 /\ i # 1 /\ i - 1 = Len(sub.got)
            BY <5>1, <2>2, <1>5
          <6>2. Len(sub.got) \in 1 .. Len(sub.got)
            BY <5>1
          <6>3. got[Len(sub.got)] = sub.got[Len(sub.got)]
            BY <6>2, <1>5
          <6>. QED
            BY <6>1, <6>3
        <5>. QED
          BY <5>2, <4>2 DEF Position
      <4>. QED
        BY <4>1, <4>2
    <3>3. got[i] = id
      BY <2>2, <1>5
    <3>. QED
      BY <3>1, <3>2, <3>3, <1>6 DEF Follows
  <2>3. i \in 1 .. Len(sub.got) \/ i = Len(got)
    BY <1>3, <1>5
  <2>. QED
    BY <2>1, <2>2, <2>3
<1>14. ASSUME NEW i \in 1 .. Len(rest)
       PROVE  i + 1 \in 1 .. Len(sub.buf) /\ rest[i] = sub.buf[i + 1]
  <2>1. i \in 1 .. Len(sub.buf) - 1
    BY <1>4
  <2>. QED
    BY <2>1, <1>3, <1>4
<1>15. Waiting(new)
  <2>1. Len(rest) <= EvBuffer
    BY <1>2, <1>3, <1>4, EventAssumption DEF StreamSound, Waiting
  <2>2. \A i \in 1 .. Len(rest) : rest[i] > 0
    BY <1>2, <1>14 DEF StreamSound, Waiting
  <2>3. rest # <<>> => Follows(id, rest[1], sub.lagged)
    <3> SUFFICES ASSUME rest # <<>> PROVE Follows(id, rest[1], sub.lagged)
      OBVIOUS
    <3>1. 1 \in 1 .. Len(rest) /\ 1 \in 1 .. Len(sub.buf) - 1
      BY <1>10, <1>4, <1>3
    <3>2. rest[1] = sub.buf[1 + 1]
      BY <3>1, <1>14
    <3>. QED
      BY <3>1, <3>2, <1>2 DEF StreamSound, Waiting
  <2>4. ASSUME NEW i \in 1 .. Len(rest) - 1 PROVE Follows(rest[i], rest[i + 1], sub.lagged)
    <3>1. i \in 1 .. Len(rest) /\ i + 1 \in 1 .. Len(rest) /\ i + 1 \in 1 .. Len(sub.buf) - 1
      <4> PICK n \in Nat : n = Len(rest)
        BY <1>11
      <4>1. Len(sub.buf) = n + 1
        BY <1>3, <1>4
      <4>. QED
        BY <4>1
    <3>2. rest[i] = sub.buf[i + 1] /\ rest[i + 1] = sub.buf[(i + 1) + 1]
      BY <3>1, <1>14
    <3>3. Follows(sub.buf[i + 1], sub.buf[(i + 1) + 1], sub.lagged)
      BY <3>1, <1>2 DEF StreamSound, Waiting
    <3>. QED
      BY <3>2, <3>3
  <2>. QED
    <3>1. rest # <<>> => Follows(id, rest[1], Warned(new))
      BY <2>3, <1>9 DEF Follows
    <3>. QED
      BY <2>1, <2>2, <3>1, <2>4, <1>7, <1>9 DEF Waiting
<1>16. UpTo(new, next)
  <2>1. \A i \in 1 .. Len(rest) : rest[i] <= next
    BY <1>2, <1>14 DEF StreamSound, UpTo
  <2>2. EndOf(new) <= next /\ (EndOf(new) = 0 \/ EndOf(new) = next \/ sub.lagged)
    BY <1>2, <1>12 DEF StreamSound, UpTo
  <2>. QED
    BY <2>1, <2>2, <1>7, <1>9 DEF UpTo
<1>17. Resumes(new, id)
  BY <1>5, <1>7 DEF Resumes
<1>18. StreamSound(new, next, id)
  BY <1>13, <1>15, <1>16, <1>17 DEF StreamSound
<1>. QED
  BY <1>6, <1>7, <1>8, <1>18, HandlerKeeps

\* NoSilentGap for any number of clients, events and connections and any size of the
\* channels and of the log (broker.go:147-156, 225-233; subscription.go:75-112).
THEOREM StreamsCorrect == EventSpec => []NoSilentGap
<1>1. EventInv /\ [EventNext]_eventVars => EventInv'
  <2> SUFFICES ASSUME EventInv, [EventNext]_eventVars PROVE EventInv'
    OBVIOUS
  <2>1. CASE PublishEvent
    BY <2>1, PublishKeeps
  <2>2. ASSUME NEW k \in EvClients, Subscribe(k) \/ RunStarts(k) \/ WriteEvent(k) \/ WriteLag(k) \/ Unsubscribe(k)
        PROVE  EventInv'
    BY <2>2, SubscribeKeeps, RunStartsKeeps, WriteEventKeeps, WriteLagKeeps, UnsubscribeKeeps
  <2>3. CASE UNCHANGED eventVars
    BY <2>3 DEF eventVars, EventInv, EventTypeOK, LogIsTail, StreamsSound, Live
  <2>. QED
    BY <2>1, <2>2, <2>3 DEF EventNext
<1>2. EventInv => NoSilentGap
  <2> SUFFICES ASSUME EventInv, NEW k \in EvClients, k \in Live
               PROVE  LET sub == evSub[k]
                          before(i) == IF i = 1 THEN sub.since ELSE sub.got[i - 1]
                      IN /\ \A i \in 1 .. Len(sub.got) :
                              before(i) = 0 \/ sub.got[i] = before(i) + 1 \/ (sub.got[i] > before(i) /\ sub.told < i)
                         /\ sub.at = "run" /\ sub.buf = <<>> /\ ~sub.lagged /\ evLast[k] > 0 => evLast[k] = evNext
    BY DEF NoSilentGap, Live
  <2>1. evSub[k].at # "none"
    BY DEF Live
  <2>2. evNext \in Nat /\ evLast[k] \in Nat /\ StreamSound(evSub[k], evNext, evLast[k]) /\ evSub[k] \in Subscriptions
    BY <2>1, LiveStream
  <2>3. Written(evSub[k])
    BY <2>2 DEF StreamSound
  <2>4. evSub[k].at = "run" /\ evSub[k].buf = <<>> /\ ~evSub[k].lagged /\ evLast[k] > 0 => evLast[k] = evNext
    BY <2>2 DEF StreamSound, UpTo, Resumes, EndOf, Position
  <2>. QED
    BY <2>3, <2>4 DEF Written, Follows
<1>. QED
  BY <1>1, <1>2, EventStarts, PTL DEF EventSpec
=============================================================================
