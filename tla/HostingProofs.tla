--------------------------- MODULE HostingProofs ----------------------------
(***************************************************************************)
(* What the executors of a node do on a host and what the controller's     *)
(* records say of it: deployments, site configurations, managed databases  *)
(* and backups.                                                            *)
(***************************************************************************)
EXTENDS NodeDeploy, Sites, Databases, Backups, FiniteSetTheorems, TLAPS

-----------------------------------------------------------------------------
(***************************************************************************)
(* NodeDeploy: FilesAreSound, AnswersAreTrue and DeployedStays when the    *)
(* operations of an application do not overlap. At each step of an         *)
(* operation the invariant says where the symlink, the unit file and the   *)
(* process are (SymlinkAt, ServiceAt, UnitAt): the rollback puts back what *)
(* they say was moved.                                                     *)
(***************************************************************************)

\* An operation starts after every earlier one has ended.
InOrder == \A o, p \in Ops : p < o /\ pc[o] # "idle" => pc[p] = "done"

\* An operation under way has its release directory, an operation that has not
\* started has none, and only one that is done has answered.
Directories ==
    \A o \in Ops : /\ o \in dirs => pc[o] # "idle"
                   /\ InFlight(o) => o \in dirs
                   /\ pc[o] # "done" => reply[o] = "none"

BeforeSwitch == {"fetch", "build", "backup", "unit", "reload", "switch"}
AfterSwitch == {"restart", "health", "relink"}

\* The new release is current and may run from the switch on; the release that
\* a rollback goes back to is on disk.
SymlinkAt(o) ==
    /\ pc[o] \in BeforeSwitch => current # o /\ running # o
    /\ pc[o] \in AfterSwitch \cup {"prune"} => current = o
    /\ pc[o] \in AfterSwitch => prev[o] \in dirs \cup {None}
    /\ pc[o] \in {"reunit", "reservice"} => prev[o] \in dirs

\* The unit on disk and the one systemd has loaded name the new release, and a
\* process that passed the health check runs it.
ServiceAt(o) ==
    /\ pc[o] \in {"reload", "restart", "health", "relink", "reunit"} => unit = o
    /\ pc[o] \in {"switch", "prune"} /\ ~static => unit = o /\ loaded = o
    /\ pc[o] \in {"restart", "health"} => loaded = o
    /\ pc[o] = "health" => running \in {o, None}
    /\ pc[o] = "prune" /\ ~static => running = o

StaticHasNoUnit ==
    static => /\ unit = None /\ backup = None /\ loaded = None /\ running = None
              /\ \A o \in Ops : pc[o] \in {"idle", "fetch", "build", "switch", "prune", "done"}

\* Where the unit of the release that was current is, as long as nothing but a
\* canceled context has gone wrong.
Undisturbed == ~static /\ faults = 0 /\ crashes = 0
UnitAt(o) ==
    /\ pc[o] \in {"fetch", "build", "backup"} /\ current # None => unit = current
    /\ pc[o] \in {"unit", "reload", "switch"} /\ current # None => backup = current
    /\ pc[o] \in AfterSwitch /\ prev[o] # None => backup = prev[o]
    /\ pc[o] = "reunit" => backup = prev[o]
    /\ pc[o] = "reservice" => unit = prev[o]
    /\ pc[o] \in {"reunit", "reservice"} => current = prev[o]

Units == Undisturbed => \A o \in Ops : UnitAt(o)

NodeInv ==
    /\ TypeOK /\ InOrder /\ Directories /\ StaticHasNoUnit
    /\ CurrentResolves /\ ServedDirExists
    /\ \A o \in Ops : SymlinkAt(o) /\ ServiceAt(o)
    /\ Units
    /\ UnitMatchesCurrent /\ DeployedServes /\ UndisturbedRollback

USE OpsAssumption, KeepAssumption, BoundsAssumption

\* Pruning keeps the greatest release.
LEMMA NewestKeepsMax ==
  ASSUME NEW S \in SUBSET Ops, NEW o \in S, \A p \in S : p <= o
  PROVE  o \in Newest(S) /\ Newest(S) \subseteq S
<1>1. {p \in S : p > o} = {}
  <2>1. \A p \in S : ~(p > o)
    BY OpsAssumption DEF Ops
  <2> QED BY <2>1
<1>2. Cardinality({p \in S : p > o}) = 0
  BY <1>1, FS_EmptySet
<1> QED BY <1>2 DEF Newest

LEMMA NodeInit == Init => NodeInv
BY DEF Init, NodeInv, TypeOK, InOrder, Directories, StaticHasNoUnit, CurrentResolves, ServedDirExists,
       SymlinkAt, ServiceAt, Units, UnitAt, UnitMatchesCurrent, DeployedServes, UndisturbedRollback,
       BeforeSwitch, AfterSwitch, InFlight, Stages, Replies, Ops, None, Undisturbed, Quiet, Last

\* An operation under way is alone, and moving it keeps the order.
LEMMA Alone ==
  ASSUME NodeInv, NEW o \in Ops, InFlight(o)
  PROVE  /\ \A p \in Ops \ {o} : pc[p] \in {"idle", "done"}
         /\ \A p \in Ops : p < o => pc[p] = "done"
         /\ \A p \in Ops : p > o => pc[p] = "idle"
BY DEF NodeInv, InOrder, InFlight, Ops, TypeOK

LEMMA PointerMoved ==
  ASSUME NodeInv, NEW o \in Ops, InFlight(o), NEW s \in Stages \ {"idle"}, pc' = [pc EXCEPT ![o] = s]
  PROVE  /\ pc' \in [Ops -> Stages] /\ InOrder'
         /\ pc'[o] = s
         /\ \A p \in Ops \ {o} : pc'[p] = pc[p] /\ ~InFlight(p)'
<1>1. pc \in [Ops -> Stages] /\ pc[o] # "idle" /\ pc[o] # "done"
  BY DEF NodeInv, TypeOK, InFlight
<1>2. /\ pc' \in [Ops -> Stages] /\ pc'[o] = s
      /\ \A p \in Ops \ {o} : pc'[p] = pc[p]
  BY <1>1
<1>3. \A p \in Ops \ {o} : ~InFlight(p)'
  <2>1. \A p \in Ops \ {o} : pc[p] \in {"idle", "done"}
    BY Alone
  <2> QED BY <1>2, <2>1 DEF InFlight
<1>4. InOrder'
  BY <1>1, <1>2, Alone DEF InOrder, Ops, NodeInv
<1> QED BY <1>2, <1>3, <1>4

\* The operation goes on to its next stage.
LEMMA Ongoing ==
  ASSUME NodeInv, NEW o \in Ops, InFlight(o),
         NEW s \in Stages \ {"idle", "done"}, Goto(o, s),
         TypeOK', UNCHANGED <<static, dirs>>,
         faults' >= faults, crashes' >= crashes,
         CurrentResolves', ServedDirExists', SymlinkAt(o)', ServiceAt(o)',
         Undisturbed' => UnitAt(o)',
         static => /\ UNCHANGED <<unit, backup, loaded, running>>
                   /\ s \in {"fetch", "build", "switch", "prune"}
  PROVE  NodeInv'
<1> USE DEF NodeInv
<1>1. /\ InOrder' /\ pc'[o] = s
      /\ \A p \in Ops \ {o} : pc'[p] = pc[p] /\ ~InFlight(p)'
  BY PointerMoved DEF Goto
<1>2. \A p \in Ops \ {o} : pc'[p] \in {"idle", "done"}
  BY <1>1 DEF InFlight
<1>3. Directories'
  BY <1>1, <1>2 DEF Directories, InFlight, Goto
<1>4. StaticHasNoUnit'
  BY <1>1 DEF StaticHasNoUnit
<1>5. \A p \in Ops : SymlinkAt(p)' /\ ServiceAt(p)'
  BY <1>2 DEF SymlinkAt, ServiceAt, BeforeSwitch, AfterSwitch
<1>6. Units'
  BY <1>2 DEF Units, UnitAt, BeforeSwitch, AfterSwitch
<1>7. ~Quiet'
  BY <1>1 DEF Quiet, InFlight
<1>8. UnitMatchesCurrent' /\ DeployedServes' /\ UndisturbedRollback'
  BY <1>7 DEF UnitMatchesCurrent, DeployedServes, UndisturbedRollback
<1> QED BY <1>1, <1>3, <1>4, <1>5, <1>6, <1>8

\* The operation ends with the answer r.
LEMMA Ended ==
  ASSUME NodeInv, NEW o \in Ops, InFlight(o), NEW r \in Replies, Return(o, r),
         TypeOK', UNCHANGED static, dirs' \subseteq dirs,
         CurrentResolves', ServedDirExists', UnitMatchesCurrent',
         static => unit' = None /\ backup' = None /\ loaded' = None /\ running' = None,
         r = "deployed" => /\ current' = o /\ o \in dirs'
                           /\ ~static => unit' = o /\ loaded' = o /\ running' = o,
         r = "rolled_back" /\ o \notin gone' /\ faults' = 0 /\ crashes' = 0
            => current' = prev'[o] /\ running' = prev'[o]
  PROVE  NodeInv'
<1> USE DEF NodeInv
<1>1. /\ InOrder' /\ pc'[o] = "done"
      /\ \A p \in Ops \ {o} : pc'[p] = pc[p] /\ ~InFlight(p)'
  BY PointerMoved DEF Return, Stages
<1>2. \A p \in Ops : pc'[p] \in {"idle", "done"}
  BY <1>1 DEF InFlight
<1>3. \A p \in Ops \ {o} : reply'[p] = reply[p]
  BY DEF Return, TypeOK
<1>4. reply'[o] = r
  BY DEF Return, TypeOK
<1>5. Directories'
  BY <1>1, <1>2, <1>3 DEF Directories, InFlight
<1>6. StaticHasNoUnit'
  BY <1>2 DEF StaticHasNoUnit
<1>7. \A p \in Ops : SymlinkAt(p)' /\ ServiceAt(p)'
  BY <1>2 DEF SymlinkAt, ServiceAt, BeforeSwitch, AfterSwitch
<1>8. Units'
  BY <1>2 DEF Units, UnitAt, BeforeSwitch, AfterSwitch
<1>9. \A p \in Ops : Last(p)' => p = o
  <2> SUFFICES ASSUME NEW p \in Ops, p # o PROVE ~Last(p)'
    OBVIOUS
  <2>1. p > o \/ o > p
    BY DEF Ops
  <2>2. CASE p > o
    BY <2>2, <1>1, Alone DEF Last
  <2>3. CASE o > p
    BY <2>3, <1>1 DEF Last
  <2> QED BY <2>1, <2>2, <2>3
<1>10. DeployedServes' /\ UndisturbedRollback'
  BY <1>4, <1>9 DEF DeployedServes, UndisturbedRollback
<1> QED BY <1>1, <1>5, <1>6, <1>7, <1>8, <1>10

-----------------------------------------------------------------------------
\* The steps of an operation.

\* What an early return before the switch leaves.
LEMMA AbandonKeeps ==
  ASSUME NodeInv, NEW o \in Ops, pc[o] \in BeforeSwitch, UNCHANGED <<static, current, running>>,
         dirs' = dirs \ {o}
  PROVE  CurrentResolves' /\ ServedDirExists' /\ dirs' \subseteq dirs
BY DEF NodeInv, SymlinkAt, CurrentResolves, ServedDirExists

LEMMA StartKeeps == ASSUME NodeInv, NEW o \in Ops, Serial, Start(o) PROVE NodeInv'
<1> USE DEF NodeInv
<1>1. \A p \in Ops : ~InFlight(p)
  BY DEF Start
<1>2. /\ pc[o] = "idle"
      /\ \A p \in Ops : p < o => pc[p] # "idle"
      /\ UNCHANGED <<static, current, unit, backup, loaded, running, prev, rolled, gone,
                     faults, crashes>>
  BY DEF Start
<1>3. PICK s \in {"fetch", "done"} :
        /\ pc' = [pc EXCEPT ![o] = s]
        /\ s = "fetch" => reply' = reply /\ dirs' = dirs \cup {o}
        /\ s = "done" => reply' = [reply EXCEPT ![o] = "error"] /\ dirs' = dirs
  BY DEF Start, Goto, Return
<1>4. pc'[o] = s /\ \A p \in Ops \ {o} : pc'[p] = pc[p] /\ pc'[p] \in {"idle", "done"}
  BY <1>1, <1>3 DEF TypeOK, InFlight
<1>5. \A p \in Ops : reply'[p] = reply[p] \/ (p = o /\ s = "done" /\ reply'[p] = "error")
  BY <1>3 DEF TypeOK
<1>6. TypeOK'
  BY <1>2, <1>3 DEF TypeOK, Stages, Replies
<1>7. \A p \in Ops : p < o => pc[p] = "done"
  BY <1>1, <1>2 DEF InFlight
<1>8. \A p \in Ops : p > o => pc[p] = "idle"
  BY <1>2 DEF InOrder, Ops
<1>9. InOrder'
  BY <1>4, <1>7, <1>8 DEF InOrder, Ops
<1>10. Directories'
  BY <1>2, <1>3, <1>4, <1>5 DEF Directories, InFlight
<1>11. StaticHasNoUnit'
  BY <1>2, <1>3, <1>4 DEF StaticHasNoUnit
<1>12. CurrentResolves' /\ ServedDirExists'
  BY <1>2, <1>3 DEF CurrentResolves, ServedDirExists
<1>13. o \notin dirs /\ o # None
  BY <1>2 DEF Directories, Ops, None
<1>14. current # o /\ running # o
  BY <1>13 DEF CurrentResolves, ServedDirExists
<1>15. \A p \in Ops : SymlinkAt(p)' /\ ServiceAt(p)'
  BY <1>2, <1>3, <1>4, <1>14 DEF SymlinkAt, ServiceAt, BeforeSwitch, AfterSwitch
<1>16. Undisturbed /\ current # None => unit = current
  BY <1>1 DEF UnitMatchesCurrent, Quiet, Undisturbed
<1>17. Units'
  BY <1>2, <1>3, <1>4, <1>16 DEF Units, UnitAt, Undisturbed, BeforeSwitch, AfterSwitch
<1>18. UnitMatchesCurrent'
  BY <1>2, <1>16 DEF UnitMatchesCurrent, Undisturbed
<1>19. \A p \in Ops : Last(p)' => p = o \/ p > o
  BY <1>3, <1>4 DEF Last, Ops
<1>20. \A p \in Ops : p > o => pc'[p] = "idle"
  BY <1>4, <1>8 DEF Ops
<1>21. \A p \in Ops : Last(p)' => p = o
  BY <1>19, <1>20 DEF Last
<1>22. reply'[o] \notin {"deployed", "rolled_back"}
  BY <1>2, <1>5 DEF Directories
<1>23. DeployedServes' /\ UndisturbedRollback'
  BY <1>21, <1>22 DEF DeployedServes, UndisturbedRollback
<1> QED BY <1>6, <1>9, <1>10, <1>11, <1>12, <1>15, <1>17, <1>18, <1>23

LEMMA GitFetchKeeps == ASSUME NodeInv, NEW o \in Ops, GitFetch(o) PROVE NodeInv'
<1>1. InFlight(o) /\ pc[o] \in BeforeSwitch
  BY DEF GitFetch, InFlight, BeforeSwitch
<1>2. CASE Goto(o, "build") /\ UNCHANGED dirs
  <2>1. pc'[o] = "build" /\ TypeOK'
    BY <1>2 DEF GitFetch, Goto, NodeInv, TypeOK, Stages
  <2>2. CurrentResolves' /\ ServedDirExists' /\ SymlinkAt(o)' /\ ServiceAt(o)' /\ (Undisturbed' => UnitAt(o)')
    BY <1>2, <2>1 DEF GitFetch, NodeInv, CurrentResolves, ServedDirExists, SymlinkAt, ServiceAt, Units, UnitAt,
                      BeforeSwitch, AfterSwitch, Undisturbed
  <2> QED BY <1>1, <1>2, <2>1, <2>2, Ongoing DEF GitFetch, Stages, NodeInv, TypeOK
<1>3. CASE Abandon(o, "error")
  <2>1. TypeOK'
    BY <1>3 DEF GitFetch, Abandon, Return, NodeInv, TypeOK, Stages, Replies
  <2>2. UnitMatchesCurrent'
    BY <1>1 DEF GitFetch, UnitMatchesCurrent, NodeInv, Units, UnitAt, Undisturbed
  <2> QED BY <1>1, <1>3, <2>1, <2>2, AbandonKeeps, Ended
          DEF GitFetch, Abandon, Replies, NodeInv, StaticHasNoUnit
<1> QED BY <1>2, <1>3 DEF GitFetch
LEMMA BuildKeeps == ASSUME NodeInv, NEW o \in Ops, Build(o) PROVE NodeInv'
<1>1. InFlight(o) /\ pc[o] \in BeforeSwitch
  BY DEF Build, InFlight, BeforeSwitch
<1>2. CASE Goto(o, IF static THEN "switch" ELSE "backup") /\ UNCHANGED <<dirs, faults, gone, crashes>>
  <2> DEFINE s == IF static THEN "switch" ELSE "backup"
  <2>1. pc'[o] = s /\ TypeOK'
    BY <1>2 DEF Build, Goto, NodeInv, TypeOK, Stages
  <2>2. /\ CurrentResolves' /\ ServedDirExists' /\ SymlinkAt(o)' /\ ServiceAt(o)'
        /\ Undisturbed' => UnitAt(o)'
    BY <1>2, <2>1 DEF Build, NodeInv, CurrentResolves, ServedDirExists, SymlinkAt, ServiceAt, Units, UnitAt,
                      BeforeSwitch, AfterSwitch, Undisturbed
  <2> QED BY <1>1, <1>2, <2>1, <2>2, Ongoing DEF Build, Stages, NodeInv, TypeOK
<1>3. ASSUME NEW r \in {"build_failed", "error"}, Abandon(o, r),
             UNCHANGED <<static, current, unit, backup, loaded, running, prev, rolled>>,
             NoFault \/ Fault
      PROVE  NodeInv'
  <2>1. TypeOK'
    BY <1>3 DEF NoFault, Fault, Abandon, Return, NodeInv, TypeOK, Stages, Replies
  <2>2. faults' = 0 => faults = 0
    BY <1>3 DEF NoFault, Fault, NodeInv, TypeOK
  <2>3. crashes' = crashes
    BY <1>3 DEF NoFault, Fault
  <2>4. UnitMatchesCurrent'
    BY <1>1, <1>3, <2>2, <2>3 DEF Build, UnitMatchesCurrent, NodeInv, Units, UnitAt, Undisturbed
  <2> QED BY <1>1, <1>3, <2>1, <2>4, AbandonKeeps, Ended
          DEF Abandon, Replies, NodeInv, StaticHasNoUnit
<1> QED BY <1>2, <1>3 DEF Build

LEMMA BackupUnitKeeps == ASSUME NodeInv, NEW o \in Ops, BackupUnit(o) PROVE NodeInv'
<1>1. InFlight(o) /\ pc[o] = "backup" /\ ~static
  BY DEF BackupUnit, InFlight, NodeInv, StaticHasNoUnit
<1>2. /\ Goto(o, "unit") /\ UNCHANGED <<static, dirs, current, loaded, running, prev, rolled>>
      /\ faults' >= faults /\ faults' \in 0..MaxFaults /\ UNCHANGED <<gone, crashes>>
      /\ unit' \in {unit, None} /\ backup' \in {backup, unit}
      /\ faults' = 0 /\ unit # None => backup' = unit
  BY DEF BackupUnit, Fault, NoFault, NodeInv, TypeOK
<1>3. pc'[o] = "unit" /\ TypeOK'
  BY <1>2 DEF Goto, NodeInv, TypeOK, Stages
<1>4. CurrentResolves' /\ ServedDirExists' /\ SymlinkAt(o)' /\ ServiceAt(o)'
  BY <1>1, <1>2, <1>3 DEF NodeInv, CurrentResolves, ServedDirExists, SymlinkAt, ServiceAt, BeforeSwitch, AfterSwitch
<1>5. Undisturbed' => Undisturbed
  BY <1>2 DEF Undisturbed, NodeInv, TypeOK
<1>6. ASSUME Undisturbed' PROVE current # None => backup' = current
  BY <1>1, <1>2, <1>5, <1>6 DEF NodeInv, Units, UnitAt, Undisturbed
<1>7. Undisturbed' => UnitAt(o)'
  BY <1>2, <1>3, <1>6 DEF UnitAt, AfterSwitch
<1> QED BY <1>1, <1>2, <1>3, <1>4, <1>7, Ongoing DEF Stages, NodeInv, TypeOK

LEMMA WriteUnitKeeps == ASSUME NodeInv, NEW o \in Ops, WriteUnit(o) PROVE NodeInv'
<1>1. InFlight(o) /\ pc[o] = "unit" /\ pc[o] \in BeforeSwitch /\ ~static
  BY DEF WriteUnit, InFlight, BeforeSwitch, NodeInv, StaticHasNoUnit
<1>2. CASE /\ unit' = o /\ Goto(o, "reload")
           /\ UNCHANGED <<dirs, backup, faults, gone, crashes>>
  <2>1. pc'[o] = "reload" /\ TypeOK'
    BY <1>2 DEF WriteUnit, Goto, NodeInv, TypeOK, Stages
  <2>2. /\ CurrentResolves' /\ ServedDirExists' /\ SymlinkAt(o)' /\ ServiceAt(o)'
        /\ Undisturbed' => UnitAt(o)'
    BY <1>1, <1>2, <2>1 DEF WriteUnit, NodeInv, CurrentResolves, ServedDirExists, SymlinkAt, ServiceAt,
                            Units, UnitAt, BeforeSwitch, AfterSwitch, Undisturbed
  <2> QED BY <1>1, <1>2, <2>1, <2>2, Ongoing DEF WriteUnit, Stages, NodeInv, TypeOK
<1>3. CASE PutBack(unit) /\ Abandon(o, "error") /\ Fault
  <2>1. unit' \in Ops \cup {None} /\ backup' \in Ops \cup {None}
    BY <1>3 DEF PutBack, NodeInv, TypeOK, None
  <2>2. TypeOK'
    BY <1>3, <2>1 DEF WriteUnit, Fault, Abandon, Return, NodeInv, TypeOK, Stages, Replies
  <2>3. faults' # 0
    BY <1>3 DEF Fault, NodeInv, TypeOK
  <2>4. UnitMatchesCurrent'
    BY <2>3 DEF UnitMatchesCurrent
  <2> QED BY <1>1, <1>3, <2>2, <2>4, AbandonKeeps, Ended DEF WriteUnit, Abandon, Replies
<1> QED BY <1>2, <1>3 DEF WriteUnit

LEMMA ReloadKeeps == ASSUME NodeInv, NEW o \in Ops, Reload(o) PROVE NodeInv'
<1>1. InFlight(o) /\ pc[o] = "reload" /\ pc[o] \in BeforeSwitch /\ ~static
  BY DEF Reload, InFlight, BeforeSwitch, NodeInv, StaticHasNoUnit
<1>2. CASE /\ loaded' = unit /\ Goto(o, "switch")
           /\ UNCHANGED <<dirs, unit, backup, faults, gone, crashes>>
  <2>1. pc'[o] = "switch" /\ TypeOK'
    BY <1>2 DEF Reload, Goto, NodeInv, TypeOK, Stages
  <2>2. /\ CurrentResolves' /\ ServedDirExists' /\ SymlinkAt(o)' /\ ServiceAt(o)'
        /\ Undisturbed' => UnitAt(o)'
    BY <1>1, <1>2, <2>1 DEF Reload, NodeInv, CurrentResolves, ServedDirExists, SymlinkAt, ServiceAt,
                            Units, UnitAt, BeforeSwitch, AfterSwitch, Undisturbed
  <2> QED BY <1>1, <1>2, <2>1, <2>2, Ongoing DEF Reload, Stages, NodeInv, TypeOK
<1>3. CASE /\ (o \in gone /\ NoFault) \/ Fault
           /\ PutBack(None) /\ Abandon(o, "error")
           /\ UNCHANGED loaded
  <2>1. unit' \in Ops \cup {None} /\ backup' \in Ops \cup {None}
    BY <1>3 DEF PutBack, NodeInv, TypeOK, None
  <2>2. TypeOK'
    BY <1>3, <2>1 DEF Reload, NoFault, Fault, Abandon, Return, NodeInv, TypeOK, Stages, Replies
  <2>3. faults' = 0 => faults = 0
    BY <1>3 DEF NoFault, Fault, NodeInv, TypeOK
  <2>4. crashes' = crashes
    BY <1>3 DEF NoFault, Fault
  <2>5. Undisturbed /\ current # None => unit' = current
    BY <1>1, <1>3 DEF NodeInv, Units, UnitAt, PutBack
  <2>6. UnitMatchesCurrent'
    BY <1>3, <2>3, <2>4, <2>5 DEF Reload, UnitMatchesCurrent, Undisturbed
  <2> QED BY <1>1, <1>3, <2>2, <2>6, AbandonKeeps, Ended DEF Reload, Abandon, Replies
<1> QED BY <1>2, <1>3 DEF Reload

LEMMA SwitchSymlinkKeeps == ASSUME NodeInv, NEW o \in Ops, SwitchSymlink(o) PROVE NodeInv'
<1>1. InFlight(o) /\ pc[o] = "switch" /\ pc[o] \in BeforeSwitch
  BY DEF SwitchSymlink, InFlight, BeforeSwitch
<1>2. CASE /\ prev' = [prev EXCEPT ![o] = current] /\ current' = o
           /\ Goto(o, IF static THEN "prune" ELSE "restart")
           /\ UNCHANGED <<dirs, faults, gone, crashes>>
  <2> DEFINE s == IF static THEN "prune" ELSE "restart"
  <2>1. pc'[o] = s /\ prev'[o] = current /\ TypeOK'
    BY <1>2 DEF SwitchSymlink, Goto, NodeInv, TypeOK, Stages
  <2>2. o \in dirs
    BY <1>1 DEF NodeInv, Directories
  <2>3. CurrentResolves' /\ ServedDirExists' /\ SymlinkAt(o)' /\ ServiceAt(o)'
    BY <1>1, <1>2, <2>1, <2>2 DEF SwitchSymlink, NodeInv, CurrentResolves, ServedDirExists, SymlinkAt,
                                  ServiceAt, BeforeSwitch, AfterSwitch
  <2>4. Undisturbed' => UnitAt(o)'
    BY <1>1, <1>2, <2>1 DEF SwitchSymlink, NodeInv, Units, UnitAt, BeforeSwitch, AfterSwitch, Undisturbed
  <2>5. s \in Stages \ {"idle", "done"}
    BY DEF Stages
  <2> QED BY <1>1, <1>2, <2>1, <2>3, <2>4, <2>5, Ongoing DEF SwitchSymlink, NodeInv, TypeOK
<1>3. CASE Abandon(o, "error") /\ Fault /\ UNCHANGED <<prev, current>>
  <2>1. TypeOK'
    BY <1>3 DEF SwitchSymlink, Fault, Abandon, Return, NodeInv, TypeOK, Stages, Replies
  <2>2. faults' # 0
    BY <1>3 DEF Fault, NodeInv, TypeOK
  <2>3. UnitMatchesCurrent'
    BY <2>2 DEF UnitMatchesCurrent
  <2> QED BY <1>1, <1>3, <2>1, <2>3, AbandonKeeps, Ended
          DEF SwitchSymlink, Abandon, Replies, NodeInv, StaticHasNoUnit
<1> QED BY <1>2, <1>3 DEF SwitchSymlink

LEMMA RestartKeeps == ASSUME NodeInv, NEW o \in Ops, Restart(o) PROVE NodeInv'
<1>1. InFlight(o) /\ pc[o] = "restart" /\ ~static /\ loaded = o /\ o \in dirs
  BY DEF Restart, InFlight, NodeInv, StaticHasNoUnit, ServiceAt, Directories
<1>2. PICK s \in {"health", "relink"} :
        /\ Goto(o, s) /\ running' \in {running, o, None}
        /\ s = "health" => running' = o
        /\ UNCHANGED <<static, dirs, current, unit, backup, loaded, prev, rolled, gone, faults, crashes>>
  BY <1>1 DEF Restart, Started
<1>3. pc'[o] = s /\ TypeOK'
  BY <1>2 DEF Goto, NodeInv, TypeOK, Stages
<1>4. /\ CurrentResolves' /\ ServedDirExists' /\ SymlinkAt(o)' /\ ServiceAt(o)'
      /\ Undisturbed' => UnitAt(o)'
  BY <1>1, <1>2, <1>3 DEF NodeInv, CurrentResolves, ServedDirExists, SymlinkAt, ServiceAt, Units, UnitAt,
                          BeforeSwitch, AfterSwitch, Undisturbed
<1> QED BY <1>1, <1>2, <1>3, <1>4, Ongoing DEF Stages, NodeInv, TypeOK

LEMMA CheckAppHealthKeeps == ASSUME NodeInv, NEW o \in Ops, CheckAppHealth(o) PROVE NodeInv'
<1>1. InFlight(o) /\ pc[o] = "health" /\ ~static
  BY DEF CheckAppHealth, InFlight, NodeInv, StaticHasNoUnit
<1>2. PICK s \in {"prune", "relink"} :
        /\ Goto(o, s) /\ (s = "prune" => running # None)
        /\ UNCHANGED <<static, dirs, current, unit, backup, loaded, running, prev, rolled, gone,
                       faults, crashes>>
  BY DEF CheckAppHealth
<1>3. pc'[o] = s /\ TypeOK'
  BY <1>2 DEF Goto, NodeInv, TypeOK, Stages
<1>4. /\ CurrentResolves' /\ ServedDirExists' /\ SymlinkAt(o)' /\ ServiceAt(o)'
      /\ Undisturbed' => UnitAt(o)'
  BY <1>1, <1>2, <1>3 DEF NodeInv, CurrentResolves, ServedDirExists, SymlinkAt, ServiceAt, Units, UnitAt,
                          BeforeSwitch, AfterSwitch, Undisturbed
<1> QED BY <1>1, <1>2, <1>3, <1>4, Ongoing DEF Stages, NodeInv, TypeOK

LEMMA RestoreLinkKeeps == ASSUME NodeInv, NEW o \in Ops, RestoreLink(o) PROVE NodeInv'
<1>1. /\ InFlight(o) /\ pc[o] = "relink" /\ ~static /\ o # None
      /\ UNCHANGED <<static, dirs, unit, backup, loaded, prev>>
  BY DEF RestoreLink, InFlight, NodeInv, StaticHasNoUnit, Ops, None
<1>2. CASE prev[o] # None
  <2>1. /\ Goto(o, "reunit") /\ running' = running
        /\ current' \in {current, prev[o]} /\ rolled' \in {rolled, [rolled EXCEPT ![o] = TRUE]}
        /\ faults' = 0 => faults = 0 /\ current' = prev[o]
        /\ faults' \in 0..MaxFaults /\ faults' >= faults /\ UNCHANGED <<gone, crashes>>
    BY <1>2 DEF RestoreLink, Fault, NoFault, NodeInv, TypeOK
  <2>2. rolled' \in [Ops -> BOOLEAN] /\ current' \in Ops \cup {None}
    BY <2>1 DEF NodeInv, TypeOK
  <2>3. pc'[o] = "reunit" /\ TypeOK'
    BY <1>1, <2>1, <2>2 DEF Goto, NodeInv, TypeOK, Stages
  <2>4. CurrentResolves' /\ ServedDirExists' /\ SymlinkAt(o)' /\ ServiceAt(o)'
    BY <1>1, <1>2, <2>1, <2>3 DEF NodeInv, CurrentResolves, ServedDirExists, SymlinkAt, ServiceAt,
                                  BeforeSwitch, AfterSwitch
  <2>5. Undisturbed' => UnitAt(o)'
    BY <1>1, <1>2, <2>1, <2>3 DEF NodeInv, Units, UnitAt, AfterSwitch, Undisturbed
  <2> QED BY <1>1, <2>1, <2>3, <2>4, <2>5, Ongoing DEF Stages, NodeInv, TypeOK
<1>3. CASE prev[o] = None
  <2>1. /\ Return(o, "unhealthy") /\ current' = None /\ running' \in {running, None}
        /\ UNCHANGED <<rolled, faults, gone, crashes>>
    BY <1>3 DEF RestoreLink
  <2>2. TypeOK'
    BY <1>1, <2>1 DEF Return, NodeInv, TypeOK, Stages, Replies
  <2>3. CurrentResolves' /\ ServedDirExists' /\ UnitMatchesCurrent'
    BY <1>1, <2>1 DEF NodeInv, CurrentResolves, ServedDirExists, UnitMatchesCurrent
  <2> QED BY <1>1, <2>1, <2>2, <2>3, Ended DEF Replies
<1> QED BY <1>2, <1>3

LEMMA RestoreUnitKeeps == ASSUME NodeInv, NEW o \in Ops, RestoreUnit(o) PROVE NodeInv'
<1>1. /\ InFlight(o) /\ pc[o] = "reunit" /\ ~static /\ prev[o] \in dirs /\ prev[o] # None
      /\ UNCHANGED <<static, dirs, current, loaded, running, prev, rolled>>
  BY DEF RestoreUnit, InFlight, NodeInv, TypeOK, StaticHasNoUnit, SymlinkAt, Ops, None
<1>2. Undisturbed => backup = prev[o] /\ current = prev[o]
  BY <1>1 DEF NodeInv, Units, UnitAt
<1>3. CASE backup = None /\ RollbackReply(o) /\ UNCHANGED <<unit, backup>> /\ NoFault
  <2> DEFINE r == IF rolled[o] THEN "rolled_back" ELSE "unhealthy"
  <2>1. Return(o, r) /\ r \in Replies /\ UNCHANGED <<faults, gone, crashes>>
    BY <1>3 DEF RollbackReply, Replies, NoFault
  <2>2. TypeOK'
    BY <1>1, <1>3, <2>1 DEF Return, NodeInv, TypeOK, Stages
  <2>3. ~Undisturbed
    BY <1>1, <1>2, <1>3
  <2>4. CurrentResolves' /\ ServedDirExists'
    BY <1>1 DEF NodeInv, CurrentResolves, ServedDirExists
  <2>5. UnitMatchesCurrent'
    BY <1>1, <2>1, <2>3 DEF UnitMatchesCurrent, Undisturbed
  <2>6. ~(faults' = 0 /\ crashes' = 0)
    BY <1>1, <2>1, <2>3 DEF Undisturbed
  <2> HIDE DEF r
  <2>7. r # "deployed"
    BY DEF r
  <2> QED BY <1>1, <2>1, <2>2, <2>4, <2>5, <2>6, <2>7, Ended
<1>4. CASE /\ backup # None /\ Goto(o, "reservice")
           /\ \/ unit' = backup /\ backup' = None /\ NoFault
              \/ UNCHANGED <<unit, backup>> /\ Fault
  <2>1. /\ unit' \in Ops \cup {None} /\ backup' \in Ops \cup {None}
        /\ faults' = 0 => faults = 0 /\ unit' = backup
        /\ faults' \in 0..MaxFaults /\ faults' >= faults /\ UNCHANGED <<gone, crashes>>
    BY <1>4 DEF Fault, NoFault, NodeInv, TypeOK
  <2>2. pc'[o] = "reservice" /\ TypeOK'
    BY <1>1, <1>4, <2>1 DEF Goto, NodeInv, TypeOK, Stages
  <2>3. CurrentResolves' /\ ServedDirExists' /\ SymlinkAt(o)' /\ ServiceAt(o)'
    BY <1>1, <2>2 DEF NodeInv, CurrentResolves, ServedDirExists, SymlinkAt, ServiceAt,
                      BeforeSwitch, AfterSwitch
  <2>4. Undisturbed' => UnitAt(o)'
    BY <1>1, <1>2, <2>1, <2>2 DEF UnitAt, AfterSwitch, Undisturbed
  <2> QED BY <1>1, <1>4, <2>1, <2>2, <2>3, <2>4, Ongoing DEF Stages, NodeInv, TypeOK
<1> QED BY <1>3, <1>4 DEF RestoreUnit

LEMMA RestoreServiceKeeps == ASSUME NodeInv, NEW o \in Ops, RestoreService(o) PROVE NodeInv'
<1>1. /\ InFlight(o) /\ pc[o] = "reservice" /\ ~static
      /\ UNCHANGED <<static, dirs, current, unit, backup, prev, rolled>>
  BY DEF RestoreService, InFlight, NodeInv, StaticHasNoUnit
<1>2. Undisturbed => unit = prev[o] /\ current = prev[o]
  BY <1>1 DEF NodeInv, Units, UnitAt
<1>3. /\ loaded' \in {loaded, unit} /\ running' \in {running, None, Started(unit), Started(loaded)}
      /\ faults' \in 0..MaxFaults /\ UNCHANGED <<gone, crashes>>
      /\ faults' = 0 => faults = 0
      /\ faults' = 0 /\ o \notin gone => running' = Started(unit)
  BY DEF RestoreService, Fault, NoFault, NodeInv, TypeOK
<1>4. running' \in Ops \cup {None} /\ ServedDirExists'
  BY <1>1, <1>3 DEF Started, NodeInv, TypeOK, ServedDirExists
<1> DEFINE r == IF rolled[o] THEN "rolled_back" ELSE "unhealthy"
<1>5. Return(o, r) /\ r \in Replies /\ r # "deployed"
  BY DEF RestoreService, RollbackReply, Replies
<1> HIDE DEF r
<1>6. TypeOK'
  BY <1>1, <1>3, <1>4, <1>5 DEF Return, NodeInv, TypeOK, Stages
<1>7. CurrentResolves'
  BY <1>1 DEF NodeInv, CurrentResolves
<1>8. UnitMatchesCurrent'
  BY <1>1, <1>2, <1>3 DEF UnitMatchesCurrent, Undisturbed
<1>9. o \notin gone' /\ faults' = 0 /\ crashes' = 0 => current' = prev'[o] /\ running' = prev'[o]
  <2>1. prev[o] \in dirs
    BY <1>1 DEF NodeInv, SymlinkAt
  <2> QED BY <1>1, <1>2, <1>3, <2>1 DEF Undisturbed, Started
<1> QED BY <1>1, <1>4, <1>5, <1>6, <1>7, <1>8, <1>9, Ended

LEMMA PruneReleasesKeeps == ASSUME NodeInv, NEW o \in Ops, PruneReleases(o) PROVE NodeInv'
<1>1. /\ InFlight(o) /\ pc[o] = "prune" /\ current = o /\ o \in dirs
      /\ backup' = None /\ dirs' = Newest(dirs) /\ Return(o, "deployed")
      /\ UNCHANGED <<static, current, unit, loaded, running, prev, rolled, gone, faults, crashes>>
  BY DEF PruneReleases, InFlight, NodeInv, SymlinkAt, Directories
<1>2. dirs \in SUBSET Ops /\ \A p \in dirs : p <= o
  <2>1. \A p \in Ops : p > o => p \notin dirs
    BY <1>1, Alone DEF NodeInv, Directories
  <2>2. \A p \in Ops : p > o \/ p <= o
    BY DEF Ops
  <2>3. dirs \in SUBSET Ops
    BY DEF NodeInv, TypeOK
  <2> QED BY <2>1, <2>2, <2>3
<1>3. o \in dirs' /\ dirs' \subseteq dirs
  BY <1>1, <1>2, NewestKeepsMax
<1>4. ~static => unit = o /\ loaded = o /\ running = o
  BY <1>1 DEF NodeInv, ServiceAt
<1>5. static => unit = None /\ loaded = None /\ running = None
  BY DEF NodeInv, StaticHasNoUnit
<1>6. TypeOK'
  BY <1>1, <1>3 DEF Return, NodeInv, TypeOK, Stages, Replies
<1>7. CurrentResolves' /\ ServedDirExists' /\ UnitMatchesCurrent'
  BY <1>1, <1>3, <1>4, <1>5 DEF CurrentResolves, ServedDirExists, UnitMatchesCurrent, NodeInv, TypeOK
<1> QED BY <1>1, <1>3, <1>4, <1>5, <1>6, <1>7, Ended DEF Replies
LEMMA ContextDoneKeeps == ASSUME NodeInv, NEW o \in Ops, ContextDone(o) PROVE NodeInv'
<1>1. /\ gone \subseteq gone' /\ gone' \subseteq Ops /\ InFlight(o)
      /\ UNCHANGED <<static, dirs, current, unit, backup, loaded, running, pc, prev, rolled,
                     reply, faults, crashes>>
  BY DEF ContextDone, NodeInv, TypeOK
<1>2. ~Quiet'
  BY <1>1 DEF Quiet, InFlight
<1>3. UnitMatchesCurrent' /\ DeployedServes' /\ UndisturbedRollback'
  BY <1>2 DEF UnitMatchesCurrent, DeployedServes, UndisturbedRollback
<1> QED BY <1>1, <1>3 DEF NodeInv, TypeOK, InOrder, Directories, InFlight, StaticHasNoUnit, CurrentResolves,
                          ServedDirExists, SymlinkAt, ServiceAt, Units, UnitAt, Undisturbed

LEMMA AgentCrashKeeps == ASSUME NodeInv, AgentCrash PROVE NodeInv'
<1>1. /\ UNCHANGED <<static, dirs, current, unit, backup, loaded, running, prev, rolled, reply, gone, faults>>
      /\ crashes' = crashes + 1 /\ crashes' \in 0..MaxCrashes /\ crashes' # 0
  BY DEF AgentCrash, NodeInv, TypeOK
<1>2. \A p \in Ops : pc'[p] = IF InFlight(p) THEN "done" ELSE pc[p]
  BY DEF AgentCrash
<1>3. PICK o \in Ops : InFlight(o)
  BY DEF AgentCrash
<1>4. \A p \in Ops : pc'[p] \in {"idle", "done"} /\ (pc'[p] = "idle" <=> pc[p] = "idle")
                    /\ (pc[p] = "done" => pc'[p] = "done")
  BY <1>2 DEF InFlight
<1>5. TypeOK'
  <2>1. pc' \in [Ops -> Stages]
    BY DEF AgentCrash, NodeInv, TypeOK, Stages
  <2> QED BY <1>1, <2>1 DEF NodeInv, TypeOK
<1>6. InOrder'
  BY <1>4 DEF NodeInv, InOrder
<1>7. Directories'
  <2>1. \A p \in Ops : pc'[p] # "done" => pc[p] # "done"
    BY <1>4
  <2> QED BY <1>1, <1>4, <2>1 DEF NodeInv, Directories, InFlight
<1>8. StaticHasNoUnit'
  BY <1>1, <1>4 DEF NodeInv, StaticHasNoUnit
<1>9. CurrentResolves' /\ ServedDirExists' /\ UnitMatchesCurrent' /\ UndisturbedRollback' /\ Units'
  BY <1>1 DEF NodeInv, CurrentResolves, ServedDirExists, UnitMatchesCurrent, UndisturbedRollback, Units, Undisturbed
<1>10. \A p \in Ops : SymlinkAt(p)' /\ ServiceAt(p)'
  BY <1>4 DEF SymlinkAt, ServiceAt, BeforeSwitch, AfterSwitch
<1>11. DeployedServes'
  <2> SUFFICES ASSUME NEW p \in Ops, reply'[p] = "deployed", Last(p)' PROVE FALSE
    BY DEF DeployedServes
  <2>1. p # o
    BY <1>1, <1>3 DEF NodeInv, Directories, InFlight
  <2>2. p > o \/ o > p
    BY <2>1 DEF Ops
  <2>3. CASE o > p
    BY <2>3, <1>3, <1>4 DEF Last, InFlight
  <2>4. CASE p > o
    <3>1. pc[p] = "idle"
      BY <2>4, <1>3, Alone
    <3> QED BY <3>1, <1>4 DEF Last
  <2> QED BY <2>2, <2>3, <2>4
<1> QED BY <1>5, <1>6, <1>7, <1>8, <1>9, <1>10, <1>11 DEF NodeInv

LEMMA NodeStep == ASSUME NodeInv, Serial, [Next]_vars PROVE NodeInv'
<1>1. CASE UNCHANGED vars
  BY <1>1 DEF vars, NodeInv, TypeOK, InOrder, Directories, InFlight, StaticHasNoUnit, CurrentResolves,
              ServedDirExists, SymlinkAt, ServiceAt, Units, UnitAt, Undisturbed, UnitMatchesCurrent,
              DeployedServes, UndisturbedRollback, Quiet, Last
<1>2. ASSUME NEW o \in Ops, Start(o) PROVE NodeInv'
  BY <1>2, StartKeeps
<1>3. ASSUME NEW o \in Ops, Step(o) PROVE NodeInv'
  BY <1>3, GitFetchKeeps, BuildKeeps, BackupUnitKeeps, WriteUnitKeeps, ReloadKeeps, SwitchSymlinkKeeps,
     RestartKeeps, CheckAppHealthKeeps, RestoreLinkKeeps, RestoreUnitKeeps, RestoreServiceKeeps,
     PruneReleasesKeeps DEF Step
<1>4. ASSUME NEW o \in Ops, ContextDone(o) PROVE NodeInv'
  BY <1>4, ContextDoneKeeps
<1>5. CASE AgentCrash
  BY <1>5, AgentCrashKeeps
<1> QED BY <1>1, <1>2, <1>3, <1>4, <1>5 DEF Next, AllDone

\* The invariant of an agent whose operations do not overlap.
LEMMA NodeInvariant == ASSUME Serial PROVE Spec => []NodeInv
<1>1. NodeInv /\ [Next]_vars => NodeInv'
  BY NodeStep
<1> QED BY <1>1, NodeInit, PTL DEF Spec

\* The files of an application are sound (deploy.go:138-271), for any number of
\* operations, releases kept and faults: whatever fails or is canceled, the symlink
\* and the service have their directory, and the unit is the current release's. The
\* operations of an application must not overlap (Serial).
THEOREM FilesCorrect == ASSUME Serial PROVE Spec => []FilesAreSound
<1>1. NodeInv => FilesAreSound
  BY DEF NodeInv, FilesAreSound
<1> QED BY <1>1, NodeInvariant, PTL

\* The answers to the controller are true (deploy.go:194-271): deployed means that the
\* service runs the new release, rolled_back that the one before it is in force again.
THEOREM NodeAnswersCorrect == ASSUME Serial PROVE Spec => []AnswersAreTrue
<1>1. NodeInv => AnswersAreTrue
  BY DEF NodeInv, AnswersAreTrue
<1> QED BY <1>1, NodeInvariant, PTL
\* A deployed release is replaced only by a later one, by the switch of a later
\* operation (deploy.go:194): neither its rollback nor its cleanup moves the
\* symlink back behind it.
THEOREM DeployedIsNotUndone == ASSUME Serial PROVE Spec => DeployedStays
<1> DEFINE Stays == \A o \in Ops : reply[o] = "deployed" /\ current = o => current' >= o
<1>1. NodeInv /\ [Next]_vars => [Stays]_vars
  <2> SUFFICES ASSUME NodeInv, Next, NEW o \in Ops, reply[o] = "deployed", current = o PROVE current' >= o
    OBVIOUS
  <2>1. pc[o] = "done" /\ o >= o
    BY DEF NodeInv, Directories, Ops
  <2>2. ASSUME NEW p \in Ops, SwitchSymlink(p) PROVE current' >= o
    <3>1. pc[p] = "switch" /\ current' \in {current, p}
      BY <2>2 DEF SwitchSymlink
    <3>2. ~(p < o)
      BY <2>1, <3>1 DEF NodeInv, InOrder
    <3> QED BY <2>1, <3>1, <3>2 DEF Ops
  <2>3. ASSUME NEW p \in Ops, RestoreLink(p) PROVE FALSE
    <3>1. pc[p] = "relink" /\ current = p
      BY <2>3 DEF RestoreLink, NodeInv, SymlinkAt, AfterSwitch
    <3> QED BY <2>1, <3>1
  <2>4. ASSUME NEW p \in Ops, ~SwitchSymlink(p), ~RestoreLink(p), Start(p) \/ Step(p) \/ ContextDone(p)
        PROVE  current' = current
    BY <2>4 DEF Start, Step, ContextDone, GitFetch, Build, BackupUnit, WriteUnit, Reload, Restart, CheckAppHealth,
                RestoreUnit, RestoreService, PruneReleases
  <2> QED BY <2>1, <2>2, <2>3, <2>4 DEF Next, AgentCrash, AllDone, vars
<1> QED BY <1>1, NodeInvariant, PTL DEF Spec, DeployedStays

HIDE BoundsAssumption
HIDE KeepAssumption
HIDE OpsAssumption

-----------------------------------------------------------------------------
(***************************************************************************)
(* Sites: LiveConfigIsSound for any number of revisions, attempts and      *)
(* faults. One worker runs, and its job is the only one whose operation    *)
(* the node may begin, so unless an operation that was given up still runs *)
(* (an overlap) or the agent dies in one (a crash), what is in the backup  *)
(* is what was in service, and the file in place is accounted for.         *)
(***************************************************************************)

\* A handler runs while its job does, and there is one worker.
SiteWorkers ==
  /\ \A r \in SiteRevs : siteJob[r].at # "idle" <=> siteJob[r].state = "running"
  /\ \A q, r \in SiteRevs : siteJob[q].state = "running" /\ siteJob[r].state = "running" => q = r

\* One revision is applied, a job that succeeded has recorded its own, and there is no
\* job without a revision.
SiteRecords ==
  /\ \A q, r \in SiteRevs : siteRev[q].state = "applied" /\ siteRev[r].state = "applied" => q = r
  /\ \A r \in SiteRevs : siteJob[r].state = "succeeded" => siteRev[r].state \in {"applied", "superseded"}
  /\ \A r \in SiteRevs : siteRev[r].state = "absent" => siteJob[r].state = "none"

\* A job that has begun and has not succeeded.
Unrecorded == {"queued", "running", "failed"}

\* A file is nobody's, the applied revision's, or that of a job that is to answer for it.
Accounted(f) == f = AppliedRev \/ (f # 0 /\ siteJob[f].state \in Unrecorded)

Passed == siteTested \cup {0}

\* The node has switched and the worker is to record it.
Switched(r) == siteJob[r].at = "record" \/ (siteJob[r].at = "wait" /\ siteOp[r].answer = "applied")

\* What is in service while an operation runs, and where the operation is.
OperationSound(r) ==
  /\ \A q \in OpsRunning : q = r
  /\ siteJob[r].state \in Unrecorded
  /\ siteFiles.backup \in Passed /\ Accounted(siteFiles.backup)
  /\ siteOp[r].saved <=> siteFiles.backup # 0
  /\ siteOp[r].at = "write" => siteFiles.live = 0
  /\ siteOp[r].at \in {"test", "reload"} => siteFiles.live = r
  /\ siteOp[r].at = "reload" => r \in siteTested

SiteNodeSound ==
  /\ siteFiles.running \in Passed
  /\ OpsRunning = {} => siteFiles.live \in Passed /\ siteFiles.backup = 0 /\ Accounted(siteFiles.live)
  /\ \A r \in OpsRunning : OperationSound(r)
  /\ \A r \in SiteRevs : Switched(r) => siteFiles.live = r /\ OpsRunning = {}

\* A revision that is validated is not a draft again, so its operation begins once.
SiteOnce ==
  \A r \in SiteRevs :
    /\ siteRev[r].state \in {"absent", "draft"} => siteOp[r].at = "idle" /\ siteJob[r].at \notin {"switch", "wait", "record"}
    /\ siteJob[r].at = "switch" => siteOp[r].at = "idle"

SiteInv == SiteTypeOK /\ SiteWorkers /\ SiteRecords /\ SiteOnce /\ (siteHarm = {} => SiteNodeSound)
LEMMA SiteStarts == SiteInit => SiteInv
<1> USE SiteAssumption
<1> SUFFICES ASSUME SiteInit PROVE SiteInv
  OBVIOUS
<1>1. SiteTypeOK
  BY DEF SiteInit, SiteTypeOK, SiteRevs
<1>2. SiteWorkers /\ SiteRecords /\ SiteOnce
  BY DEF SiteInit, SiteWorkers, SiteRecords, SiteOnce
<1>3. SiteNodeSound
  BY DEF SiteInit, SiteNodeSound, Passed, OpsRunning, Accounted, AppliedRev, Switched
<1>. QED
  BY <1>1, <1>2, <1>3 DEF SiteInv

\* The applied revision is the one, if there is one.
LEMMA AppliedIsTheOne ==
  ASSUME SiteRecords
  PROVE  /\ AppliedRev = 0 \/ (AppliedRev \in SiteRevs /\ siteRev[AppliedRev].state = "applied")
         /\ \A r \in SiteRevs : siteRev[r].state = "applied" => AppliedRev = r
BY DEF AppliedRev, SiteRecords

LEMMA AppliedIsTheOneAfter ==
  ASSUME SiteRecords'
  PROVE  /\ AppliedRev' = 0 \/ (AppliedRev' \in SiteRevs /\ siteRev'[AppliedRev'].state = "applied")
         /\ \A r \in SiteRevs : siteRev'[r].state = "applied" => AppliedRev' = r
BY DEF AppliedRev, SiteRecords

\* A step after which the same revision is applied.
LEMMA AppliedStays ==
  ASSUME SiteRecords, SiteRecords', \A r \in SiteRevs : siteRev'[r].state = "applied" <=> siteRev[r].state = "applied"
  PROVE  AppliedRev' = AppliedRev
<1>1. 0 \notin SiteRevs
  BY DEF SiteRevs
<1>2. CASE AppliedRev = 0
  BY <1>1, <1>2, AppliedIsTheOne, AppliedIsTheOneAfter
<1>3. CASE AppliedRev # 0
  BY <1>3, AppliedIsTheOne, AppliedIsTheOneAfter
<1>. QED
  BY <1>2, <1>3

\* What is in service stays accounted for when its job goes on.
LEMMA AccountedStays ==
  ASSUME NEW f, AppliedRev' = AppliedRev, siteJob[f].state \in Unrecorded => siteJob'[f].state \in Unrecorded, Accounted(f)
  PROVE  f = AppliedRev' \/ (f # 0 /\ siteJob'[f].state \in Unrecorded)
BY DEF Accounted

\* A step of the controller: the node's files and operations are as they were.
WorkerOnly == UNCHANGED <<siteOp, siteFiles, siteTested, siteHarm>>

LEMMA WorkerKeeps ==
  ASSUME SiteInv, WorkerOnly, SiteTypeOK', SiteWorkers', SiteRecords', SiteOnce',
         \A r \in SiteRevs : siteRev'[r].state = "applied" <=> siteRev[r].state = "applied",
         \A r \in SiteRevs : siteJob[r].state \in Unrecorded => siteJob'[r].state \in Unrecorded,
         \A r \in SiteRevs : Switched(r)' => Switched(r)
  PROVE  SiteInv'
<1>1. AppliedRev' = AppliedRev
  BY AppliedStays DEF SiteInv
<1>2. OpsRunning' = OpsRunning /\ Passed' = Passed
  BY DEF WorkerOnly, OpsRunning, Passed
<1>3. ASSUME siteHarm' = {} PROVE SiteNodeSound'
  <2>0. SiteNodeSound /\ siteOp' = siteOp /\ siteFiles' = siteFiles /\ siteTested' = siteTested
    BY <1>3 DEF SiteInv, WorkerOnly
  <2>1. siteFiles.live \in 0 .. MaxSiteRevs /\ siteFiles.backup \in 0 .. MaxSiteRevs
    BY DEF SiteInv, SiteTypeOK
  <2>2. ASSUME NEW f \in 0 .. MaxSiteRevs, Accounted(f)
        PROVE  f = AppliedRev' \/ (f # 0 /\ siteJob'[f].state \in Unrecorded)
    <3>1. CASE f = 0
      BY <1>1, <2>2, <3>1 DEF Accounted
    <3>2. CASE f # 0
      <4>1. f \in SiteRevs
        BY <2>2, <3>2, SiteAssumption DEF SiteRevs
      <4>. QED
        BY <4>1, <1>1, <2>2 DEF Accounted
    <3>. QED
      BY <3>1, <3>2
  <2>3. Accounted(siteFiles.live) => Accounted(siteFiles.live)'
    BY <2>0, <2>1, <2>2 DEF Accounted
  <2>4. Accounted(siteFiles.backup) => Accounted(siteFiles.backup)'
    BY <2>0, <2>1, <2>2 DEF Accounted
  <2>5. ASSUME NEW r \in OpsRunning PROVE OperationSound(r)'
    <3>1. OperationSound(r) /\ r \in SiteRevs
      BY <2>0 DEF SiteNodeSound, OpsRunning
    <3>. QED
      BY <3>1, <2>0, <2>4, <1>2 DEF OperationSound
  <2>. QED
    BY <2>0, <2>3, <2>5, <1>2 DEF SiteNodeSound
<1>. QED
  BY <1>3 DEF SiteInv

SiteJobs ==
  [state : {"none", "queued", "running", "succeeded", "failed"}, tries : 0 .. MaxSiteAttempts,
   at : {"idle", "validate", "mark", "switch", "wait", "record"}]
SiteRevisions ==
  [state : {"absent", "draft", "validated", "applied", "failed", "superseded"},
   config : SiteConfigs \cup {0}, base : 0 .. MaxSiteRevs]

LEMMA SiteTypes ==
  ASSUME SiteTypeOK
  PROVE  /\ siteRev \in [SiteRevs -> SiteRevisions] /\ siteJob \in [SiteRevs -> SiteJobs]
         /\ \A r \in SiteRevs : siteRev[r] \in SiteRevisions /\ siteJob[r] \in SiteJobs
BY DEF SiteTypeOK, SiteRevisions, SiteJobs

\* The types after a step of the controller.
LEMMA SiteTypesAfter ==
  ASSUME SiteTypeOK, WorkerOnly, siteRow' \in [state : {"active", "deleted"}, applied : 0 .. MaxSiteRevs],
         siteRev' \in [SiteRevs -> SiteRevisions], siteJob' \in [SiteRevs -> SiteJobs],
         siteFaults' = siteFaults \/ SiteFault, siteActorOk' = siteActorOk
  PROVE  SiteTypeOK'
<1>1. siteFaults' \in 0 .. MaxSiteFaults
  BY SiteAssumption DEF SiteTypeOK, SiteFault
<1>. QED
  BY <1>1 DEF SiteTypeOK, WorkerOnly, SiteRevisions, SiteJobs

\* The worker takes a job up, or moves the one that it runs, and that job has not
\* succeeded by it.
JobMoves(r, job) ==
  /\ siteJob' = [siteJob EXCEPT ![r] = job]
  /\ job.at # "idle" <=> job.state = "running"
  /\ job.state \in Unrecorded
  /\ job.state = "running" => siteJob[r].state = "running" \/ WorkerIdle

LEMMA JobMovesKeep ==
  ASSUME SiteInv, NEW r \in SiteRevs, NEW job, JobMoves(r, job), siteJob' \in [SiteRevs -> SiteJobs]
  PROVE  /\ SiteWorkers' /\ siteJob'[r] = job /\ \A q \in SiteRevs : q # r => siteJob'[q] = siteJob[q]
         /\ \A q \in SiteRevs : siteJob[q].state \in Unrecorded => siteJob'[q].state \in Unrecorded
         /\ \A q \in SiteRevs : siteJob'[q].state = "succeeded" => siteJob[q].state = "succeeded"
<1>1. siteJob'[r] = job /\ \A q \in SiteRevs : q # r => siteJob'[q] = siteJob[q]
  BY DEF SiteInv, SiteTypeOK, JobMoves
<1>2. SiteWorkers'
  BY <1>1 DEF SiteInv, SiteWorkers, JobMoves, WorkerIdle
<1>3. job.state # "succeeded"
  BY DEF JobMoves, Unrecorded
<1>. QED
  BY <1>1, <1>2, <1>3 DEF JobMoves
\* A step that moves the job of r and one revision's state, neither into nor out of applied.
LEMMA MoveKeeps ==
  ASSUME SiteInv, WorkerOnly, siteRow' = siteRow, siteActorOk' = siteActorOk, siteFaults' = siteFaults \/ SiteFault,
         NEW r \in SiteRevs, NEW job \in SiteJobs, JobMoves(r, job), siteJob[r].state # "none",
         NEW st \in {"absent", "draft", "validated", "applied", "failed", "superseded"},
         siteRev' = [siteRev EXCEPT ![r].state = st], st = siteRev[r].state \/ (st \in {"validated", "failed"} /\ siteRev[r].state \in {"draft", "validated"}),
         job.at = "record" => Switched(r), job.at = "wait" => siteJob[r].at = "wait",
         job.at = "switch" => siteRev[r].state = "draft" /\ st = "validated"
  PROVE  SiteInv'
<1>1. siteRev \in [SiteRevs -> SiteRevisions] /\ siteJob \in [SiteRevs -> SiteJobs] /\ SiteTypeOK
  BY SiteTypes DEF SiteInv
<1>2. siteJob' \in [SiteRevs -> SiteJobs]
  BY <1>1 DEF JobMoves
<1>3. /\ siteRev'[r].state = st /\ \A q \in SiteRevs : q # r => siteRev'[q] = siteRev[q]
  BY <1>1 DEF SiteRevisions
<1>4. siteRev' \in [SiteRevs -> SiteRevisions]
  BY <1>1 DEF SiteRevisions
<1>5. SiteTypeOK'
  BY <1>1, <1>2, <1>4, SiteTypesAfter DEF SiteTypeOK
<1>6. /\ SiteWorkers' /\ siteJob'[r] = job /\ (\A q \in SiteRevs : q # r => siteJob'[q] = siteJob[q])
      /\ (\A q \in SiteRevs : siteJob[q].state \in Unrecorded => siteJob'[q].state \in Unrecorded)
      /\ \A q \in SiteRevs : siteJob'[q].state = "succeeded" => siteJob[q].state = "succeeded"
  BY <1>2, JobMovesKeep
<1>7. \A q \in SiteRevs : siteRev'[q].state = "applied" <=> siteRev[q].state = "applied"
  BY <1>3
<1>8. SiteRecords'
  <2>1. \A q \in SiteRevs : siteRev[q].state \in {"applied", "superseded"} => siteRev'[q].state \in {"applied", "superseded"}
    BY <1>3
  <2>2. \A q, p \in SiteRevs : siteRev'[q].state = "applied" /\ siteRev'[p].state = "applied" => q = p
    BY <1>7 DEF SiteInv, SiteRecords
  <2>3. \A q \in SiteRevs : siteJob'[q].state = "succeeded" => siteRev'[q].state \in {"applied", "superseded"}
    BY <1>6, <2>1 DEF SiteInv, SiteRecords
  <2>4. siteRev'[r].state # "absent"
    BY <1>3 DEF SiteInv, SiteRecords
  <2>5. ASSUME NEW q \in SiteRevs, siteRev'[q].state = "absent" PROVE siteJob'[q].state = "none"
    BY <2>4, <2>5, <1>3, <1>6 DEF SiteInv, SiteRecords
  <2>. QED
    BY <2>2, <2>3, <2>5 DEF SiteRecords
<1>9. ASSUME NEW q \in SiteRevs, Switched(q)' PROVE Switched(q)
  <2>1. CASE q = r
    BY <1>6, <1>9, <2>1 DEF Switched, WorkerOnly
  <2>2. CASE q # r
    BY <1>6, <1>9, <2>2 DEF Switched, WorkerOnly
  <2>. QED
    BY <2>1, <2>2
<1>10. SiteOnce'
  <2> SUFFICES ASSUME NEW q \in SiteRevs
               PROVE  /\ siteRev'[q].state \in {"absent", "draft"} =>
                            siteOp[q].at = "idle" /\ siteJob'[q].at \notin {"switch", "wait", "record"}
                      /\ siteJob'[q].at = "switch" => siteOp[q].at = "idle"
    BY DEF SiteOnce, WorkerOnly
  <2>1. /\ siteRev[q].state \in {"absent", "draft"} => siteOp[q].at = "idle" /\ siteJob[q].at \notin {"switch", "wait", "record"}
        /\ siteJob[q].at = "switch" => siteOp[q].at = "idle"
    BY DEF SiteInv, SiteOnce
  <2>2. CASE q # r
    BY <2>1, <2>2, <1>3, <1>6
  <2>3. CASE q = r
    BY <2>1, <2>3, <1>3, <1>6 DEF Switched
  <2>. QED
    BY <2>2, <2>3
<1>. QED
  BY <1>5, <1>6, <1>7, <1>8, <1>9, <1>10, WorkerKeeps

\* The job of r has ended or waits for its turn.
Stopped(r, state) == [siteJob[r] EXCEPT !.state = state, !.at = "idle"]

LEMMA StopMoves ==
  ASSUME SiteInv, NEW r \in SiteRevs, NEW state \in {"queued", "failed"},
         siteJob' = [siteJob EXCEPT ![r].state = state, ![r].at = "idle"]
  PROVE  JobMoves(r, Stopped(r, state)) /\ Stopped(r, state) \in SiteJobs /\ Stopped(r, state).at = "idle"
<1>1. siteJob[r] \in SiteJobs /\ siteJob \in [SiteRevs -> SiteJobs]
  BY SiteTypes DEF SiteInv
<1>2. /\ Stopped(r, state) \in SiteJobs /\ Stopped(r, state).at = "idle" /\ Stopped(r, state).state = state
  BY <1>1 DEF Stopped, SiteJobs
<1>3. siteJob' = [siteJob EXCEPT ![r] = Stopped(r, state)]
  BY <1>1 DEF Stopped
<1>. QED
  BY <1>2, <1>3 DEF JobMoves, Unrecorded

\* The job of r goes on to another step.
Going(r, at) == [siteJob[r] EXCEPT !.at = at]

LEMMA GoMoves ==
  ASSUME SiteInv, NEW r \in SiteRevs, NEW at \in {"mark", "switch", "wait", "record"}, siteJob[r].at # "idle",
         siteJob' = [siteJob EXCEPT ![r].at = at]
  PROVE  JobMoves(r, Going(r, at)) /\ Going(r, at) \in SiteJobs /\ Going(r, at).at = at
<1>1. siteJob[r] \in SiteJobs /\ siteJob \in [SiteRevs -> SiteJobs] /\ siteJob[r].state = "running"
  BY SiteTypes DEF SiteInv, SiteWorkers
<1>2. /\ Going(r, at) \in SiteJobs /\ Going(r, at).at = at /\ Going(r, at).state = "running"
  BY <1>1 DEF Going, SiteJobs
<1>3. siteJob' = [siteJob EXCEPT ![r] = Going(r, at)]
  BY <1>1 DEF Going
<1>. QED
  BY <1>1, <1>2, <1>3 DEF JobMoves, Unrecorded

LEMMA SameRevision ==
  ASSUME SiteInv, NEW r \in SiteRevs
  PROVE  siteRev = [siteRev EXCEPT ![r].state = siteRev[r].state]
         /\ siteRev[r].state \in {"absent", "draft", "validated", "applied", "failed", "superseded"}
<1>1. siteRev \in [SiteRevs -> SiteRevisions] /\ siteRev[r] \in SiteRevisions
  BY SiteTypes DEF SiteInv
<1>2. siteRev[r] = [siteRev[r] EXCEPT !.state = siteRev[r].state]
  BY <1>1 DEF SiteRevisions
<1>. QED
  BY <1>1, <1>2 DEF SiteRevisions

LEMMA ApplyConfigKeeps ==
  ASSUME SiteInv, NEW r \in SiteRevs, NEW c \in SiteConfigs, NEW b \in SiteRevs \cup {0}, ApplyConfig(r, c, b)
  PROVE  SiteInv'
<1>1. siteRev \in [SiteRevs -> SiteRevisions] /\ siteJob \in [SiteRevs -> SiteJobs] /\ siteJob[r] \in SiteJobs /\ SiteTypeOK /\ SiteRecords
  BY SiteTypes DEF SiteInv
<1>2. AppliedRev \in 0 .. MaxSiteRevs /\ b \in 0 .. MaxSiteRevs
  BY <1>1, AppliedIsTheOne, SiteAssumption DEF SiteRevs
<1> PICK new : new = [state |-> "draft", config |-> c, base |-> IF b = 0 THEN AppliedRev ELSE b]
  OBVIOUS
<1>3. new \in SiteRevisions /\ new.state = "draft"
  BY <1>2 DEF SiteRevisions
<1>4. siteRev' = [siteRev EXCEPT ![r] = new] /\ siteRev[r].state = "absent" /\ WorkerOnly /\ siteRow' = siteRow
      /\ siteActorOk' = siteActorOk
  BY DEF ApplyConfig, WorkerOnly
<1>5. siteRev'[r] = new /\ siteRev' \in [SiteRevs -> SiteRevisions] /\ \A q \in SiteRevs : q # r => siteRev'[q] = siteRev[q]
  BY <1>1, <1>3, <1>4
<1> PICK job : job = [siteJob[r] EXCEPT !.state = "queued"]
  OBVIOUS
<1>6. job \in SiteJobs /\ job.state = "queued" /\ job.at = siteJob[r].at
  BY <1>1 DEF SiteJobs
<1>7. siteJob' = siteJob \/ siteJob' = [siteJob EXCEPT ![r] = job]
  <2>1. [siteJob EXCEPT ![r].state = "queued"] = [siteJob EXCEPT ![r] = job]
    BY <1>1
  <2>. QED
    BY <2>1 DEF ApplyConfig
<1>8. siteJob[r].state = "none" /\ siteJob[r].at = "idle"
  BY <1>4, <1>1 DEF SiteInv, SiteRecords, SiteWorkers
<1>9. /\ siteJob' \in [SiteRevs -> SiteJobs] /\ (\A q \in SiteRevs : q # r => siteJob'[q] = siteJob[q])
      /\ siteJob'[r].at = "idle" /\ siteJob'[r].state \in {"none", "queued"}
  BY <1>1, <1>6, <1>7, <1>8
<1>10. siteFaults' = siteFaults \/ SiteFault
  BY DEF ApplyConfig, SiteFault
<1>11. SiteTypeOK'
  BY <1>1, <1>4, <1>5, <1>9, <1>10, SiteTypesAfter DEF SiteTypeOK
<1>12. SiteWorkers'
  BY <1>9 DEF SiteInv, SiteWorkers
<1>13. \A q \in SiteRevs : siteRev'[q].state = "applied" <=> siteRev[q].state = "applied"
  BY <1>3, <1>4, <1>5
<1>14. SiteRecords'
  <2>1. \A q, p \in SiteRevs : siteRev'[q].state = "applied" /\ siteRev'[p].state = "applied" => q = p
    BY <1>1, <1>13 DEF SiteRecords
  <2>2. \A q \in SiteRevs : siteJob'[q].state = "succeeded" => siteRev'[q].state \in {"applied", "superseded"}
    BY <1>1, <1>5, <1>9 DEF SiteRecords
  <2>3. \A q \in SiteRevs : siteRev'[q].state = "absent" => siteJob'[q].state = "none"
    BY <1>1, <1>3, <1>5, <1>9 DEF SiteRecords
  <2>. QED
    BY <2>1, <2>2, <2>3 DEF SiteRecords
<1>15. \A q \in SiteRevs : siteJob[q].state \in Unrecorded => siteJob'[q].state \in Unrecorded
  BY <1>8, <1>9 DEF Unrecorded
<1>16. ASSUME NEW q \in SiteRevs, Switched(q)' PROVE Switched(q)
  BY <1>4, <1>9, <1>16 DEF Switched, WorkerOnly
<1>17. SiteOnce'
  <2>1. siteOp' = siteOp
    BY <1>4 DEF WorkerOnly
  <2>2. ASSUME NEW q \in SiteRevs
        PROVE  /\ siteRev'[q].state \in {"absent", "draft"} =>
                     siteOp[q].at = "idle" /\ siteJob'[q].at \notin {"switch", "wait", "record"}
               /\ siteJob'[q].at = "switch" => siteOp[q].at = "idle"
    BY <1>4, <1>5, <1>9 DEF SiteInv, SiteOnce
  <2>. QED
    BY <2>1, <2>2 DEF SiteOnce
<1>. QED
  BY <1>4, <1>11, <1>12, <1>13, <1>14, <1>15, <1>16, <1>17, WorkerKeeps

LEMMA DeleteSiteKeeps == ASSUME SiteInv, DeleteSite PROVE SiteInv'
<1>1. siteJob' = siteJob /\ siteRev' = siteRev /\ WorkerOnly /\ siteFaults' = siteFaults /\ siteActorOk' = siteActorOk
  BY DEF DeleteSite, WorkerOnly
<1>2. siteRow' \in [state : {"active", "deleted"}, applied : 0 .. MaxSiteRevs]
  BY DEF DeleteSite, SiteInv, SiteTypeOK
<1>3. SiteTypeOK'
  BY <1>1, <1>2, SiteTypes, SiteTypesAfter DEF SiteInv
<1>4. SiteWorkers' /\ SiteRecords' /\ SiteOnce'
  BY <1>1 DEF SiteInv, SiteWorkers, SiteRecords, SiteOnce, WorkerOnly
<1>5. \A q \in SiteRevs : Switched(q)' => Switched(q)
  BY <1>1 DEF Switched, WorkerOnly
<1>. QED
  BY <1>1, <1>3, <1>4, <1>5, WorkerKeeps

LEMMA StartSiteJobKeeps == ASSUME SiteInv, NEW r \in SiteRevs, StartSiteJob(r) PROVE SiteInv'
<1>1. siteJob[r] \in SiteJobs /\ siteJob[r].state = "queued"
  BY SiteTypes DEF SiteInv, StartSiteJob
<1> PICK job : job = [state |-> "running", tries |-> siteJob[r].tries + 1, at |-> "validate"]
  OBVIOUS
<1>2. job \in SiteJobs /\ job.state = "running" /\ job.at = "validate"
  BY <1>1, SiteAssumption DEF SiteJobs, StartSiteJob
<1>3. JobMoves(r, job)
  BY <1>2 DEF JobMoves, StartSiteJob, Unrecorded
<1>4. WorkerOnly /\ siteRow' = siteRow /\ siteActorOk' = siteActorOk /\ siteFaults' = siteFaults /\ siteRev' = siteRev
  BY DEF StartSiteJob, WorkerOnly
<1>. QED
  BY <1>1, <1>2, <1>3, <1>4, SameRevision, MoveKeeps

LEMMA ValidateStepKeeps == ASSUME SiteInv, NEW r \in SiteRevs, ValidateStep(r) PROVE SiteInv'
<1>1. /\ WorkerOnly /\ siteRow' = siteRow /\ siteActorOk' = siteActorOk /\ siteRev' = siteRev
      /\ siteFaults' = siteFaults \/ SiteFault
  BY DEF ValidateStep, WorkerOnly
<1>2. siteJob[r].at = "validate" /\ siteJob[r].state # "none"
  BY DEF ValidateStep, SiteInv, SiteWorkers
<1>3. CASE siteJob' = [siteJob EXCEPT ![r].at = "mark"]
  BY ZenonT(60), <1>1, <1>2, <1>3, GoMoves, SameRevision, MoveKeeps
<1>4. CASE siteJob' = [siteJob EXCEPT ![r].state = "failed", ![r].at = "idle"]
  BY <1>1, <1>2, <1>4, StopMoves, SameRevision, MoveKeeps
<1>. QED
  BY <1>3, <1>4 DEF ValidateStep, FailSiteJob

LEMMA MarkStepKeeps == ASSUME SiteInv, NEW r \in SiteRevs, MarkStep(r) PROVE SiteInv'
<1>1. /\ WorkerOnly /\ siteRow' = siteRow /\ siteActorOk' = siteActorOk /\ siteFaults' = siteFaults
  BY DEF MarkStep, WorkerOnly
<1>2. siteJob[r].at = "mark" /\ siteJob[r].state # "none"
  BY DEF MarkStep, SiteInv, SiteWorkers
<1>3. CASE /\ siteRev[r].state = "draft" /\ siteRev' = [siteRev EXCEPT ![r].state = "validated"]
           /\ siteJob' = [siteJob EXCEPT ![r].at = "switch"]
  BY <1>1, <1>2, <1>3, GoMoves, MoveKeeps
<1>4. CASE siteJob' = [siteJob EXCEPT ![r].state = "failed", ![r].at = "idle"] /\ siteRev' = siteRev
  BY <1>1, <1>2, <1>4, StopMoves, SameRevision, MoveKeeps
<1>. QED
  BY <1>3, <1>4 DEF MarkStep, FailSiteJob

LEMMA WorkerDiesKeeps == ASSUME SiteInv, NEW r \in SiteRevs, WorkerDies(r) PROVE SiteInv'
<1>1. /\ WorkerOnly /\ siteRow' = siteRow /\ siteActorOk' = siteActorOk /\ siteRev' = siteRev
      /\ siteFaults' = siteFaults \/ SiteFault
  BY DEF WorkerDies, WorkerOnly
<1>2. siteJob[r].state # "none"
  BY DEF WorkerDies
<1> PICK st \in {"queued", "failed"} : st = IF siteJob[r].tries < MaxSiteAttempts THEN "queued" ELSE "failed"
  OBVIOUS
<1>3. siteJob' = [siteJob EXCEPT ![r].state = st, ![r].at = "idle"]
  <2>1. siteJob \in [SiteRevs -> SiteJobs]
    BY SiteTypes DEF SiteInv
  <2>2. siteJob' = [siteJob EXCEPT ![r].at = "idle", ![r].state = st]
    BY DEF WorkerDies
  <2>. QED
    BY <2>1, <2>2 DEF SiteJobs
<1>. QED
  BY <1>1, <1>2, <1>3, StopMoves, SameRevision, MoveKeeps

LEMMA SwitchStepKeeps == ASSUME SiteInv, NEW r \in SiteRevs, SwitchStep(r) PROVE SiteInv'
<1>1. /\ WorkerOnly /\ siteRow' = siteRow /\ siteActorOk' = siteActorOk
      /\ siteFaults' = siteFaults \/ SiteFault
  BY DEF SwitchStep, WorkerOnly
<1>2. siteJob[r].at = "wait" /\ siteJob[r].state # "none"
  BY DEF SwitchStep, SiteInv, SiteWorkers
<1>3. CASE siteJob' = [siteJob EXCEPT ![r].at = "record"] /\ siteRev' = siteRev /\ siteOp[r].answer = "applied"
  <2>1. Switched(r)
    BY <1>2, <1>3 DEF Switched
  <2>. QED
    BY <1>1, <1>2, <1>3, <2>1, GoMoves, SameRevision, MoveKeeps
<1>4. CASE SwitchFailed(r)
  <2>1. siteJob' = [siteJob EXCEPT ![r].state = "failed", ![r].at = "idle"]
    BY <1>4 DEF SwitchFailed, FailSiteJob
  <2> PICK st : st = IF siteRev[r].state = "validated" THEN "failed" ELSE siteRev[r].state
    OBVIOUS
  <2>2. siteRev' = [siteRev EXCEPT ![r].state = st]
    BY <1>4 DEF SwitchFailed
  <2>3. st \in {"absent", "draft", "validated", "applied", "failed", "superseded"}
        /\ (st = siteRev[r].state \/ (st \in {"validated", "failed"} /\ siteRev[r].state \in {"draft", "validated"}))
    BY SameRevision
  <2>. QED
    BY <1>1, <1>2, <2>1, <2>2, <2>3, StopMoves, MoveKeeps
<1>. QED
  BY <1>3, <1>4 DEF SwitchStep

\* The revision is recorded while what its operation put in place is in service.
LEMMA RecordStepKeeps == ASSUME SiteInv, NEW r \in SiteRevs, RecordStep(r) PROVE SiteInv'
<1>1. WorkerOnly /\ siteActorOk' = siteActorOk /\ (siteFaults' = siteFaults \/ SiteFault)
  BY DEF RecordStep, WorkerOnly
<1>2. siteJob[r].at = "record" /\ siteJob[r].state = "running"
  BY DEF RecordStep, SiteInv, SiteWorkers
<1>3. siteRev \in [SiteRevs -> SiteRevisions] /\ siteJob \in [SiteRevs -> SiteJobs] /\ siteJob[r] \in SiteJobs /\ SiteTypeOK /\ SiteRecords
  BY SiteTypes DEF SiteInv
<1>4. CASE siteJob' = [siteJob EXCEPT ![r].state = "failed", ![r].at = "idle"] /\ siteRev' = siteRev /\ siteRow' = siteRow
  BY ZenonT(60), <1>1, <1>2, <1>4, StopMoves, SameRevision, MoveKeeps
<1>5. CASE /\ ApplyAllowed(r)
           /\ siteRev' = [q \in SiteRevs |->
                CASE q = r -> [siteRev[q] EXCEPT !.state = "applied"]
                  [] q # r /\ q = AppliedRev -> [siteRev[q] EXCEPT !.state = "superseded"]
                  [] OTHER -> siteRev[q]]
           /\ siteJob' = [siteJob EXCEPT ![r].state = "succeeded", ![r].at = "idle"]
           /\ siteRow' = siteRow \/ siteRow' = [siteRow EXCEPT !.applied = IF siteRow.state # "deleted" THEN r ELSE @]
  <2> PICK job : job = [siteJob[r] EXCEPT !.state = "succeeded", !.at = "idle"]
    OBVIOUS
  <2>1. job \in SiteJobs /\ job.state = "succeeded" /\ job.at = "idle"
    BY <1>3 DEF SiteJobs
  <2>2. siteJob' = [siteJob EXCEPT ![r] = job]
    BY <1>3, <1>5
  <2>3. siteJob' \in [SiteRevs -> SiteJobs] /\ siteJob'[r] = job /\ \A q \in SiteRevs : q # r => siteJob'[q] = siteJob[q]
    BY <1>3, <2>1, <2>2
  <2>4. ASSUME NEW q \in SiteRevs
        PROVE  /\ siteRev'[q] \in SiteRevisions
               /\ q = r => siteRev'[q].state = "applied"
               /\ q # r => siteRev'[q].state = IF q = AppliedRev THEN "superseded" ELSE siteRev[q].state
    <3>0. siteRev[q] \in SiteRevisions
      BY <1>3
    <3>1. CASE q = r
      <4>1. siteRev'[q] = [siteRev[q] EXCEPT !.state = "applied"]
        BY <1>5, <3>1
      <4>. QED
        BY <3>0, <3>1, <4>1 DEF SiteRevisions
    <3>2. CASE q # r /\ q = AppliedRev
      <4>1. siteRev'[q] = [siteRev[q] EXCEPT !.state = "superseded"]
        BY <1>5, <3>2
      <4>. QED
        BY <3>0, <3>2, <4>1 DEF SiteRevisions
    <3>3. CASE q # r /\ q # AppliedRev
      <4>1. siteRev'[q] = siteRev[q]
        BY <1>5, <3>3
      <4>. QED
        BY <3>0, <3>3, <4>1
    <3>. QED
      BY <3>1, <3>2, <3>3
  <2>5. siteRev' \in [SiteRevs -> SiteRevisions]
    <3>1. siteRev' = [q \in SiteRevs |-> siteRev'[q]]
      BY <1>5
    <3>. QED
      BY <2>4, <3>1
  <2>6. siteRow' \in [state : {"active", "deleted"}, applied : 0 .. MaxSiteRevs]
    <3>1. r \in 0 .. MaxSiteRevs /\ siteRow \in [state : {"active", "deleted"}, applied : 0 .. MaxSiteRevs]
      BY <1>3, SiteAssumption DEF SiteRevs, SiteTypeOK
    <3>. QED
      BY <3>1, <1>5
  <2>7. SiteTypeOK'
    BY <1>1, <1>3, <2>3, <2>5, <2>6, SiteTypesAfter
  <2>8. SiteWorkers'
    BY ZenonT(60), <2>1, <2>3 DEF SiteInv, SiteWorkers
  <2>9. \A q \in SiteRevs : siteRev'[q].state = "applied" => q = r
    <3>1. \A q \in SiteRevs : siteRev[q].state = "applied" => q = AppliedRev
      BY <1>3, AppliedIsTheOne
    <3>. QED
      BY <2>4, <3>1
  <2>10. SiteRecords'
    <3>1. \A q \in SiteRevs : siteJob'[q].state = "succeeded" => siteRev'[q].state \in {"applied", "superseded"}
      BY <1>3, <2>3, <2>4 DEF SiteRecords
    <3>2. \A q \in SiteRevs : siteRev'[q].state = "absent" => siteJob'[q].state = "none"
      BY <1>3, <2>3, <2>4 DEF SiteRecords
    <3>. QED
      BY <2>9, <3>1, <3>2 DEF SiteRecords
  <2>11. AppliedRev' = r
    BY <2>4, <2>10, AppliedIsTheOneAfter
  <2>12. ASSUME siteHarm' = {} PROVE SiteNodeSound'
    <3>1. SiteNodeSound /\ siteOp' = siteOp /\ siteFiles' = siteFiles /\ siteTested' = siteTested
      BY <1>1, <2>12 DEF SiteInv, WorkerOnly
    <3>2. siteFiles.live = r /\ OpsRunning = {}
      BY <1>2, <3>1 DEF SiteNodeSound, Switched
    <3>3. OpsRunning' = {} /\ Passed' = Passed
      BY <3>1, <3>2 DEF OpsRunning, Passed
    <3>4. Accounted(siteFiles.live)'
      BY <2>11, <3>1, <3>2 DEF Accounted
    <3>5. ASSUME NEW q \in SiteRevs PROVE ~Switched(q)'
      <4>1. siteJob'[q].state # "running"
        BY <1>2, <2>1, <2>3 DEF SiteInv, SiteWorkers
      <4>2. siteJob'[q].at = "idle"
        BY <4>1, <2>8 DEF SiteWorkers
      <4>. QED
        BY <4>2 DEF Switched
    <3>. QED
      BY <3>1, <3>2, <3>3, <3>4, <3>5 DEF SiteNodeSound
  <2>13. SiteOnce'
    <3>1. siteOp' = siteOp
      BY <1>1 DEF WorkerOnly
    <3>2. ASSUME NEW q \in SiteRevs
          PROVE  /\ siteRev'[q].state \in {"absent", "draft"} =>
                       siteOp[q].at = "idle" /\ siteJob'[q].at \notin {"switch", "wait", "record"}
                 /\ siteJob'[q].at = "switch" => siteOp[q].at = "idle"
      <4>1. CASE q = r
        BY <2>1, <2>3, <2>4, <4>1
      <4>2. CASE q # r
        BY <2>3, <2>4, <4>2 DEF SiteInv, SiteOnce
      <4>. QED
        BY <4>1, <4>2
    <3>. QED
      BY <3>1, <3>2 DEF SiteOnce
  <2>. QED
    BY <2>7, <2>8, <2>10, <2>12, <2>13 DEF SiteInv
<1>6. (siteJob' = [siteJob EXCEPT ![r].state = "failed", ![r].at = "idle"] /\ siteRev' = siteRev /\ siteRow' = siteRow)
      \/ (/\ ApplyAllowed(r)
          /\ siteRev' = [q \in SiteRevs |->
                CASE q = r -> [siteRev[q] EXCEPT !.state = "applied"]
                  [] q # r /\ q = AppliedRev -> [siteRev[q] EXCEPT !.state = "superseded"]
                  [] OTHER -> siteRev[q]]
          /\ siteJob' = [siteJob EXCEPT ![r].state = "succeeded", ![r].at = "idle"]
          /\ (siteRow' = siteRow \/ siteRow' = [siteRow EXCEPT !.applied = IF siteRow.state # "deleted" THEN r ELSE @]))
  BY DEF RecordStep, RecordFails, FailSiteJob
<1>. QED
  BY <1>4, <1>5, <1>6
SiteOperations ==
  [at : {"idle", "write", "test", "reload"}, saved : BOOLEAN, answer : {"none", "applied", "rolled_back", "error"}]
SiteFileSets == [live : 0 .. MaxSiteRevs, backup : 0 .. MaxSiteRevs, running : 0 .. MaxSiteRevs]

\* A step of the node in the operation of r, which leaves it as op and the files as files.
NodeMoves(r, op, files) ==
  /\ siteOp' = [siteOp EXCEPT ![r] = op] /\ siteFiles' = files
  /\ siteRow' = siteRow /\ siteRev' = siteRev /\ siteActorOk' = siteActorOk
  /\ siteFaults' = siteFaults \/ SiteFault
  /\ siteHarm \subseteq siteHarm' /\ siteHarm' \subseteq {"overlap", "crash"}
  /\ siteTested \subseteq siteTested' /\ siteTested' \subseteq 0 .. MaxSiteRevs

LEMMA NodeTypes ==
  ASSUME SiteTypeOK, NEW r \in SiteRevs, NEW op \in SiteOperations, NEW files \in SiteFileSets, NodeMoves(r, op, files),
         siteJob' \in [SiteRevs -> SiteJobs]
  PROVE  /\ SiteTypeOK' /\ siteOp'[r] = op /\ \A q \in SiteRevs : q # r => siteOp'[q] = siteOp[q]
         /\ OpsRunning' = IF op.at = "idle" THEN OpsRunning \ {r} ELSE OpsRunning \cup {r}
<1>1. siteOp \in [SiteRevs -> SiteOperations]
  BY DEF SiteTypeOK, SiteOperations
<1>2. siteOp' \in [SiteRevs -> SiteOperations] /\ siteOp'[r] = op /\ \A q \in SiteRevs : q # r => siteOp'[q] = siteOp[q]
  BY <1>1 DEF NodeMoves
<1>3. siteFaults' \in 0 .. MaxSiteFaults
  BY SiteAssumption DEF SiteTypeOK, SiteFault, NodeMoves
<1>4. SiteTypeOK'
  BY <1>2, <1>3 DEF SiteTypeOK, NodeMoves, SiteOperations, SiteJobs, SiteFileSets
<1>5. OpsRunning' = IF op.at = "idle" THEN OpsRunning \ {r} ELSE OpsRunning \cup {r}
  BY <1>2 DEF OpsRunning
<1>. QED
  BY <1>2, <1>4, <1>5

LEMMA NodeFacts ==
  ASSUME SiteInv, NEW r \in SiteRevs
  PROVE  siteOp[r] \in SiteOperations /\ siteFiles \in SiteFileSets /\ siteJob \in [SiteRevs -> SiteJobs] /\ r \in 0 .. MaxSiteRevs /\ r # 0
<1>1. siteOp[r] \in SiteOperations /\ siteFiles \in SiteFileSets
  BY DEF SiteInv, SiteTypeOK, SiteOperations, SiteFileSets
<1>2. siteJob \in [SiteRevs -> SiteJobs]
  BY SiteTypes DEF SiteInv
<1>. QED
  BY <1>1, <1>2, SiteAssumption DEF SiteRevs

\* The operation of r, the only one that runs, ends or goes on.
LEMMA NodeKeeps ==
  ASSUME SiteInv, NEW r \in OpsRunning, NEW op \in SiteOperations, NEW files \in SiteFileSets, NodeMoves(r, op, files),
         siteJob' = siteJob,
         siteHarm' = {} =>
            /\ files.running \in siteTested' \cup {0}
            /\ op.at = "idle" => /\ files.live \in siteTested' \cup {0} /\ files.backup = 0
                                 /\ files.live = r \/ files.live = siteFiles.backup
                                 /\ op.answer = "applied" => files.live = r
            /\ op.at # "idle" => /\ files.backup = siteFiles.backup /\ op.saved = siteOp[r].saved
                                 /\ op.at \in {"test", "reload"} /\ files.live = r /\ op.answer = siteOp[r].answer
                                 /\ op.at = "reload" => r \in siteTested'
  PROVE  SiteInv'
<1>0. r \in SiteRevs
  BY DEF OpsRunning
<1>1. /\ SiteTypeOK' /\ siteOp'[r] = op /\ (\A q \in SiteRevs : q # r => siteOp'[q] = siteOp[q])
      /\ OpsRunning' = IF op.at = "idle" THEN OpsRunning \ {r} ELSE OpsRunning \cup {r}
  BY <1>0, NodeFacts, NodeTypes DEF SiteInv
<1>2. SiteWorkers' /\ SiteRecords' /\ siteRev' = siteRev
  BY DEF SiteInv, SiteWorkers, SiteRecords, NodeMoves
<1>3. AppliedRev' = AppliedRev
  BY <1>2, AppliedStays DEF SiteInv
<1>4. ASSUME siteHarm' = {} PROVE SiteNodeSound'
  <2>1. SiteNodeSound /\ siteHarm = {}
    BY <1>4 DEF SiteInv, NodeMoves
  <2>2. OperationSound(r) /\ OpsRunning = {r}
    BY <1>0, <2>1 DEF SiteNodeSound, OperationSound
  <2>3. Passed \subseteq Passed' /\ siteFiles' = files
    BY DEF Passed, NodeMoves
  <2>4. \A q \in SiteRevs : ~Switched(q)
    BY <2>1, <2>2 DEF SiteNodeSound
  <2>5. Accounted(siteFiles.backup) /\ siteFiles.backup \in Passed /\ siteJob[r].state \in Unrecorded
    BY <2>2 DEF OperationSound
  <2>6. CASE op.at = "idle"
    <3>1. OpsRunning' = {}
      BY <1>1, <2>2, <2>6
    <3>2. Accounted(siteFiles.live)'
      <4>1. CASE files.live = r
        <5>1. r # 0
          BY <1>0, NodeFacts
        <5>. QED
          BY <4>1, <5>1, <2>3, <2>5 DEF Accounted
      <4>2. CASE files.live = siteFiles.backup
        <5>1. files.live = AppliedRev \/ (files.live # 0 /\ siteJob[files.live].state \in Unrecorded)
          BY <4>2, <2>5 DEF Accounted
        <5>. QED
          BY <5>1, <1>3, <2>3 DEF Accounted
      <4>. QED
        BY <4>1, <4>2, <2>6, <1>4
    <3>3. ASSUME NEW q \in SiteRevs, Switched(q)' PROVE files.live = r /\ q = r
      <4>1. q = r
        BY <3>3, <2>4, <1>1 DEF Switched
      <4>2. siteJob[r].at # "record"
        BY <2>4, <1>0 DEF Switched
      <4>. QED
        BY <4>1, <4>2, <3>3, <1>1, <1>4, <2>6 DEF Switched
    <3>. QED
      BY <3>1, <3>2, <3>3, <2>3, <2>6, <1>4 DEF SiteNodeSound, Passed
  <2>7. CASE op.at # "idle"
    <3>1. OpsRunning' = {r}
      BY <1>1, <2>2, <2>7
    <3>2. OperationSound(r)'
      <4>1. Accounted(siteFiles.backup)'
        <5>1. files.backup = AppliedRev \/ (files.backup # 0 /\ siteJob[files.backup].state \in Unrecorded)
          BY <2>5, <2>7, <1>4 DEF Accounted
        <5>. QED
          BY <5>1, <1>3, <2>3 DEF Accounted
      <4>. QED
        BY <4>1, <1>1, <1>4, <2>2, <2>3, <2>5, <2>7, <3>1 DEF OperationSound
    <3>3. ASSUME NEW q \in SiteRevs PROVE ~Switched(q)'
      <4>1. CASE q = r
        <5>1. siteJob[r].at # "record"
          BY <2>4, <1>0 DEF Switched
        <5>2. op.answer # "applied" \/ siteJob[r].at # "wait"
          BY <1>0, <1>4, <2>4, <2>7 DEF Switched
        <5>. QED
          BY <4>1, <5>1, <5>2, <1>1 DEF Switched
      <4>2. CASE q # r
        BY <4>2, <2>4, <1>1 DEF Switched
      <4>. QED
        BY <4>1, <4>2
    <3>. QED
      BY <3>1, <3>2, <3>3, <2>3, <2>7, <1>4 DEF SiteNodeSound, Passed
  <2>. QED
    BY <2>6, <2>7
<1>5. SiteOnce'
  <2>1. siteJob[r].at # "switch" /\ siteRev[r].state \notin {"absent", "draft"}
    BY <1>0 DEF SiteInv, SiteOnce, OpsRunning
  <2>2. \A q \in SiteRevs : q # r => siteOp'[q].at = siteOp[q].at
    BY <1>1
  <2>. QED
    BY <1>2, <2>1, <2>2 DEF SiteInv, SiteOnce
<1>. QED
  BY <1>1, <1>2, <1>4, <1>5 DEF SiteInv
\* An answer ends the operation.
Answered(a) == [at |-> "idle", saved |-> FALSE, answer |-> a]

LEMMA AnsweredType ==
  ASSUME NEW a \in {"applied", "rolled_back", "error"}
  PROVE  Answered(a) \in SiteOperations /\ Answered(a).at = "idle" /\ Answered(a).answer = a
BY DEF Answered, SiteOperations

\* Files with one of them taken away or put elsewhere.
Moved(files, f, b) == [files EXCEPT !.live = f, !.backup = b]

LEMMA FilesMove ==
  ASSUME NEW files \in SiteFileSets, NEW f \in 0 .. MaxSiteRevs, NEW b \in 0 .. MaxSiteRevs
  PROVE  LET new == Moved(files, f, b)
         IN new \in SiteFileSets /\ new.live = f /\ new.backup = b /\ new.running = files.running
BY DEF SiteFileSets, Moved

LEMMA RestoredFiles ==
  ASSUME NEW r, siteFiles \in SiteFileSets
  PROVE  /\ Restored(r) \in SiteFileSets /\ Restored(r).running = siteFiles.running
         /\ Restored(r).live = (IF siteOp[r].saved THEN siteFiles.backup ELSE 0)
         /\ Restored(r).backup = (IF siteOp[r].saved THEN 0 ELSE siteFiles.backup)
<1>1. 0 \in 0 .. MaxSiteRevs /\ siteFiles.live \in 0 .. MaxSiteRevs /\ siteFiles.backup \in 0 .. MaxSiteRevs
  BY SiteAssumption DEF SiteFileSets
<1>2. CASE siteOp[r].saved
  <2>1. Restored(r) = Moved(siteFiles, siteFiles.backup, 0)
    BY <1>2 DEF Restored, Moved
  <2>2. LET new == Moved(siteFiles, siteFiles.backup, 0)
        IN new \in SiteFileSets /\ new.live = siteFiles.backup /\ new.backup = 0 /\ new.running = siteFiles.running
    BY <1>1 DEF Moved, SiteFileSets
  <2>. QED
    BY <1>2, <2>1, <2>2
<1>3. CASE ~siteOp[r].saved
  <2>1. Restored(r) = Moved(siteFiles, 0, siteFiles.backup)
    BY <1>3 DEF Restored, SiteFileSets, Moved
  <2>2. LET new == Moved(siteFiles, 0, siteFiles.backup)
        IN new \in SiteFileSets /\ new.live = 0 /\ new.backup = siteFiles.backup /\ new.running = siteFiles.running
    BY <1>1 DEF Moved, SiteFileSets
  <2>. QED
    BY <1>3, <2>1, <2>2
<1>. QED
  BY <1>2, <1>3

\* restoreBackup puts back what was in service.
LEMMA RestoredIsBackup ==
  ASSUME SiteInv, NEW r \in OpsRunning, siteHarm = {}
  PROVE  /\ Restored(r) \in SiteFileSets /\ Restored(r).live = siteFiles.backup /\ Restored(r).backup = 0
         /\ Restored(r).running = siteFiles.running /\ siteFiles.backup \in Passed /\ siteFiles.running \in Passed
<1>1. siteFiles \in SiteFileSets
  BY NodeFacts DEF OpsRunning
<1>2. OperationSound(r) /\ siteFiles.running \in Passed
  BY DEF SiteInv, SiteNodeSound
<1>3. siteOp[r].saved <=> siteFiles.backup # 0
  BY <1>2 DEF OperationSound
<1>. QED
  BY <1>1, <1>2, <1>3, RestoredFiles DEF OperationSound

LEMMA RestoredType ==
  ASSUME SiteInv, NEW r \in SiteRevs
  PROVE  Restored(r) \in SiteFileSets /\ Reloaded(Restored(r)) \in SiteFileSets
         /\ Reloaded(Restored(r)).live = Restored(r).live /\ Reloaded(Restored(r)).backup = Restored(r).backup
         /\ Reloaded(Restored(r)).running = Restored(r).live
<1>1. siteFiles \in SiteFileSets
  BY NodeFacts
<1>2. Restored(r) \in SiteFileSets
  BY <1>1, RestoredFiles
<1>. QED
  BY <1>2 DEF Reloaded, SiteFileSets

\* Files that a step leaves as they were.
LEMMA NodeUnharmed == ASSUME SiteInv, NEW r \in SiteRevs, NEW op, NEW files, NodeMoves(r, op, files), siteHarm' = {}
                      PROVE  siteHarm = {} /\ SiteNodeSound /\ \A q \in OpsRunning : OperationSound(q)
BY DEF SiteInv, NodeMoves, SiteNodeSound

LEMMA NodeWriteKeeps == ASSUME SiteInv, NEW r \in SiteRevs, NodeWrite(r) PROVE SiteInv'
<1>0. r \in OpsRunning /\ siteOp[r].at = "write"
  BY DEF NodeWrite, OpsRunning
<1>1. siteOp[r] \in SiteOperations /\ siteFiles \in SiteFileSets /\ r \in 0 .. MaxSiteRevs /\ siteTested \subseteq 0 .. MaxSiteRevs
      /\ siteHarm \subseteq {"overlap", "crash"} /\ siteOp \in [SiteRevs -> SiteOperations]
  BY NodeFacts DEF SiteInv, SiteTypeOK, SiteOperations
<1>2. CASE siteFiles' = [siteFiles EXCEPT !.live = r] /\ siteOp' = [siteOp EXCEPT ![r].at = "test"] /\ siteFaults' = siteFaults
  <2> PICK op : op = [siteOp[r] EXCEPT !.at = "test"]
    OBVIOUS
  <2> PICK files : files = [siteFiles EXCEPT !.live = r]
    OBVIOUS
  <2>1. op \in SiteOperations /\ op.at = "test" /\ op.saved = siteOp[r].saved /\ op.answer = siteOp[r].answer
    BY <1>1 DEF SiteOperations
  <2>2. files \in SiteFileSets /\ files.live = r /\ files.backup = siteFiles.backup /\ files.running = siteFiles.running
    BY <1>1 DEF SiteFileSets
  <2>3. NodeMoves(r, op, files)
    BY <1>1, <1>2 DEF NodeMoves, NodeWrite
  <2>4. siteHarm' = {} => siteFiles.running \in siteTested' \cup {0}
    BY <2>3, NodeUnharmed DEF SiteNodeSound, Passed, NodeMoves
  <2>. QED
    BY <1>0, <2>1, <2>2, <2>3, <2>4, NodeKeeps DEF NodeWrite
<1>3. CASE SiteFault /\ siteFiles' = Restored(r) /\ Answer(r, "error")
  <2>1. NodeMoves(r, Answered("error"), Restored(r))
    BY <1>1, <1>3 DEF NodeMoves, NodeWrite, Answer, Answered
  <2>2. siteHarm' = {} => siteHarm = {} /\ siteTested' = siteTested
    BY <2>1, NodeUnharmed DEF NodeWrite
  <2>3. siteHarm' = {} => /\ Restored(r).running \in siteTested' \cup {0} /\ Restored(r).live \in siteTested' \cup {0}
                          /\ Restored(r).backup = 0 /\ Restored(r).live = siteFiles.backup
    BY <1>0, <2>2, RestoredIsBackup DEF Passed
  <2>. QED
    BY <1>0, <2>1, <2>3, AnsweredType, RestoredType, NodeKeeps DEF NodeWrite
<1>. QED
  BY <1>2, <1>3 DEF NodeWrite

LEMMA NodeTestKeeps == ASSUME SiteInv, NEW r \in SiteRevs, NodeTest(r) PROVE SiteInv'
<1>0. r \in OpsRunning /\ siteOp[r].at = "test"
  BY DEF NodeTest, OpsRunning
<1>1. siteOp[r] \in SiteOperations /\ siteFiles \in SiteFileSets /\ r \in 0 .. MaxSiteRevs /\ siteTested \subseteq 0 .. MaxSiteRevs
      /\ siteHarm \subseteq {"overlap", "crash"} /\ siteOp \in [SiteRevs -> SiteOperations] /\ siteFiles.live \in 0 .. MaxSiteRevs
  BY NodeFacts DEF SiteInv, SiteTypeOK, SiteOperations
<1>2. CASE siteTested' = siteTested \cup {siteFiles.live} /\ siteOp' = [siteOp EXCEPT ![r].at = "reload"] /\ siteFiles' = siteFiles
  <2> PICK op : op = [siteOp[r] EXCEPT !.at = "reload"]
    OBVIOUS
  <2>1. op \in SiteOperations /\ op.at = "reload" /\ op.saved = siteOp[r].saved /\ op.answer = siteOp[r].answer
    BY <1>1 DEF SiteOperations
  <2>3. NodeMoves(r, op, siteFiles)
    BY <1>1, <1>2 DEF NodeMoves, NodeTest
  <2>4. siteHarm' = {} => siteFiles.running \in siteTested' \cup {0} /\ siteFiles.live = r /\ r \in siteTested'
    BY <1>0, <1>2, <2>3, NodeUnharmed DEF SiteNodeSound, Passed, NodeMoves, OperationSound
  <2>. QED
    BY <1>0, <1>1, <2>1, <2>3, <2>4, NodeKeeps DEF NodeTest
<1>3. ASSUME NEW a \in {"rolled_back", "error"}, Answer(r, a), siteFiles' = Reloaded(Restored(r)), siteTested' = siteTested
      PROVE  SiteInv'
  <2>1. NodeMoves(r, Answered(a), Reloaded(Restored(r)))
    BY <1>1, <1>3 DEF NodeMoves, NodeTest, Answer, Answered
  <2>2. siteHarm' = {} => siteHarm = {}
    BY <2>1, NodeUnharmed
  <2>3. siteHarm' = {} => /\ Reloaded(Restored(r)).running \in siteTested' \cup {0} /\ Reloaded(Restored(r)).live \in siteTested' \cup {0}
                          /\ Reloaded(Restored(r)).backup = 0 /\ Reloaded(Restored(r)).live = siteFiles.backup
    BY <1>0, <1>3, <2>2, RestoredIsBackup, RestoredType DEF Passed
  <2>. QED
    BY <1>0, <2>1, <2>3, AnsweredType, RestoredType, NodeKeeps DEF NodeTest
<1>. QED
  BY <1>2, <1>3 DEF NodeTest

LEMMA NodeReloadKeeps == ASSUME SiteInv, NEW r \in SiteRevs, NodeReload(r) PROVE SiteInv'
<1>0. r \in OpsRunning /\ siteOp[r].at = "reload"
  BY DEF NodeReload, OpsRunning
<1>1. siteOp[r] \in SiteOperations /\ siteFiles \in SiteFileSets /\ siteTested \subseteq 0 .. MaxSiteRevs
      /\ siteHarm \subseteq {"overlap", "crash"}
  BY NodeFacts DEF SiteInv, SiteTypeOK
<1>2. CASE /\ siteFiles' = [Reloaded(siteFiles) EXCEPT !.backup = IF siteOp[r].saved THEN 0 ELSE @]
           /\ Answer(r, "applied") /\ siteFaults' = siteFaults
  <2> PICK files : files = [Reloaded(siteFiles) EXCEPT !.backup = IF siteOp[r].saved THEN 0 ELSE @]
    OBVIOUS
  <2>1. /\ files \in SiteFileSets /\ files.live = siteFiles.live /\ files.running = siteFiles.live
        /\ files.backup = IF siteOp[r].saved THEN 0 ELSE siteFiles.backup
    <3> PICK b \in 0 .. MaxSiteRevs : b = IF siteOp[r].saved THEN 0 ELSE siteFiles.backup
      BY <1>1, SiteAssumption DEF SiteFileSets
    <3>1. Reloaded(siteFiles) \in SiteFileSets /\ Reloaded(siteFiles).live = siteFiles.live
          /\ Reloaded(siteFiles).running = siteFiles.live /\ Reloaded(siteFiles).backup = siteFiles.backup
      BY <1>1 DEF SiteFileSets, Reloaded
    <3>2. files = [Reloaded(siteFiles) EXCEPT !.backup = b]
      BY <3>1
    <3>. QED
      BY <3>1, <3>2 DEF SiteFileSets
  <2>2. NodeMoves(r, Answered("applied"), files)
    BY <1>1, <1>2 DEF NodeMoves, NodeReload, Answer, Answered
  <2>3. siteHarm' = {} => siteFiles.live = r /\ r \in siteTested' /\ files.backup = 0
    BY <1>0, <2>1, <2>2, NodeUnharmed DEF OperationSound, NodeReload
  <2>. QED
    BY <1>0, <2>1, <2>2, <2>3, AnsweredType, NodeKeeps DEF NodeReload
<1>3. CASE SiteFault /\ siteFiles' = Restored(r) /\ Answer(r, "error")
  <2>1. NodeMoves(r, Answered("error"), Restored(r))
    BY <1>1, <1>3 DEF NodeMoves, NodeReload, Answer, Answered
  <2>2. siteHarm' = {} => siteHarm = {} /\ siteTested' = siteTested
    BY <2>1, NodeUnharmed DEF NodeReload
  <2>3. siteHarm' = {} => /\ Restored(r).running \in siteTested' \cup {0} /\ Restored(r).live \in siteTested' \cup {0}
                          /\ Restored(r).backup = 0 /\ Restored(r).live = siteFiles.backup
    BY <1>0, <2>2, RestoredIsBackup DEF Passed
  <2>. QED
    BY <1>0, <2>1, <2>3, AnsweredType, RestoredType, NodeKeeps DEF NodeReload
<1>. QED
  BY <1>2, <1>3 DEF NodeReload

\* The agent dies: from then on there is nothing to promise.
LEMMA AgentStopsKeeps == ASSUME SiteInv, NEW r \in SiteRevs, AgentStops(r) PROVE SiteInv'
<1>0. r \in OpsRunning
  BY DEF AgentStops, OpsRunning
<1>1. siteFiles \in SiteFileSets /\ siteTested \subseteq 0 .. MaxSiteRevs /\ siteHarm \subseteq {"overlap", "crash"}
  BY NodeFacts DEF SiteInv, SiteTypeOK
<1>2. NodeMoves(r, Answered("error"), siteFiles)
  BY <1>1 DEF AgentStops, NodeMoves, Answer, Answered
<1>3. siteHarm' # {}
  BY DEF AgentStops
<1>. QED
  BY <1>0, <1>1, <1>2, <1>3, AnsweredType, NodeKeeps DEF AgentStops

\* The one operation that a running job begins.
LEMMA NodeBackupKeeps == ASSUME SiteInv, NEW r \in SiteRevs, NodeBackup(r) PROVE SiteInv'
<1>1. /\ siteOp[r] \in SiteOperations /\ siteFiles \in SiteFileSets /\ siteJob \in [SiteRevs -> SiteJobs] /\ siteOp[r].at = "idle"
      /\ siteHarm \subseteq {"overlap", "crash"} /\ siteTested \subseteq 0 .. MaxSiteRevs
  BY NodeFacts DEF SiteInv, SiteTypeOK, SiteOnce, NodeBackup
<1>2. siteJob[r].at = "switch" /\ siteJob' = [siteJob EXCEPT ![r].at = "wait"]
  BY DEF NodeBackup
<1>3. JobMoves(r, Going(r, "wait")) /\ Going(r, "wait").at = "wait" /\ Going(r, "wait") \in SiteJobs
  BY <1>2, GoMoves
<1>4. siteJob' \in [SiteRevs -> SiteJobs]
  BY <1>1, <1>3 DEF JobMoves
<1>5. /\ SiteWorkers' /\ siteJob'[r] = Going(r, "wait") /\ (\A q \in SiteRevs : q # r => siteJob'[q] = siteJob[q])
      /\ (\A q \in SiteRevs : siteJob[q].state \in Unrecorded => siteJob'[q].state \in Unrecorded)
      /\ \A q \in SiteRevs : siteJob'[q].state = "succeeded" => siteJob[q].state = "succeeded"
  BY <1>3, <1>4, JobMovesKeep
<1>6. siteRev' = siteRev /\ siteTested' = siteTested
  BY DEF NodeBackup
<1>7. siteRev[r].state \notin {"absent", "draft"}
  BY <1>2 DEF SiteInv, SiteOnce
<1>8. SiteRecords'
  BY <1>5, <1>6, <1>7 DEF SiteInv, SiteRecords
<1>9. AppliedRev' = AppliedRev
  BY <1>6, <1>8, AppliedStays DEF SiteInv
<1>10. ASSUME NEW op \in SiteOperations, NEW files \in SiteFileSets, NodeMoves(r, op, files)
       PROVE  /\ SiteTypeOK' /\ SiteOnce' /\ siteOp'[r] = op /\ (\A q \in SiteRevs : q # r => siteOp'[q] = siteOp[q])
              /\ OpsRunning' = IF op.at = "idle" THEN OpsRunning \ {r} ELSE OpsRunning \cup {r}
  <2>1. /\ SiteTypeOK' /\ siteOp'[r] = op /\ (\A q \in SiteRevs : q # r => siteOp'[q] = siteOp[q])
        /\ OpsRunning' = IF op.at = "idle" THEN OpsRunning \ {r} ELSE OpsRunning \cup {r}
    BY <1>4, <1>10, NodeTypes DEF SiteInv
  <2>2. SiteOnce'
    BY <1>3, <1>5, <1>6, <1>7, <2>1 DEF SiteInv, SiteOnce
  <2>. QED
    BY <2>1, <2>2
\* No other job has switched.
<1>11. ASSUME NEW q \in SiteRevs, q # r PROVE siteJob'[q].at \notin {"wait", "record"}
  <2>1. siteJob[r].state = "running"
    BY <1>2 DEF SiteInv, SiteWorkers
  <2>2. siteJob[q].at = "idle"
    BY <1>11, <2>1 DEF SiteInv, SiteWorkers
  <2>. QED
    BY <1>5, <1>11, <2>2
<1>12. ASSUME NEW f \in 0 .. MaxSiteRevs, Accounted(f)
       PROVE  f = AppliedRev' \/ (f # 0 /\ siteJob'[f].state \in Unrecorded)
  <2>1. f = 0 \/ f \in SiteRevs
    BY SiteAssumption DEF SiteRevs
  <2>. QED
    BY <2>1, <1>5, <1>9, <1>12 DEF Accounted
<1>13. CASE SiteFault /\ Answer(r, "error") /\ UNCHANGED <<siteFiles, siteHarm>>
  <2>1. NodeMoves(r, Answered("error"), siteFiles)
    BY <1>1, <1>13 DEF NodeBackup, NodeMoves, Answer, Answered
  <2>2. /\ SiteTypeOK' /\ SiteOnce' /\ siteOp'[r] = Answered("error") /\ (\A q \in SiteRevs : q # r => siteOp'[q] = siteOp[q])
        /\ OpsRunning' = OpsRunning
    BY <1>1, <1>10, <2>1, AnsweredType DEF OpsRunning
  <2>3. ASSUME siteHarm' = {} PROVE SiteNodeSound'
    <3>1. SiteNodeSound /\ siteFiles' = siteFiles /\ siteTested' = siteTested /\ Passed' = Passed
      BY <1>6, <1>13, <2>3 DEF SiteInv, Passed
    <3>2. siteFiles.live \in 0 .. MaxSiteRevs /\ siteFiles.backup \in 0 .. MaxSiteRevs
      BY <1>1 DEF SiteFileSets
    <3>3. Accounted(siteFiles.live) => Accounted(siteFiles.live)'
      BY <3>1, <3>2, <1>12 DEF Accounted
    <3>4. Accounted(siteFiles.backup) => Accounted(siteFiles.backup)'
      BY <3>1, <3>2, <1>12 DEF Accounted
    <3>5. ASSUME NEW q \in OpsRunning PROVE OperationSound(q)'
      <4>1. OperationSound(q) /\ q \in SiteRevs /\ q # r
        BY <1>1, <3>1 DEF SiteNodeSound, OpsRunning
      <4>2. siteOp'[q] = siteOp[q]
        BY <2>2, <4>1
      <4>. QED
        BY <4>1, <4>2, <3>1, <3>4, <2>2, <1>5 DEF OperationSound
    <3>6. ASSUME NEW q \in SiteRevs PROVE ~Switched(q)'
      BY <1>3, <1>5, <1>11, <2>2, AnsweredType DEF Switched
    <3>. QED
      BY <3>1, <3>3, <3>5, <3>6, <2>2 DEF SiteNodeSound
  <2>. QED
    BY <1>5, <1>8, <2>2, <2>3 DEF SiteInv
<1>14. CASE /\ siteOp' = [siteOp EXCEPT ![r] = [at |-> "write", saved |-> siteFiles.live # 0, answer |-> "none"]]
            /\ siteFiles' = IF siteFiles.live # 0
                            THEN [siteFiles EXCEPT !.backup = siteFiles.live, !.live = 0] ELSE siteFiles
            /\ siteHarm' = IF OpsRunning # {} THEN siteHarm \cup {"overlap"} ELSE siteHarm
            /\ siteFaults' = siteFaults
  <2> PICK op : op = [at |-> "write", saved |-> siteFiles.live # 0, answer |-> "none"]
    OBVIOUS
  <2> PICK files : files = IF siteFiles.live # 0 THEN [siteFiles EXCEPT !.backup = siteFiles.live, !.live = 0] ELSE siteFiles
    OBVIOUS
  <2>1. op \in SiteOperations /\ op.at = "write" /\ op.answer = "none" /\ op.saved = (siteFiles.live # 0)
    BY DEF SiteOperations
  <2>2. /\ files \in SiteFileSets /\ files.live = 0 /\ files.running = siteFiles.running
        /\ files.backup = IF siteFiles.live # 0 THEN siteFiles.live ELSE siteFiles.backup
    <3>1. 0 \in 0 .. MaxSiteRevs /\ siteFiles.live \in 0 .. MaxSiteRevs
      BY <1>1, SiteAssumption DEF SiteFileSets
    <3>2. CASE siteFiles.live # 0
      <4>1. files = Moved(siteFiles, 0, siteFiles.live)
        BY <1>1, <3>2 DEF SiteFileSets, Moved
      <4>. QED
        BY <1>1, <3>1, <3>2, <4>1, FilesMove
    <3>3. CASE siteFiles.live = 0
      BY <1>1, <3>3
    <3>. QED
      BY <3>2, <3>3
  <2>3. NodeMoves(r, op, files)
    BY <1>1, <1>14 DEF NodeBackup, NodeMoves
  <2>4. /\ SiteTypeOK' /\ SiteOnce' /\ siteOp'[r] = op /\ (\A q \in SiteRevs : q # r => siteOp'[q] = siteOp[q])
        /\ OpsRunning' = OpsRunning \cup {r}
    BY <1>10, <2>1, <2>2, <2>3
  <2>5. ASSUME siteHarm' = {} PROVE SiteNodeSound'
    <3>1. OpsRunning = {} /\ siteHarm = {}
      BY <1>14, <2>5
    <3>2. SiteNodeSound /\ siteFiles' = files /\ Passed' = Passed /\ siteTested' = siteTested
      BY <1>6, <1>14, <3>1 DEF SiteInv, Passed
    <3>3. siteFiles.live \in Passed /\ siteFiles.backup = 0 /\ Accounted(siteFiles.live) /\ siteFiles.running \in Passed
      BY <3>1, <3>2 DEF SiteNodeSound
    <3>4. files.backup = siteFiles.live
      BY <2>2, <3>3
    <3>5. OpsRunning' = {r}
      BY <2>4, <3>1
    <3>6. Accounted(files.backup)'
      <4>1. siteFiles.live \in 0 .. MaxSiteRevs
        BY <1>1 DEF SiteFileSets
      <4>2. siteFiles.live = AppliedRev' \/ (siteFiles.live # 0 /\ siteJob'[siteFiles.live].state \in Unrecorded)
        BY <4>1, <3>3, <1>12
      <4>. QED
        BY <4>2, <3>4 DEF Accounted
    <3>7. siteJob'[r].state \in Unrecorded
      <4>1. siteJob[r].state = "running"
        BY <1>2 DEF SiteInv, SiteWorkers
      <4>. QED
        BY <4>1, <1>5 DEF Unrecorded
    <3>8. OperationSound(r)'
      <4>1. Accounted(siteFiles.backup)'
        BY <3>2, <3>6 DEF Accounted
      <4>. QED
        <5>1. siteFiles'.backup = siteFiles.live /\ siteFiles'.live = 0 /\ siteOp'[r] = op
          BY <3>2, <3>4, <2>2, <2>4
        <5>2. siteFiles'.backup \in Passed' /\ (siteOp'[r].saved <=> siteFiles'.backup # 0)
          BY <5>1, <3>2, <3>3, <2>1
        <5>. QED
          BY <4>1, <5>1, <5>2, <3>5, <3>7, <2>1 DEF OperationSound
    <3>9. ASSUME NEW q \in SiteRevs PROVE ~Switched(q)'
      BY <1>3, <1>5, <1>11, <2>1, <2>4 DEF Switched
    <3>. QED
      BY <3>2, <3>3, <3>5, <3>8, <3>9, <2>2 DEF SiteNodeSound
  <2>. QED
    BY <1>5, <1>8, <2>4, <2>5 DEF SiteInv
<1>. QED
  BY <1>13, <1>14 DEF NodeBackup

\* A candidate that failed the test of the whole configuration never stays in service,
\* and what is in service is the applied revision's or that of a job that has failed
\* or is to be tried again (webconfig.go:318-476; sites_worker.go:72-216), for any
\* number of revisions, candidates, attempts and faults.
THEOREM LiveConfigCorrect == SiteSpec => []LiveConfigIsSound
<1>1. SiteInv /\ [SiteNext]_siteVars => SiteInv'
  <2> SUFFICES ASSUME SiteInv, [SiteNext]_siteVars PROVE SiteInv'
    OBVIOUS
  <2>1. CASE \E r \in SiteRevs, c \in SiteConfigs, b \in SiteRevs \cup {0} : ApplyConfig(r, c, b)
    BY <2>1, ApplyConfigKeeps
  <2>2. CASE DeleteSite
    BY <2>2, DeleteSiteKeeps
  <2>3. ASSUME NEW r \in SiteRevs, \/ StartSiteJob(r) \/ ValidateStep(r) \/ MarkStep(r) \/ SwitchStep(r)
                                   \/ RecordStep(r) \/ WorkerDies(r)
        PROVE  SiteInv'
    BY <2>3, StartSiteJobKeeps, ValidateStepKeeps, MarkStepKeeps, SwitchStepKeeps, RecordStepKeeps, WorkerDiesKeeps
  <2>4. ASSUME NEW r \in SiteRevs, NodeBackup(r) \/ NodeWrite(r) \/ NodeTest(r) \/ NodeReload(r) \/ AgentStops(r)
        PROVE  SiteInv'
    BY <2>4, NodeBackupKeeps, NodeWriteKeeps, NodeTestKeeps, NodeReloadKeeps, AgentStopsKeeps
  <2>5. CASE UNCHANGED siteVars
    BY <2>5 DEF siteVars, SiteInv, SiteTypeOK, SiteWorkers, SiteRecords, SiteOnce, SiteNodeSound, OperationSound, Accounted,
                AppliedRev, Passed, Switched, OpsRunning
  <2>. QED
    BY <2>1, <2>2, <2>3, <2>4, <2>5 DEF SiteNext
<1>2. SiteInv => LiveConfigIsSound
  <2> SUFFICES ASSUME SiteInv PROVE LiveConfigIsSound
    OBVIOUS
  <2>1. InvalidNeverServes
    BY DEF InvalidNeverServes, SiteInv, SiteNodeSound, Passed
  <2>2. ASSUME siteHarm = {}, OpsRunning = {}, WorkerIdle
        PROVE  \/ siteFiles.live = AppliedRev
               \/ siteFiles.live # 0 /\ siteJob[siteFiles.live].state \in {"failed", "queued"}
    <3>1. Accounted(siteFiles.live) /\ siteFiles.live \in 0 .. MaxSiteRevs
      BY <2>2 DEF SiteInv, SiteNodeSound, SiteTypeOK
    <3>2. siteFiles.live # 0 => siteFiles.live \in SiteRevs
      BY <3>1, SiteAssumption DEF SiteRevs
    <3>. QED
      BY <2>2, <3>1, <3>2 DEF Accounted, Unrecorded, WorkerIdle
  <2>3. LiveIsAccounted
    BY <2>2 DEF LiveIsAccounted, SiteInv, SiteRecords
  <2>. QED
    BY <2>1, <2>3 DEF LiveConfigIsSound, SiteInv
<1>. QED
  BY <1>1, <1>2, SiteStarts, PTL DEF SiteSpec

-----------------------------------------------------------------------------
(***************************************************************************)
(* Databases: UsersMatchNode and DumpsAreSound for any number of rows,     *)
(* attempts and faults. One job of a database runs at a time and each is   *)
(* asked for once, so without a crash a job that has ended stays ended,    *)
(* and without any fault the jobs on the account run in the order in which *)
(* they were asked for: the account is as the last of them left it.        *)
(***************************************************************************)

DelJob == <<"delete", 0>>
CrJob(u) == <<"create_user", u>>
DrJob(u) == <<"drop_user", u>>
DuJob(b) == <<"dump", b>>

\* A handler runs while its job does, one at a time, and takes the steps of its kind.
DbWorkers ==
  /\ \A j \in DbJobs : dbJob[j].at # "idle" <=> dbJob[j].state = "running"
  /\ \A i, j \in DbJobs : dbJob[i].state = "running" /\ dbJob[j].state = "running" => i = j
  /\ \A j \in DbJobs : dbJob[j].state = "none" => dbJob[j].tries = 0
  /\ \A j \in DbJobs : dbJob[j].state = "queued" => dbJob[j].tries < MaxDbAttempts
  /\ \A j \in DbJobs : dbJob[j].at \in {"drop", "tombstone"} => j = DelJob
  /\ dbJob[DelJob].at # "record"

\* A job is asked for by its row, once; the tombstone ends all work.
DbAsked ==
  /\ dbRow.state = "absent" => dbJob[<<"create_db", 0>>].state = "none"
  /\ \A u \in DbUserIds : dbUser[u] = "absent" => dbJob[CrJob(u)].state = "none"
  /\ \A u \in DbUserIds : dbUser[u] # "revoked" => dbJob[DrJob(u)].state = "none"
  /\ \A b \in DbDumpIds : dbBackup[b] = "absent" => dbJob[DuJob(b)].state = "none"
  /\ dbRow.state = "deleted" => dbJob[DelJob].state = "succeeded" /\ DbWorkerIdle
  /\ DelJob \notin dbLate
  /\ \A u, v \in DbUserIds : u < v /\ dbUser[v] # "absent" => dbUser[u] = "revoked"

\* A backup row and its job.
BackupSound(b) ==
  /\ dbJob[DuJob(b)].state = "queued" => dbBackup[b] = "queued"
  /\ dbJob[DuJob(b)].state = "running" => dbBackup[b] = "running"
  /\ dbJob[DuJob(b)].state = "failed" => dbBackup[b] = "failed"
  /\ dbBackup[b] = "completed" => dbJob[DuJob(b)].state = "succeeded"
  /\ dbBackup[b] = "completed" \/ dbJob[DuJob(b)].at = "record" => b \in dbNode.dumps
  /\ DuJob(b) \in dbLate => dbJob[DuJob(b)].state = "failed"

\* As long as no worker has died.
DbSteady ==
  /\ \A b \in DbDumpIds : BackupSound(b)
  /\ dbJob[DelJob].at \in {"drop", "tombstone"} \/ dbRow.state = "deleted" => 0 \in dbNode.dumps
  /\ DuJob(0) \in dbLate => dbJob[DelJob].state = "failed"
  /\ \A j \in DbJobs : dbJob[j].state = "queued" => dbJob[j].tries = 0

\* The node has carried out what the job asked for.
Carried(j) == dbJob[j].state = "succeeded" \/ dbJob[j].at = "record"

\* j is the last job on the account that was carried out.
LastCarried(j) == Carried(j) /\ \A i \in UserJobs : AskedBefore(j, i) => ~Carried(i)

\* The jobs on the account, in the order in which they were asked for.
UsersSound ==
  /\ \A j \in UserJobs : dbJob[j].state # "failed"
  /\ \A u \in DbUserIds : dbUser[u] # "absent" => dbJob[CrJob(u)].state # "none"
  /\ \A u \in DbUserIds : dbUser[u] = "revoked" => dbJob[DrJob(u)].state # "none"
  /\ \A i, j \in UserJobs : AskedBefore(i, j) /\ dbJob[j].state \in {"running", "succeeded"} => dbJob[i].state = "succeeded"
  /\ dbNode.user => \E u \in DbUserIds : LastCarried(CrJob(u))
  /\ ~dbNode.user => (\A j \in UserJobs : ~Carried(j)) \/ \E u \in DbUserIds : LastCarried(DrJob(u))

\* As long as nothing has failed.
DbClean ==
  /\ dbLate = {}
  /\ dbJob[DelJob].at = "tombstone" \/ dbRow.state = "deleted" => ~dbNode.db
  /\ dbRow.state # "deleted" => UsersSound

DbInv ==
  /\ DbTypeOK /\ DbWorkers /\ DbAsked
  /\ "crash" \notin dbHarm => DbSteady
  /\ dbHarm = {} => DbClean
LEMMA DbShapes ==
  /\ \A u \in DbUserIds : CrJob(u) \in UserJobs /\ DrJob(u) \in UserJobs
  /\ \A b \in DbDumpIds : DuJob(b) \in DbJobs /\ DuJob(b) \notin UserJobs
  /\ UserJobs \subseteq DbJobs /\ DelJob \in DbJobs \ UserJobs
  /\ <<"create_db", 0>> \in DbJobs \ UserJobs /\ <<"restore", 0>> \in DbJobs \ UserJobs
  /\ \A j \in UserJobs : j[2] \in DbUserIds /\ (j = CrJob(j[2]) \/ j = DrJob(j[2]))
  /\ \A j \in DbJobs : j \in UserJobs \/ j \in {<<"create_db", 0>>, <<"restore", 0>>, DelJob} \/ \E b \in DbDumpIds : j = DuJob(b)
BY DEF CrJob, DrJob, DuJob, DelJob, UserJobs, DbJobs

\* Jobs of different kinds, or of different rows, are different.
LEMMA DbDistinct ==
  /\ \A u, v : CrJob(u) = CrJob(v) => u = v
  /\ \A u, v : DrJob(u) = DrJob(v) => u = v
  /\ \A u, v : DuJob(u) = DuJob(v) => u = v
  /\ \A u, v : CrJob(u) # DrJob(v) /\ CrJob(u) # DuJob(v) /\ DrJob(u) # DuJob(v)
  /\ \A u : DelJob \notin {CrJob(u), DrJob(u), DuJob(u)}
  /\ \A u : <<"create_db", 0>> \notin {CrJob(u), DrJob(u), DuJob(u), DelJob}
  /\ \A u : <<"restore", 0>> \notin {CrJob(u), DrJob(u), DuJob(u), DelJob, <<"create_db", 0>>}
BY DEF CrJob, DrJob, DuJob, DelJob

\* The order in which the jobs on the account are asked for.
LEMMA AskedInOrder ==
  ASSUME NEW i \in UserJobs, NEW j \in UserJobs
  PROVE  /\ i = j \/ AskedBefore(i, j) \/ AskedBefore(j, i)
         /\ ~(AskedBefore(i, j) /\ AskedBefore(j, i)) /\ ~AskedBefore(i, i)
<1>1. /\ i[1] \in {"create_user", "drop_user"} /\ i[2] \in Nat /\ i = <<i[1], i[2]>>
      /\ j[1] \in {"create_user", "drop_user"} /\ j[2] \in Nat /\ j = <<j[1], j[2]>>
  BY DatabaseAssumption DEF UserJobs, DbUserIds
<1>2. CASE i[2] = j[2]
  BY <1>1, <1>2 DEF AskedBefore
<1>3. CASE i[2] # j[2]
  BY <1>1, <1>3 DEF AskedBefore
<1>. QED
  BY <1>2, <1>3

LEMMA AskedOrder ==
  ASSUME NEW u \in DbUserIds, NEW v \in DbUserIds
  PROVE  /\ AskedBefore(CrJob(u), DrJob(u)) /\ (u < v => AskedBefore(CrJob(u), CrJob(v)) /\ AskedBefore(DrJob(u), CrJob(v)))
         /\ (u < v => AskedBefore(DrJob(u), DrJob(v)) /\ AskedBefore(CrJob(u), DrJob(v)))
         /\ (AskedBefore(CrJob(u), CrJob(v)) => u < v) /\ (AskedBefore(DrJob(u), CrJob(v)) => u < v)
         /\ (AskedBefore(CrJob(u), DrJob(v)) => u < v \/ u = v) /\ (AskedBefore(DrJob(u), DrJob(v)) => u < v)
BY DEF AskedBefore, CrJob, DrJob

DbJobRecs ==
  [state : {"none", "queued", "running", "succeeded", "failed"}, tries : 0 .. MaxDbAttempts,
   at : {"idle", "op", "drop", "tombstone", "record"}]

LEMMA DbTypes ==
  ASSUME DbInv
  PROVE  /\ dbJob \in [DbJobs -> DbJobRecs] /\ \A j \in DbJobs : dbJob[j] \in DbJobRecs
BY DEF DbInv, DbTypeOK, DbJobRecs

\* One job of a database changes, and becomes new.
LEMMA JobBecomes ==
  ASSUME DbInv, NEW j \in DbJobs, NEW new \in DbJobRecs, dbJob' = [dbJob EXCEPT ![j] = new]
  PROVE  dbJob' \in [DbJobs -> DbJobRecs] /\ dbJob'[j] = new /\ \A i \in DbJobs : i # j => dbJob'[i] = dbJob[i]
BY DbTypes

\* A record of a job that a handler of its kind may leave.
Fits(j, new) ==
  /\ new.at # "idle" <=> new.state = "running"
  /\ new.state = "none" => new.tries = 0
  /\ new.state = "queued" => new.tries < MaxDbAttempts
  /\ new.at \in {"drop", "tombstone"} => j = DelJob
  /\ j = DelJob => new.at # "record"

LEMMA DbWorkersStay ==
  ASSUME DbInv, NEW j \in DbJobs, NEW new \in DbJobRecs, dbJob' = [dbJob EXCEPT ![j] = new], Fits(j, new),
         new.state = "running" => dbJob[j].state = "running" \/ DbWorkerIdle
  PROVE  DbWorkers'
<1>1. dbJob'[j] = new /\ \A i \in DbJobs : i # j => dbJob'[i] = dbJob[i]
  BY JobBecomes
<1>2. \A i, k \in DbJobs : dbJob'[i].state = "running" /\ dbJob'[k].state = "running" => i = k
  BY <1>1 DEF DbInv, DbWorkers, DbWorkerIdle
<1>3. ASSUME NEW i \in DbJobs PROVE Fits(i, dbJob'[i])
  <2>1. CASE i = j
    BY <1>1, <2>1
  <2>2. CASE i # j
    BY <1>1, <2>2 DEF DbInv, DbWorkers, Fits
  <2>. QED
    BY <2>1, <2>2
<1>. QED
  BY <1>2, <1>3, DbShapes DEF DbWorkers, Fits

\* The job is asked for.
AskedJob(j) == [dbJob[j] EXCEPT !.state = "queued"]

LEMMA DbAskMoves ==
  ASSUME DbInv, NEW j \in DbJobs, dbJob[j].state = "none", dbJob' = DbQueued(j)
  PROVE  /\ dbJob' = [dbJob EXCEPT ![j] = AskedJob(j)] /\ AskedJob(j) \in DbJobRecs
         /\ AskedJob(j).state = "queued" /\ AskedJob(j).at = "idle" /\ AskedJob(j).tries = 0
         /\ dbJob' \in [DbJobs -> DbJobRecs] /\ dbJob'[j] = AskedJob(j) /\ (\A i \in DbJobs : i # j => dbJob'[i] = dbJob[i])
         /\ DbWorkers'
<1>1. dbJob[j] \in DbJobRecs /\ dbJob \in [DbJobs -> DbJobRecs] /\ dbJob[j].at = "idle" /\ dbJob[j].tries = 0
  BY DbTypes DEF DbInv, DbWorkers
<1>2. dbJob' = [dbJob EXCEPT ![j] = AskedJob(j)] /\ AskedJob(j) \in DbJobRecs
  BY <1>1 DEF DbQueued, AskedJob, DbJobRecs
<1>3. AskedJob(j).state = "queued" /\ AskedJob(j).at = "idle" /\ AskedJob(j).tries = 0
  BY <1>1 DEF AskedJob, DbJobRecs
<1>4. Fits(j, AskedJob(j))
  BY <1>3, DatabaseAssumption DEF Fits
<1>5. DbWorkers'
  BY <1>2, <1>3, <1>4, DbWorkersStay
<1>. QED
  BY <1>2, <1>3, <1>5, JobBecomes

\* The job ends or waits for another attempt.
EndedJob(j, st) == [dbJob[j] EXCEPT !.state = st, !.at = "idle"]

LEMMA DbEndMoves ==
  ASSUME DbInv, NEW j \in DbJobs, NEW st \in {"queued", "succeeded", "failed"}, st = "queued" => MayRetry(j),
         dbJob' = EndDbJob(j, st)
  PROVE  /\ dbJob' \in [DbJobs -> DbJobRecs] /\ dbJob'[j].state = st /\ dbJob'[j].at = "idle" /\ dbJob'[j].tries = dbJob[j].tries
         /\ (\A i \in DbJobs : i # j => dbJob'[i] = dbJob[i]) /\ DbWorkers'
<1>1. dbJob[j] \in DbJobRecs /\ dbJob \in [DbJobs -> DbJobRecs]
  BY DbTypes
<1>2. dbJob' = [dbJob EXCEPT ![j] = EndedJob(j, st)] /\ EndedJob(j, st) \in DbJobRecs
  BY <1>1 DEF EndDbJob, EndedJob, DbJobRecs
<1>3. EndedJob(j, st).state = st /\ EndedJob(j, st).at = "idle" /\ EndedJob(j, st).tries = dbJob[j].tries
  BY <1>1 DEF EndedJob, DbJobRecs
<1>4. Fits(j, EndedJob(j, st))
  BY <1>3 DEF Fits, MayRetry
<1>5. DbWorkers'
  BY <1>2, <1>3, <1>4, DbWorkersStay
<1>. QED
  BY <1>2, <1>3, <1>5, JobBecomes

\* The handler goes on to its next step.
SteppedJob(j, at) == [dbJob[j] EXCEPT !.at = at]

LEMMA DbStepMoves ==
  ASSUME DbInv, NEW j \in DbJobs, NEW at \in {"drop", "tombstone", "record"}, dbJob[j].state = "running",
         at \in {"drop", "tombstone"} <=> j = DelJob, dbJob' = [dbJob EXCEPT ![j].at = at]
  PROVE  /\ dbJob' \in [DbJobs -> DbJobRecs] /\ dbJob'[j].state = "running" /\ dbJob'[j].at = at /\ dbJob'[j].tries = dbJob[j].tries
         /\ (\A i \in DbJobs : i # j => dbJob'[i] = dbJob[i]) /\ DbWorkers'
<1>1. dbJob[j] \in DbJobRecs /\ dbJob \in [DbJobs -> DbJobRecs]
  BY DbTypes
<1>2. dbJob' = [dbJob EXCEPT ![j] = SteppedJob(j, at)] /\ SteppedJob(j, at) \in DbJobRecs
  BY <1>1 DEF SteppedJob, DbJobRecs
<1>3. SteppedJob(j, at).state = "running" /\ SteppedJob(j, at).at = at /\ SteppedJob(j, at).tries = dbJob[j].tries
  BY <1>1 DEF SteppedJob, DbJobRecs
<1>4. Fits(j, SteppedJob(j, at))
  BY <1>3 DEF Fits
<1>5. DbWorkers'
  BY <1>2, <1>3, <1>4, DbWorkersStay
<1>. QED
  BY <1>2, <1>3, <1>5, JobBecomes

LEMMA DbStarts == DbInit => DbInv
<1> USE DatabaseAssumption
<1> SUFFICES ASSUME DbInit PROVE DbInv
  OBVIOUS
<1>0. \A j \in DbJobs : dbJob[j].state = "none" /\ dbJob[j].tries = 0 /\ dbJob[j].at = "idle"
  BY DEF DbInit
<1>1. DbTypeOK
  <2>1. dbRow \in [state : {"absent", "active", "pending_delete", "deleted"}, due : 0 .. MaxDbClock + 1]
        /\ dbNode \in [db : BOOLEAN, user : BOOLEAN, dumps : SUBSET (DbDumpIds \cup {0})]
    BY DEF DbInit
  <2>2. dbJob \in [DbJobs -> [state : {"none", "queued", "running", "succeeded", "failed"},
                             tries : 0..MaxDbAttempts,
                             at : {"idle", "op", "drop", "tombstone", "record"}]]
    BY DEF DbInit
  <2>3. dbUser \in [DbUserIds -> {"absent", "active", "revoked"}]
        /\ dbBackup \in [DbDumpIds -> {"absent", "queued", "running", "completed", "failed"}]
    BY DEF DbInit
  <2>4. dbSecret \in BOOLEAN /\ dbLate \subseteq DbJobs \cup {<<"drop_db", 0>>, <<"dump", 0>>}
    BY DEF DbInit
  <2>5. dbClock \in 0 .. MaxDbClock /\ dbFaults \in 0 .. MaxDbFaults
    BY DEF DbInit
  <2>. QED
    BY <2>1, <2>2, <2>3, <2>4, <2>5 DEF DbTypeOK
<1>2. DbWorkers /\ DbAsked
  BY <1>0, DbShapes DEF DbInit, DbWorkers, DbAsked, DbWorkerIdle
<1>3. DbSteady
  <2>1. \A b \in DbDumpIds : BackupSound(b)
    BY <1>0, DbShapes DEF DbInit, BackupSound
  <2>. QED
    BY <1>0, <2>1, DbShapes DEF DbInit, DbSteady
<1>4. DbClean
  <2>1. \A j \in UserJobs : dbJob[j].state = "none" /\ ~Carried(j)
    BY <1>0, DbShapes DEF Carried
  <2>2. UsersSound
    BY <2>1 DEF DbInit, UsersSound
  <2>. QED
    BY <1>0, <2>2, DbShapes DEF DbInit, DbClean
<1>. QED
  BY <1>1, <1>2, <1>3, <1>4 DEF DbInv
DbOps == (DbJobs \ {DelJob}) \cup {<<"drop_db", 0>>, DuJob(0)}
DbNodes == [db : BOOLEAN, user : BOOLEAN, dumps : SUBSET (DbDumpIds \cup {0})]
DbRowRecs == [state : {"absent", "active", "pending_delete", "deleted"}, due : 0 .. MaxDbClock + 1]

\* Faults are counted, and what has happened stays.
DbFaulty == UNCHANGED dbFlt \/ \E h \in {"not queued", "failed", "late", "not recorded", "crash"} : DbFault(h)

LEMMA DbFaultsCount ==
  ASSUME DbInv, DbFaulty
  PROVE  dbFaults' \in 0 .. MaxDbFaults /\ dbHarm \subseteq dbHarm'
<1>0. dbFaults \in 0 .. MaxDbFaults
  BY DEF DbInv, DbTypeOK
<1>1. CASE UNCHANGED dbFlt
  BY <1>0, <1>1 DEF dbFlt
<1>2. ASSUME NEW h, DbFault(h) PROVE dbFaults' \in 0 .. MaxDbFaults /\ dbHarm \subseteq dbHarm'
  <2>1. dbFaults' \in 0 .. MaxDbFaults
    BY <1>0, <1>2, DatabaseAssumption DEF DbFault
  <2>2. dbHarm \subseteq dbHarm'
    BY <1>2 DEF DbFault
  <2>. QED
    BY <2>1, <2>2
<1>. QED
  BY <1>1, <1>2 DEF DbFaulty

LEMMA DbTypesAfter ==
  ASSUME DbInv, DbFaulty, dbRow' \in DbRowRecs, dbUser' \in [DbUserIds -> {"absent", "active", "revoked"}], dbSecret' \in BOOLEAN,
         dbBackup' \in [DbDumpIds -> {"absent", "queued", "running", "completed", "failed"}],
         dbJob' \in [DbJobs -> DbJobRecs], dbNode' \in DbNodes, dbLate' \subseteq DbJobs \cup {<<"drop_db", 0>>, <<"dump", 0>>},
         dbClock' \in 0 .. MaxDbClock
  PROVE  DbTypeOK'
BY DbFaultsCount DEF DbTypeOK, DbJobRecs, DbNodes, DbRowRecs

LEMMA DbTypesNow ==
  ASSUME DbInv
  PROVE  /\ dbRow \in DbRowRecs /\ dbUser \in [DbUserIds -> {"absent", "active", "revoked"}] /\ dbSecret \in BOOLEAN
         /\ dbBackup \in [DbDumpIds -> {"absent", "queued", "running", "completed", "failed"}]
         /\ dbJob \in [DbJobs -> DbJobRecs] /\ dbNode \in DbNodes /\ dbLate \subseteq DbOps
         /\ dbLate \subseteq DbJobs \cup {<<"drop_db", 0>>, <<"dump", 0>>} /\ dbClock \in 0 .. MaxDbClock
<1>1. DelJob \notin dbLate /\ dbLate \subseteq DbJobs \cup {<<"drop_db", 0>>, DuJob(0)}
  BY DEF DbInv, DbAsked, DbTypeOK, DuJob
<1>. QED
  BY <1>1 DEF DbInv, DbTypeOK, DbJobRecs, DbNodes, DbRowRecs, DbOps

\* A backup row that a step does not touch.
LEMMA BackupStays ==
  ASSUME NEW b, BackupSound(b), dbBackup'[b] = dbBackup[b], dbJob'[DuJob(b)] = dbJob[DuJob(b)],
         b \in dbNode.dumps => b \in dbNode'.dumps, DuJob(b) \in dbLate' => DuJob(b) \in dbLate
  PROVE  BackupSound(b)'
BY DEF BackupSound, DuJob

\* The account and its jobs, when a step touches neither.
LEMMA UsersStay ==
  ASSUME UsersSound, dbUser' = dbUser, \A j \in UserJobs : dbJob'[j] = dbJob[j], dbNode'.user = dbNode.user
  PROVE  UsersSound'
<1>1. \A j \in UserJobs : Carried(j)' <=> Carried(j)
  BY DEF Carried
<1>2. \A u \in DbUserIds : CrJob(u) \in UserJobs /\ DrJob(u) \in UserJobs
  BY DbShapes
<1>3. \A u \in DbUserIds : (LastCarried(CrJob(u))' <=> LastCarried(CrJob(u))) /\ (LastCarried(DrJob(u))' <=> LastCarried(DrJob(u)))
  BY <1>1, <1>2 DEF LastCarried, AskedBefore, CrJob, DrJob
<1>. QED
  BY ZenonT(60), <1>1, <1>2, <1>3 DEF UsersSound, CrJob, DrJob, AskedBefore

\* A step of the API: a job is asked for, or none is.
MayAsk(j) == dbJob' = dbJob \/ (dbJob[j].state = "none" /\ dbJob' = DbQueued(j))

LEMMA DbAskedStays ==
  ASSUME DbInv, NEW j \in DbJobs, MayAsk(j), dbLate' = dbLate,
         dbRow'.state = "deleted" <=> dbRow.state = "deleted",
         dbRow'.state = "absent" => dbRow.state = "absent" /\ j # <<"create_db", 0>>,
         \A u \in DbUserIds : dbUser'[u] = "absent" => dbUser[u] = "absent" /\ j # CrJob(u),
         \A u \in DbUserIds : dbUser'[u] # "revoked" => dbUser[u] # "revoked" /\ j # DrJob(u),
         \A b \in DbDumpIds : dbBackup'[b] = "absent" => dbBackup[b] = "absent" /\ j # DuJob(b),
         \A u, v \in DbUserIds : u < v /\ dbUser'[v] # "absent" => dbUser'[u] = "revoked"
  PROVE  DbAsked' /\ DbWorkers' /\ dbJob' \in [DbJobs -> DbJobRecs]
<1>1. CASE dbJob' = dbJob
  <2>1. DbAsked'
    BY <1>1 DEF DbInv, DbAsked, DbWorkerIdle, DelJob, CrJob, DrJob, DuJob
  <2>. QED
    BY <1>1, <2>1, DbTypes DEF DbInv, DbWorkers, DelJob
<1>2. CASE dbJob[j].state = "none" /\ dbJob' = DbQueued(j)
  <2>1. /\ dbJob'[j].state = "queued" /\ dbJob' \in [DbJobs -> DbJobRecs] /\ DbWorkers'
        /\ \A i \in DbJobs : i # j => dbJob'[i] = dbJob[i]
    BY <1>2, DbAskMoves
  <2>2. DbWorkerIdle => DbWorkerIdle'
    BY <2>1 DEF DbWorkerIdle
  <2>3. dbRow'.state = "deleted" => dbJob'[DelJob].state = "succeeded" /\ DbWorkerIdle'
    BY <1>2, <2>1, <2>2, DbShapes DEF DbInv, DbAsked
  <2>4. dbRow'.state = "absent" => dbJob'[<<"create_db", 0>>].state = "none"
    BY <2>1, DbShapes DEF DbInv, DbAsked
  <2>5. \A u \in DbUserIds : dbUser'[u] = "absent" => dbJob'[CrJob(u)].state = "none"
    BY <2>1, DbShapes DEF DbInv, DbAsked
  <2>6. \A u \in DbUserIds : dbUser'[u] # "revoked" => dbJob'[DrJob(u)].state = "none"
    BY <2>1, DbShapes DEF DbInv, DbAsked
  <2>7. \A b \in DbDumpIds : dbBackup'[b] = "absent" => dbJob'[DuJob(b)].state = "none"
    BY <2>1, DbShapes DEF DbInv, DbAsked
  <2>8. DelJob \notin dbLate'
    BY DEF DbInv, DbAsked
  <2>9. DbAsked'
    BY <2>3, <2>4, <2>5, <2>6, <2>7, <2>8 DEF DbAsked, DelJob, CrJob, DrJob, DuJob
  <2>. QED
    BY <2>1, <2>9
<1>. QED
  BY <1>1, <1>2 DEF MayAsk

LEMMA DbAskKeeps ==
  ASSUME DbInv, NEW j \in DbJobs, MayAsk(j), dbLate' = dbLate, dbNode' = dbNode, DbFaulty,
         DbTypeOK', DbWorkers', DbAsked', dbRow'.state = "deleted" <=> dbRow.state = "deleted",
         \A b \in DbDumpIds : \/ dbBackup'[b] = dbBackup[b] /\ (j # DuJob(b) \/ dbJob' = dbJob)
                              \/ dbJob[DuJob(b)].state = "none" /\ dbBackup'[b] = IF dbJob' = dbJob THEN "failed" ELSE "queued",
         dbHarm' = {} /\ dbRow.state # "deleted" => UsersSound'
  PROVE  DbInv'
<1>1. dbHarm \subseteq dbHarm'
  BY DbFaultsCount
<1>2. ASSUME NEW i \in DbJobs
      PROVE  /\ dbJob'[i] = dbJob[i] \/ (i = j /\ dbJob[i].state = "none" /\ dbJob'[i].state = "queued" /\ dbJob'[i].at = "idle" /\ dbJob'[i].tries = 0)
             /\ dbJob[i].state = "none" => dbJob[i].at = "idle" /\ dbJob[i].tries = 0
  BY DbAskMoves DEF MayAsk, DbInv, DbWorkers
<1>3. ASSUME "crash" \notin dbHarm' PROVE DbSteady'
  <2>1. DbSteady
    BY <1>1, <1>3 DEF DbInv
  <2>2. ASSUME NEW b \in DbDumpIds PROVE BackupSound(b)'
    <3>0. DuJob(b) \in DbJobs /\ BackupSound(b)
      BY <2>1, DbShapes DEF DbSteady
    <3>1. CASE dbBackup'[b] = dbBackup[b] /\ (j # DuJob(b) \/ dbJob' = dbJob)
      <4>1. dbJob'[DuJob(b)] = dbJob[DuJob(b)]
        BY <3>0, <3>1, <1>2
      <4>. QED
        BY <3>0, <3>1, <4>1, BackupStays
    <3>2. CASE dbJob[DuJob(b)].state = "none" /\ dbJob' = dbJob /\ dbBackup'[b] = "failed"
      <4>1. dbJob[DuJob(b)].at = "idle"
        BY <3>0, <3>2, <1>2
      <4>. QED
        BY <3>0, <3>2, <4>1 DEF BackupSound, DuJob
    <3>3. CASE dbJob[DuJob(b)].state = "none" /\ dbJob' # dbJob /\ dbBackup'[b] = "queued"
      <4>1. dbJob[DuJob(b)].at = "idle" /\ (dbJob'[DuJob(b)] = dbJob[DuJob(b)] \/ (dbJob'[DuJob(b)].state = "queued" /\ dbJob'[DuJob(b)].at = "idle"))
        BY <3>0, <3>3, <1>2
      <4>. QED
        BY <3>0, <3>3, <4>1 DEF BackupSound, DuJob
    <3>. QED
      BY <3>1, <3>2, <3>3
  <2>3. dbJob'[DelJob].at = dbJob[DelJob].at /\ (dbJob[DelJob].state = "failed" => dbJob'[DelJob].state = "failed")
    BY <1>2, DbShapes
  <2>4. \A i \in DbJobs : dbJob'[i].state = "queued" => dbJob'[i].tries = 0
    BY <1>2, <2>1 DEF DbSteady
  <2>. QED
    BY <2>1, <2>2, <2>3, <2>4 DEF DbSteady, DelJob, DuJob
<1>4. ASSUME dbHarm' = {} PROVE DbClean'
  <2>1. DbClean
    BY <1>1, <1>4 DEF DbInv
  <2>2. dbJob'[DelJob].at = dbJob[DelJob].at
    BY <1>2, DbShapes
  <2>. QED
    BY <1>4, <2>1, <2>2 DEF DbClean, DelJob
<1>. QED
  BY <1>3, <1>4 DEF DbInv
\* A job on the account is asked for, with its row.
LEMMA UsersAsk ==
  ASSUME DbInv, UsersSound, NEW j \in UserJobs, dbJob[j].state = "none", dbJob' = DbQueued(j), dbNode' = dbNode,
         \A v \in DbUserIds : dbUser'[v] # "absent" => dbUser[v] # "absent" \/ j = CrJob(v),
         \A v \in DbUserIds : dbUser'[v] = "revoked" => dbUser[v] = "revoked" \/ j = DrJob(v)
  PROVE  UsersSound'
<1>1. /\ dbJob'[j].state = "queued" /\ dbJob'[j].at = "idle" /\ dbJob[j].at = "idle"
      /\ \A i \in UserJobs : i # j => dbJob'[i] = dbJob[i]
  BY DbAskMoves, DbShapes DEF DbInv, DbWorkers
<1>2. \A i \in UserJobs : Carried(i)' <=> Carried(i)
  BY <1>1 DEF Carried
<1>3. \A u \in DbUserIds : (LastCarried(CrJob(u))' <=> LastCarried(CrJob(u))) /\ (LastCarried(DrJob(u))' <=> LastCarried(DrJob(u)))
  BY <1>2, DbShapes DEF LastCarried, AskedBefore, CrJob, DrJob
<1>4. \A i \in UserJobs : dbJob'[i].state # "failed"
  BY <1>1 DEF UsersSound
<1>5. \A u \in DbUserIds : dbUser'[u] # "absent" => dbJob'[CrJob(u)].state # "none"
  BY <1>1, DbShapes DEF UsersSound
<1>6. \A u \in DbUserIds : dbUser'[u] = "revoked" => dbJob'[DrJob(u)].state # "none"
  BY <1>1, DbShapes DEF UsersSound
<1>7. \A i, k \in UserJobs : AskedBefore(i, k) /\ dbJob'[k].state \in {"running", "succeeded"} => dbJob'[i].state = "succeeded"
  BY <1>1 DEF UsersSound
<1>8. dbNode.user => \E u \in DbUserIds : LastCarried(CrJob(u))'
  BY <1>3 DEF UsersSound
<1>9. ~dbNode.user => (\A i \in UserJobs : ~Carried(i)') \/ \E u \in DbUserIds : LastCarried(DrJob(u))'
  BY <1>2, <1>3 DEF UsersSound
<1>. QED
  BY <1>4, <1>5, <1>6, <1>7, <1>8, <1>9 DEF UsersSound, CrJob, DrJob, AskedBefore

\* A job that is not on the account, or none, is asked for.
LEMMA UsersStayAsked ==
  ASSUME DbInv, NEW j \in DbJobs \ UserJobs, MayAsk(j), dbNode' = dbNode, dbUser' = dbUser, DbFaulty, dbHarm' = {}, dbRow.state # "deleted"
  PROVE  UsersSound'
<1>1. UsersSound
  BY DbFaultsCount DEF DbInv, DbClean
<1>2. \A i \in UserJobs : dbJob'[i] = dbJob[i]
  BY DbAskMoves, DbShapes DEF MayAsk
<1>. QED
  BY <1>1, <1>2, UsersStay

LEMMA CreateDatabaseKeeps == ASSUME DbInv, CreateDatabase PROVE DbInv'
<1> DEFINE j == <<"create_db", 0>>
<1>1. j \in DbJobs \ UserJobs /\ \A b \in DbDumpIds : j # DuJob(b)
  BY DbShapes, DbDistinct
<1>2. MayAsk(j) /\ DbFaulty /\ dbLate' = dbLate /\ dbNode' = dbNode /\ dbUser' = dbUser /\ dbBackup' = dbBackup
      /\ dbSecret' = dbSecret /\ dbClock' = dbClock
  BY DEF CreateDatabase, EnqueueIgnored, MayAsk, DbFaulty, DbInv, DbAsked
<1>3. dbRow.state = "absent" /\ dbRow'.state = "active" /\ dbRow' \in DbRowRecs
  BY DbTypesNow DEF CreateDatabase, DbRowRecs
<1>4. \A u \in DbUserIds : j # CrJob(u) /\ j # DrJob(u)
  BY DbDistinct
<1>5. DbAsked' /\ DbWorkers' /\ dbJob' \in [DbJobs -> DbJobRecs]
  BY <1>1, <1>2, <1>3, <1>4, DbAskedStays DEF DbInv, DbAsked
<1>6. DbTypeOK'
  BY <1>2, <1>3, <1>5, DbTypesNow, DbTypesAfter
<1>7. dbHarm' = {} /\ dbRow.state # "deleted" => UsersSound'
  BY <1>1, <1>2, UsersStayAsked
<1> HIDE DEF j
<1>. QED
  BY <1>1, <1>2, <1>3, <1>5, <1>6, <1>7, DbAskKeeps

\* A step of the API that asks for no job and creates no row.
LEMMA DbQuietStepKeeps ==
  ASSUME DbInv, DbFaulty, UNCHANGED <<dbUser, dbBackup, dbJob, dbNode, dbLate>>, dbSecret' \in BOOLEAN, dbClock' \in 0 .. MaxDbClock,
         dbRow' \in DbRowRecs, dbRow'.state = "deleted" <=> dbRow.state = "deleted", dbRow'.state = "absent" <=> dbRow.state = "absent"
  PROVE  DbInv'
<1>1. DelJob \in DbJobs \ UserJobs /\ MayAsk(DelJob)
  BY DbShapes DEF MayAsk
<1>2. \A u \in DbUserIds : DelJob # CrJob(u) /\ DelJob # DrJob(u)
  BY DbDistinct
<1>3. \A b \in DbDumpIds : DelJob # DuJob(b)
  BY DbDistinct
<1>4. DelJob # <<"create_db", 0>>
  BY DbDistinct
<1>5. DbAsked' /\ DbWorkers' /\ dbJob' \in [DbJobs -> DbJobRecs]
  BY <1>1, <1>2, <1>3, <1>4, DbAskedStays DEF DbInv, DbAsked
<1>6. DbTypeOK'
  BY <1>5, DbTypesNow, DbTypesAfter
<1>7. dbHarm' = {} /\ dbRow.state # "deleted" => UsersSound'
  BY <1>1, UsersStayAsked
<1>. QED
  BY <1>1, <1>5, <1>6, <1>7, DbAskKeeps

LEMMA RotateDbPasswordKeeps == ASSUME DbInv, RotateDbPassword PROVE DbInv'
<1>1. DbFaulty /\ UNCHANGED <<dbRow, dbUser, dbBackup, dbJob, dbNode, dbLate, dbClock>> /\ dbSecret' \in BOOLEAN
  BY DEF RotateDbPassword, DbFaulty
<1>. QED
  BY <1>1, DbTypesNow, DbQuietStepKeeps

LEMMA DbTickKeeps == ASSUME DbInv, DbTick PROVE DbInv'
<1>1. DbFaulty /\ UNCHANGED <<dbRow, dbUser, dbBackup, dbJob, dbNode, dbLate, dbSecret>>
  BY DEF DbTick, DbFaulty
<1>2. dbClock' \in 0 .. MaxDbClock
  BY DbTypesNow, DatabaseAssumption DEF DbTick
<1>. QED
  BY <1>1, <1>2, DbTypesNow, DbQuietStepKeeps

LEMMA RequestDbDeleteKeeps == ASSUME DbInv, RequestDbDelete PROVE DbInv'
<1>1. DbFaulty /\ UNCHANGED <<dbUser, dbBackup, dbJob, dbNode, dbLate, dbSecret, dbClock>>
  BY DEF RequestDbDelete, DbFaulty
<1>2. dbClock + 1 \in 0 .. MaxDbClock + 1
  BY DbTypesNow, DatabaseAssumption
<1>3. dbRow' = [state |-> "pending_delete", due |-> dbClock + 1] /\ dbRow.state \in {"active", "suspended"}
  BY DEF RequestDbDelete, DbTransition
<1>4. dbRow' \in DbRowRecs /\ dbRow'.state = "pending_delete"
  BY <1>2, <1>3 DEF DbRowRecs
<1>. QED
  BY <1>1, <1>3, <1>4, DbTypesNow, DbQuietStepKeeps

LEMMA CancelDbDeleteKeeps == ASSUME DbInv, CancelDbDelete PROVE DbInv'
<1>1. DbFaulty /\ UNCHANGED <<dbUser, dbBackup, dbJob, dbNode, dbLate, dbSecret, dbClock>>
  BY DEF CancelDbDelete, DbFaulty
<1>2. 0 \in 0 .. MaxDbClock + 1
  BY DatabaseAssumption
<1>3. dbRow' = [state |-> "active", due |-> 0] /\ dbRow.state = "pending_delete"
  BY DEF CancelDbDelete, DbTransition
<1>4. dbRow' \in DbRowRecs /\ dbRow'.state = "active"
  BY <1>2, <1>3 DEF DbRowRecs
<1>. QED
  BY <1>1, <1>3, <1>4, DbTypesNow, DbQuietStepKeeps

\* A job that is neither on the account nor a dump is asked for, and nothing else moves.
LEMMA DbAskOnlyKeeps ==
  ASSUME DbInv, NEW j \in {<<"restore", 0>>, DelJob}, dbJob[j].state = "none", dbJob' = DbQueued(j),
         UNCHANGED <<dbRow, dbUser, dbSecret, dbBackup, dbNode, dbLate, dbClock, dbFlt>>
  PROVE  DbInv'
<1>1. j \in DbJobs \ UserJobs /\ MayAsk(j) /\ DbFaulty
  BY DbShapes DEF MayAsk, DbFaulty
<1>2. \A u \in DbUserIds : j # CrJob(u) /\ j # DrJob(u)
  BY DbDistinct
<1>3. \A b \in DbDumpIds : j # DuJob(b)
  BY DbDistinct
<1>4. j # <<"create_db", 0>>
  BY DbDistinct
<1>5. DbAsked' /\ DbWorkers' /\ dbJob' \in [DbJobs -> DbJobRecs]
  BY <1>1, <1>2, <1>3, <1>4, DbAskedStays DEF DbInv, DbAsked
<1>6. DbTypeOK'
  BY <1>1, <1>5, DbTypesNow, DbTypesAfter
<1>7. dbHarm' = {} /\ dbRow.state # "deleted" => UsersSound'
  BY <1>1, UsersStayAsked
<1>. QED
  BY <1>1, <1>3, <1>5, <1>6, <1>7, DbAskKeeps

LEMMA RequestRestoreKeeps == ASSUME DbInv, RequestRestore PROVE DbInv'
BY DbAskOnlyKeeps DEF RequestRestore

LEMMA EnqueueDbDeleteKeeps == ASSUME DbInv, EnqueueDbDelete PROVE DbInv'
<1>1. dbJob[DelJob].state = "none" /\ dbJob' = DbQueued(DelJob)
      /\ UNCHANGED <<dbRow, dbUser, dbSecret, dbBackup, dbNode, dbLate, dbClock, dbFlt>>
  BY DEF EnqueueDbDelete, DelJob
<1>. QED
  BY <1>1, DbAskOnlyKeeps

LEMMA RequestDumpKeeps == ASSUME DbInv, NEW b \in DbDumpIds, RequestDump(b) PROVE DbInv'
<1>1. DuJob(b) \in DbJobs \ UserJobs /\ dbBackup[b] = "absent" /\ dbJob[DuJob(b)].state = "none"
  BY DbShapes DEF RequestDump, DbInv, DbAsked
<1>2. /\ MayAsk(DuJob(b)) /\ DbFaulty /\ dbLate' = dbLate /\ dbNode' = dbNode /\ dbUser' = dbUser /\ dbRow' = dbRow
      /\ dbSecret' = dbSecret /\ dbClock' = dbClock
  BY <1>1 DEF RequestDump, DuJob, MayAsk, DbFaulty
<1>3. /\ dbBackup' \in [DbDumpIds -> {"absent", "queued", "running", "completed", "failed"}]
      /\ dbBackup'[b] \in {"queued", "failed"} /\ \A c \in DbDumpIds : c # b => dbBackup'[c] = dbBackup[c]
  BY DbTypesNow DEF RequestDump
<1>4. dbBackup'[b] = IF dbJob' = dbJob THEN "failed" ELSE "queued"
  <2>1. CASE dbBackup' = [dbBackup EXCEPT ![b] = "queued"] /\ dbJob' = DbQueued(DuJob(b))
    <3>1. dbJob'[DuJob(b)].state = "queued"
      BY <1>1, <2>1, DbAskMoves
    <3>2. dbJob' # dbJob
      BY <1>1, <3>1
    <3>. QED
      BY <2>1, <3>2, DbTypesNow
  <2>2. CASE dbBackup' = [dbBackup EXCEPT ![b] = "failed"] /\ dbJob' = dbJob
    BY <2>2, DbTypesNow
  <2>. QED
    BY <2>1, <2>2 DEF RequestDump, DuJob
<1>5. \A u \in DbUserIds : DuJob(b) # CrJob(u) /\ DuJob(b) # DrJob(u)
  BY DbDistinct
<1>6. \A c \in DbDumpIds : c # b => DuJob(b) # DuJob(c)
  BY DbDistinct
<1>7. DuJob(b) # <<"create_db", 0>>
  BY DbDistinct
<1>8. DbAsked' /\ DbWorkers' /\ dbJob' \in [DbJobs -> DbJobRecs]
  <2>1. \A c \in DbDumpIds : dbBackup'[c] = "absent" => dbBackup[c] = "absent" /\ DuJob(b) # DuJob(c)
    BY <1>3, <1>6
  <2>. QED
    BY <1>1, <1>2, <1>5, <1>7, <2>1, DbAskedStays DEF DbInv, DbAsked
<1>9. DbTypeOK'
  BY <1>2, <1>3, <1>8, DbTypesNow, DbTypesAfter
<1>10. dbHarm' = {} /\ dbRow.state # "deleted" => UsersSound'
  BY <1>1, <1>2, UsersStayAsked
<1>11. \A c \in DbDumpIds : \/ dbBackup'[c] = dbBackup[c] /\ (DuJob(b) # DuJob(c) \/ dbJob' = dbJob)
                            \/ dbJob[DuJob(c)].state = "none" /\ dbBackup'[c] = IF dbJob' = dbJob THEN "failed" ELSE "queued"
  BY <1>1, <1>3, <1>4, <1>6
<1>. QED
  BY <1>1, <1>2, <1>8, <1>9, <1>10, <1>11, DbAskKeeps

\* A row of the user name is written, and its job asked for.
LEMMA UserRowKeeps ==
  ASSUME DbInv, NEW u \in DbUserIds, NEW st \in {"active", "revoked"}, NEW j, j = IF st = "active" THEN CrJob(u) ELSE DrJob(u),
         dbUser[u] = IF st = "active" THEN "absent" ELSE "active",
         st = "active" => ~NameTaken /\ \A v \in 1..u-1 : dbUser[v] # "absent",
         dbUser' = [dbUser EXCEPT ![u] = st], EnqueueIgnored(j), dbSecret' \in BOOLEAN,
         UNCHANGED <<dbRow, dbBackup, dbNode, dbLate, dbClock>>
  PROVE  DbInv'
<1>1. j \in UserJobs /\ j \in DbJobs /\ dbJob[j].state = "none"
  BY DbShapes DEF DbInv, DbAsked
<1>2. MayAsk(j) /\ DbFaulty
  BY <1>1 DEF EnqueueIgnored, MayAsk, DbFaulty
<1>3. dbUser' \in [DbUserIds -> {"absent", "active", "revoked"}] /\ dbUser'[u] = st /\ \A v \in DbUserIds : v # u => dbUser'[v] = dbUser[v]
  BY DbTypesNow
<1>4. \A v \in DbUserIds : dbUser'[v] = "absent" => dbUser[v] = "absent" /\ j # CrJob(v)
  BY <1>3, DbDistinct
<1>5. \A v \in DbUserIds : dbUser'[v] # "revoked" => dbUser[v] # "revoked" /\ j # DrJob(v)
  BY <1>3, DbDistinct
<1>6. ASSUME NEW v \in DbUserIds, NEW w \in DbUserIds, v < w, dbUser'[w] # "absent" PROVE dbUser'[v] = "revoked"
  <2>1. CASE dbUser[w] # "absent"
    <3>1. dbUser[v] = "revoked"
      BY <1>6, <2>1 DEF DbInv, DbAsked
    <3>. QED
      BY <3>1, <1>3
  <2>2. CASE dbUser[w] = "absent"
    <3>1. w = u /\ st = "active"
      BY <1>3, <1>6, <2>2
    <3>2. v \in 1 .. u - 1 /\ v # u
      BY <1>6, <3>1, DatabaseAssumption DEF DbUserIds
    <3>3. dbUser[v] # "absent" /\ dbUser[v] # "active"
      BY <3>1, <3>2 DEF NameTaken
    <3>. QED
      BY <3>2, <3>3, <1>3, DbTypesNow
  <2>. QED
    BY <2>1, <2>2
<1>7. j # <<"create_db", 0>> /\ \A b \in DbDumpIds : j # DuJob(b)
  BY DbDistinct
<1>8. DbAsked' /\ DbWorkers' /\ dbJob' \in [DbJobs -> DbJobRecs]
  BY <1>1, <1>2, <1>4, <1>5, <1>6, <1>7, DbAskedStays
<1>9. DbTypeOK'
  BY <1>2, <1>3, <1>8, DbTypesNow, DbTypesAfter
<1>10. ASSUME dbHarm' = {}, dbRow.state # "deleted" PROVE UsersSound'
  <2>1. dbJob' = DbQueued(j)
    BY <1>10 DEF EnqueueIgnored, DbFault
  <2>2. UsersSound
    BY <1>2, <1>10, DbFaultsCount DEF DbInv, DbClean
  <2>3. \A v \in DbUserIds : dbUser'[v] # "absent" => dbUser[v] # "absent" \/ j = CrJob(v)
    BY <1>3
  <2>4. \A v \in DbUserIds : dbUser'[v] = "revoked" => dbUser[v] = "revoked" \/ j = DrJob(v)
    BY <1>3
  <2>. QED
    BY <1>1, <2>1, <2>2, <2>3, <2>4, UsersAsk
<1>. QED
  BY <1>1, <1>2, <1>7, <1>8, <1>9, <1>10, DbAskKeeps

LEMMA CreateDbUserKeeps == ASSUME DbInv, NEW u \in DbUserIds, CreateDbUser(u) PROVE DbInv'
<1>1. CASE dbUser' = dbUser /\ dbJob' = dbJob /\ UNCHANGED dbFlt /\ dbSecret' = FALSE
  <2>1. DbFaulty /\ UNCHANGED <<dbRow, dbUser, dbBackup, dbJob, dbNode, dbLate, dbClock>>
    BY <1>1 DEF CreateDbUser, DbFaulty
  <2>. QED
    BY <1>1, <2>1, DbTypesNow, DbQuietStepKeeps
<1>2. CASE ~NameTaken /\ dbUser' = [dbUser EXCEPT ![u] = "active"] /\ dbSecret' = TRUE /\ EnqueueIgnored(CrJob(u))
  <2>1. dbUser[u] = "absent" /\ (\A v \in 1..u-1 : dbUser[v] # "absent") /\ UNCHANGED <<dbRow, dbBackup, dbNode, dbLate, dbClock>>
    BY DEF CreateDbUser
  <2>. QED
    BY <1>2, <2>1, UserRowKeeps
<1>. QED
  BY <1>1, <1>2 DEF CreateDbUser, CrJob

LEMMA RevokeDbUserKeeps == ASSUME DbInv, NEW u \in DbUserIds, RevokeDbUser(u) PROVE DbInv'
<1>1. dbUser[u] = "active" /\ dbUser' = [dbUser EXCEPT ![u] = "revoked"] /\ EnqueueIgnored(DrJob(u))
      /\ UNCHANGED <<dbRow, dbSecret, dbBackup, dbNode, dbLate, dbClock>>
  BY DEF RevokeDbUser, DrJob
<1>. QED
  BY <1>1, DbTypesNow, UserRowKeeps
-----------------------------------------------------------------------------
\* The steps of the handlers and of the node.

LEMMA HandlerAsked ==
  ASSUME DbInv, NEW j \in DbJobs, dbJob[j].state # "none", \A i \in DbJobs : i # j => dbJob'[i] = dbJob[i], dbUser' = dbUser,
         dbRow'.state = "absent" => dbRow.state = "absent", \A b \in DbDumpIds : dbBackup'[b] = "absent" => dbBackup[b] = "absent",
         DelJob \notin dbLate', dbRow'.state = "deleted" => dbJob'[DelJob].state = "succeeded" /\ DbWorkerIdle'
  PROVE  DbAsked'
<1>1. \A i \in DbJobs : dbJob[i].state = "none" => dbJob'[i].state = "none"
  OBVIOUS
<1>2. dbRow'.state = "absent" => dbJob'[<<"create_db", 0>>].state = "none"
  BY <1>1, DbShapes DEF DbInv, DbAsked
<1>3. \A u \in DbUserIds : dbUser[u] = "absent" => dbJob'[CrJob(u)].state = "none"
  BY <1>1, DbShapes DEF DbInv, DbAsked
<1>4. \A u \in DbUserIds : dbUser[u] # "revoked" => dbJob'[DrJob(u)].state = "none"
  BY <1>1, DbShapes DEF DbInv, DbAsked
<1>5. \A b \in DbDumpIds : dbBackup'[b] = "absent" => dbJob'[DuJob(b)].state = "none"
  BY <1>1, DbShapes DEF DbInv, DbAsked
<1>6. \A u, v \in DbUserIds : u < v /\ dbUser[v] # "absent" => dbUser[u] = "revoked"
  BY DEF DbInv, DbAsked
<1>. QED
  BY <1>2, <1>3, <1>4, <1>5, <1>6 DEF DbAsked, DelJob, CrJob, DrJob, DuJob

\* A job on the account that was asked for later than another finds it asked for.
LEMMA EarlierAsked ==
  ASSUME DbInv, UsersSound, NEW i \in UserJobs, NEW j \in UserJobs, AskedBefore(i, j), dbJob[j].state # "none"
  PROVE  dbJob[i].state # "none"
<1>1. PICK u \in DbUserIds : i = CrJob(u) \/ i = DrJob(u)
  BY DbShapes
<1>2. PICK v \in DbUserIds : j = CrJob(v) \/ j = DrJob(v)
  BY DbShapes
<1>3. dbUser[v] # "absent" /\ (j = DrJob(v) => dbUser[v] = "revoked")
  BY <1>2 DEF DbInv, DbAsked
<1>4. CASE u < v
  BY <1>1, <1>3, <1>4 DEF DbInv, DbAsked, UsersSound
<1>5. CASE u = v /\ i = CrJob(u)
  BY <1>3, <1>5 DEF UsersSound
<1>6. u < v \/ (u = v /\ i = CrJob(u))
  <2>1. AskedBefore(DrJob(u), DrJob(v)) => u < v
    BY AskedOrder
  <2>2. AskedBefore(CrJob(u), CrJob(v)) => u < v
    BY AskedOrder
  <2>3. AskedBefore(DrJob(u), CrJob(v)) => u < v
    BY AskedOrder
  <2>4. AskedBefore(CrJob(u), DrJob(v)) => u < v \/ u = v
    BY AskedOrder
  <2>. QED
    BY <1>1, <1>2, <2>1, <2>2, <2>3, <2>4
<1>. QED
  BY <1>4, <1>5, <1>6

\* The operation a running handler waits for.
LEMMA OpOfShape ==
  ASSUME DbInv, NEW j \in DbJobs, dbJob[j].at \in {"op", "drop"}
  PROVE  /\ dbJob[j].state = "running" /\ OpOf(j) \in DbOps
         /\ j # DelJob => OpOf(j) = j /\ dbJob[j].at = "op"
         /\ j = DelJob => OpOf(j) = IF dbJob[j].at = "op" THEN DuJob(0) ELSE <<"drop_db", 0>>
<1>1. dbJob[j].state = "running" /\ (dbJob[j].at = "drop" => j = DelJob)
  BY DEF DbInv, DbWorkers
<1>2. j[1] = "delete" <=> j = DelJob
  BY DEF DbJobs, DelJob
<1>. QED
  BY <1>1, <1>2 DEF OpOf, DbOps, DuJob

\* What an operation changes on the node.
LEMMA EffectsAre ==
  ASSUME DbInv, NEW o \in DbOps
  PROVE  /\ NodeEffect(o) \in DbNodes /\ FailedEffect(o) \in DbNodes
         /\ dbNode.dumps \subseteq NodeEffect(o).dumps /\ (o[1] = "dump" => o[2] \in NodeEffect(o).dumps)
         /\ NodeEffect(o).db = IF o[1] = "create_db" THEN TRUE ELSE IF o[1] = "drop_db" THEN FALSE ELSE dbNode.db
         /\ NodeEffect(o).user = IF o[1] = "create_user" THEN TRUE ELSE IF o[1] = "drop_user" THEN FALSE ELSE dbNode.user
         /\ FailedEffect(o).db = dbNode.db /\ FailedEffect(o).user = dbNode.user
         /\ \A d \in dbNode.dumps : d \in FailedEffect(o).dumps \/ o = DuJob(d)
<1>1. dbNode \in DbNodes
  BY DbTypesNow
<1>2. o[1] \in {"create_db", "restore", "create_user", "drop_user", "dump", "drop_db"}
      /\ (o[1] = "dump" => o[2] \in DbDumpIds \cup {0} /\ o = DuJob(o[2]))
  BY DEF DbOps, DbJobs, DelJob, DuJob
<1>3. CASE o[1] = "dump"
  BY <1>1, <1>2, <1>3 DEF NodeEffect, DumpEffect, FailedEffect, DbNodes
<1>4. CASE o[1] = "restore"
  BY <1>1, <1>2, <1>4 DEF NodeEffect, FailedEffect, DbNodes
<1>5. CASE o[1] = "create_db"
  BY <1>1, <1>2, <1>5 DEF NodeEffect, ManageEffect, FailedEffect, DbNodes
<1>6. CASE o[1] = "drop_db"
  BY <1>1, <1>2, <1>6 DEF NodeEffect, ManageEffect, FailedEffect, DbNodes
<1>7. CASE o[1] = "create_user"
  BY <1>1, <1>2, <1>7 DEF NodeEffect, ManageEffect, FailedEffect, DbNodes
<1>8. CASE o[1] = "drop_user"
  BY <1>1, <1>2, <1>8 DEF NodeEffect, ManageEffect, FailedEffect, DbNodes
<1>. QED
  BY <1>2, <1>3, <1>4, <1>5, <1>6, <1>7, <1>8

\* The row of the dump fails with its job.
LEMMA BackupsFail ==
  ASSUME DbInv, NEW j \in DbJobs, dbBackup' = [b \in DbDumpIds |-> IF j = DuJob(b) THEN "failed" ELSE dbBackup[b]]
  PROVE  /\ dbBackup' \in [DbDumpIds -> {"absent", "queued", "running", "completed", "failed"}]
         /\ \A b \in DbDumpIds : (j = DuJob(b) => dbBackup'[b] = "failed") /\ (j # DuJob(b) => dbBackup'[b] = dbBackup[b])
BY DbTypesNow

LEMMA DbHandlerFails ==
  ASSUME DbInv, NEW j \in DbJobs, dbJob[j].at \in {"op", "drop"}, FailDbJob(j), DbFaulty,
         dbNode' \in {dbNode, FailedEffect(OpOf(j))}, dbLate' \in {dbLate, dbLate \cup {OpOf(j)}},
         dbHarm' = {} => j \notin UserJobs /\ dbLate' = dbLate,
         UNCHANGED <<dbRow, dbUser, dbSecret, dbClock>>
  PROVE  DbInv'
<1> DEFINE o == OpOf(j)
<1>1. /\ dbJob[j].state = "running" /\ o \in DbOps /\ (j # DelJob => o = j)
      /\ j = DelJob => o = DuJob(0) \/ o = <<"drop_db", 0>>
  BY OpOfShape
<1>2. /\ dbJob' \in [DbJobs -> DbJobRecs] /\ dbJob'[j].state = "failed" /\ dbJob'[j].at = "idle"
      /\ (\A i \in DbJobs : i # j => dbJob'[i] = dbJob[i]) /\ DbWorkers'
  BY DbEndMoves DEF FailDbJob
<1>3. /\ dbBackup' \in [DbDumpIds -> {"absent", "queued", "running", "completed", "failed"}]
      /\ \A b \in DbDumpIds : (j = DuJob(b) => dbBackup'[b] = "failed") /\ (j # DuJob(b) => dbBackup'[b] = dbBackup[b])
  BY BackupsFail DEF FailDbJob, DuJob
<1>4. /\ dbNode' \in DbNodes /\ dbNode'.db = dbNode.db /\ dbNode'.user = dbNode.user
      /\ \A d \in dbNode.dumps : d \in dbNode'.dumps \/ o = DuJob(d)
  BY <1>1, EffectsAre, DbTypesNow
<1>5. o # DelJob /\ o \in DbJobs \cup {<<"drop_db", 0>>, <<"dump", 0>>}
  BY <1>1 DEF DbOps, DuJob, DelJob
<1>6. dbLate' \subseteq dbLate \cup {o}
  OBVIOUS
<1>7. DbFaulty /\ UNCHANGED <<dbRow, dbUser, dbSecret, dbClock>>
  OBVIOUS
<1>8. dbHarm' = {} => j \notin UserJobs /\ dbLate' = dbLate
  OBVIOUS
<1> HIDE DEF o
<1>9. dbRow.state # "deleted"
  BY <1>1 DEF DbInv, DbAsked, DbWorkerIdle
<1>10. DbTypeOK'
  BY <1>2, <1>3, <1>4, <1>5, <1>6, <1>7, DbTypesNow, DbTypesAfter
<1>11. DbAsked'
  <2>1. DelJob \notin dbLate'
    BY <1>5, <1>6 DEF DbInv, DbAsked
  <2>2. \A b \in DbDumpIds : dbBackup'[b] = "absent" => dbBackup[b] = "absent"
    BY <1>3
  <2>. QED
    BY <1>1, <1>2, <1>7, <1>9, <2>1, <2>2, HandlerAsked
<1>12. dbHarm \subseteq dbHarm'
  BY <1>7, DbFaultsCount
<1>13. ASSUME "crash" \notin dbHarm' PROVE DbSteady'
  <2>0. DbSteady
    BY <1>12, <1>13 DEF DbInv
  <2>1. ASSUME NEW b \in DbDumpIds PROVE BackupSound(b)'
    <3>1. CASE j = DuJob(b)
      BY <1>2, <1>3, <3>1 DEF BackupSound, DuJob
    <3>2. CASE j # DuJob(b)
      <4>1. b # 0 /\ DuJob(b) # DuJob(0) /\ DuJob(b) # <<"drop_db", 0>>
        BY DatabaseAssumption DEF DbDumpIds, DuJob
      <4>2. o # DuJob(b)
        BY <1>1, <3>2, <4>1
      <4>3. DuJob(b) \in dbLate' => DuJob(b) \in dbLate
        BY <1>6, <4>2
      <4>4. b \in dbNode.dumps => b \in dbNode'.dumps
        BY <1>4, <4>2
      <4>5. dbJob'[DuJob(b)] = dbJob[DuJob(b)] /\ dbBackup'[b] = dbBackup[b] /\ BackupSound(b)
        BY <1>2, <1>3, <2>0, <3>2, DbShapes DEF DbSteady
      <4>. QED
        BY <4>3, <4>4, <4>5, BackupStays
    <3>. QED
      BY <3>1, <3>2
  <2>2. dbJob'[DelJob].at \in {"drop", "tombstone"} => 0 \in dbNode'.dumps
    <3>1. SUFFICES ASSUME dbJob'[DelJob].at \in {"drop", "tombstone"} PROVE 0 \in dbNode'.dumps
      OBVIOUS
    <3>2. j # DelJob /\ dbJob[DelJob] = dbJob'[DelJob]
      BY <1>2, <3>1, DbShapes
    <3>3. 0 \in dbNode.dumps
      BY <2>0, <3>1, <3>2 DEF DbSteady
    <3>4. DuJob(0) \notin DbJobs
      BY DatabaseAssumption DEF DuJob, DbJobs, DbDumpIds
    <3>. QED
      BY <1>1, <1>4, <3>2, <3>3, <3>4
  <2>3. ASSUME DuJob(0) \in dbLate' PROVE dbJob'[DelJob].state = "failed"
    <3>1. CASE j = DelJob
      BY <1>2, <3>1
    <3>2. CASE j # DelJob
      <4>1. DuJob(0) \notin DbJobs
        BY DatabaseAssumption DEF DuJob, DbJobs, DbDumpIds
      <4>2. DuJob(0) \in dbLate
        BY <1>1, <1>6, <2>3, <3>2, <4>1
      <4>. QED
        BY <1>2, <2>0, <3>2, <4>2, DbShapes DEF DbSteady
    <3>. QED
      BY <3>1, <3>2
  <2>4. \A i \in DbJobs : dbJob'[i].state = "queued" => dbJob'[i].tries = 0
    BY <1>2, <2>0 DEF DbSteady
  <2>. QED
    BY <1>7, <1>9, <2>1, <2>2, <2>3, <2>4 DEF DbSteady, DelJob, DuJob
<1>14. ASSUME dbHarm' = {} PROVE DbClean'
  <2>0. DbClean /\ j \notin UserJobs /\ dbLate' = dbLate
    BY <1>8, <1>12, <1>14 DEF DbInv
  <2>1. UsersSound'
    <3>1. UsersSound /\ \A i \in UserJobs : dbJob'[i] = dbJob[i]
      BY <1>2, <1>9, <2>0, DbShapes DEF DbClean
    <3>. QED
      BY <1>4, <1>7, <3>1, UsersStay
  <2>2. dbJob'[DelJob].at = "tombstone" => dbJob[DelJob].at = "tombstone"
    BY <1>2, DbShapes
  <2>. QED
    BY <1>4, <1>7, <1>9, <2>0, <2>1, <2>2 DEF DbClean, DelJob
<1>. QED
  BY <1>2, <1>10, <1>11, <1>13, <1>14 DEF DbInv
\* The operation has answered: the handler goes on, and only the last of the jobs
\* on the account has the account.
LEMMA UsersCarry ==
  ASSUME DbInv, UsersSound, NEW j \in UserJobs, dbJob[j].state = "running", dbJob[j].at = "op",
         dbJob'[j].state = "running", dbJob'[j].at = "record", \A i \in DbJobs : i # j => dbJob'[i] = dbJob[i],
         dbUser' = dbUser, dbNode'.user <=> j[1] = "create_user"
  PROVE  UsersSound'
<1>1. \A i \in UserJobs : i # j => dbJob'[i] = dbJob[i] /\ (Carried(i)' <=> Carried(i))
  BY DbShapes DEF Carried
<1>2. Carried(j)'
  BY DEF Carried
<1>3. ASSUME NEW i \in UserJobs, AskedBefore(j, i) PROVE ~Carried(i)'
  <2>1. i # j
    BY <1>3, AskedInOrder
  <2>2. ~(dbJob[i].state \in {"running", "succeeded"})
    BY <1>3 DEF UsersSound
  <2>3. dbJob[i].at # "record"
    BY <2>2, DbShapes DEF DbInv, DbWorkers
  <2>. QED
    BY <1>1, <2>1, <2>2, <2>3 DEF Carried
<1>5. PICK u \in DbUserIds : j = CrJob(u) \/ j = DrJob(u)
  BY DbShapes
<1>6a. (dbNode'.user => j = CrJob(u)) /\ (~dbNode'.user => j = DrJob(u))
  BY <1>5 DEF CrJob, DrJob
<1>6. dbNode'.user => LastCarried(CrJob(u))'
  <2>1. SUFFICES ASSUME dbNode'.user PROVE LastCarried(CrJob(u))'
    OBVIOUS
  <2>2. j = CrJob(u)
    BY <1>6a, <2>1
  <2>. QED
    BY <1>2, <1>3, <2>2 DEF LastCarried, AskedBefore, CrJob
<1>7. ~dbNode'.user => LastCarried(DrJob(u))'
  <2>1. SUFFICES ASSUME ~dbNode'.user PROVE LastCarried(DrJob(u))'
    OBVIOUS
  <2>2. j = DrJob(u)
    BY <1>6a, <2>1
  <2>. QED
    BY <1>2, <1>3, <2>2 DEF LastCarried, AskedBefore, DrJob
<1>8. \A i \in UserJobs : dbJob'[i].state # "failed"
  BY <1>1 DEF UsersSound
<1>9. \A v \in DbUserIds : dbUser'[v] # "absent" => dbJob'[CrJob(v)].state # "none"
  BY <1>1, DbShapes DEF UsersSound
<1>10. \A v \in DbUserIds : dbUser'[v] = "revoked" => dbJob'[DrJob(v)].state # "none"
  BY <1>1, DbShapes DEF UsersSound
<1>11. \A i, k \in UserJobs : AskedBefore(i, k) /\ dbJob'[k].state \in {"running", "succeeded"} => dbJob'[i].state = "succeeded"
  BY <1>1 DEF UsersSound
<1>. QED
  BY <1>6, <1>7, <1>8, <1>9, <1>10, <1>11 DEF UsersSound, CrJob, DrJob, AskedBefore

LEMMA DbHandlerGoesOn ==
  ASSUME DbInv, NEW j \in DbJobs, dbJob[j].at \in {"op", "drop"}, dbNode' = NodeEffect(OpOf(j)),
         dbJob' = [dbJob EXCEPT ![j].at = AfterOp(j)],
         UNCHANGED <<dbBackup, dbHarm, dbFaults, dbRow, dbUser, dbSecret, dbLate, dbClock>>
  PROVE  DbInv'
<1> DEFINE o == OpOf(j)
           at == AfterOp(j)
<1>1. /\ dbJob[j].state = "running" /\ o \in DbOps /\ (j # DelJob => o = j /\ dbJob[j].at = "op")
      /\ j = DelJob => o = IF dbJob[j].at = "op" THEN DuJob(0) ELSE <<"drop_db", 0>>
  BY OpOfShape
<1>2. at = IF j # DelJob THEN "record" ELSE IF dbJob[j].at = "op" THEN "drop" ELSE "tombstone"
  BY DEF AfterOp, DelJob, DbJobs
<1>3. /\ dbJob' \in [DbJobs -> DbJobRecs] /\ dbJob'[j].state = "running" /\ dbJob'[j].at = at /\ dbJob'[j].tries = dbJob[j].tries
      /\ (\A i \in DbJobs : i # j => dbJob'[i] = dbJob[i]) /\ DbWorkers'
  BY <1>1, <1>2, DbStepMoves
<1>4. /\ dbNode' \in DbNodes /\ dbNode.dumps \subseteq dbNode'.dumps /\ (o[1] = "dump" => o[2] \in dbNode'.dumps)
      /\ dbNode'.db = IF o[1] = "create_db" THEN TRUE ELSE IF o[1] = "drop_db" THEN FALSE ELSE dbNode.db
      /\ dbNode'.user = IF o[1] = "create_user" THEN TRUE ELSE IF o[1] = "drop_user" THEN FALSE ELSE dbNode.user
  BY <1>1, EffectsAre
<1> HIDE DEF o, at
<1>5. DbFaulty /\ UNCHANGED <<dbBackup, dbRow, dbUser, dbSecret, dbLate, dbClock>> /\ dbHarm' = dbHarm
  BY DEF DbFaulty, dbFlt
<1>6. dbRow.state # "deleted"
  BY <1>1 DEF DbInv, DbAsked, DbWorkerIdle
<1>7. DbTypeOK'
  BY <1>3, <1>4, <1>5, DbTypesNow, DbTypesAfter
<1>8. DbAsked'
  <2>1. DelJob \notin dbLate'
    BY <1>5 DEF DbInv, DbAsked
  <2>. QED
    BY <1>1, <1>3, <1>5, <1>6, <2>1, HandlerAsked
<1>9. ASSUME "crash" \notin dbHarm' PROVE DbSteady'
  <2>0. DbSteady
    BY <1>5, <1>9 DEF DbInv
  <2>1. ASSUME NEW b \in DbDumpIds PROVE BackupSound(b)'
    <3>0. BackupSound(b)
      BY <2>0 DEF DbSteady
    <3>1. CASE j = DuJob(b)
      <4>1. j # DelJob
        BY <3>1, DbDistinct
      <4>2. b \in dbNode'.dumps
        BY <1>1, <1>4, <3>1, <4>1 DEF DuJob
      <4>3. dbBackup'[b] = "running" /\ DuJob(b) \notin dbLate'
        BY <1>1, <1>5, <3>0, <3>1 DEF BackupSound
      <4>. QED
        BY <1>3, <3>1, <4>2, <4>3 DEF BackupSound, DuJob
    <3>2. CASE j # DuJob(b)
      <4>1. dbJob'[DuJob(b)] = dbJob[DuJob(b)]
        BY <1>3, <3>2, DbShapes
      <4>. QED
        BY <1>4, <1>5, <3>0, <4>1, BackupStays
    <3>. QED
      BY <3>1, <3>2
  <2>2. ASSUME dbJob'[DelJob].at \in {"drop", "tombstone"} PROVE 0 \in dbNode'.dumps
    <3>1. CASE j = DelJob /\ dbJob[j].at = "op"
      BY <1>1, <1>4, <3>1 DEF DuJob
    <3>2. CASE ~(j = DelJob /\ dbJob[j].at = "op")
      <4>1. dbJob[DelJob].at \in {"drop", "tombstone"}
        BY <1>3, <2>2, <3>2, DbShapes
      <4>. QED
        BY <1>4, <2>0, <4>1 DEF DbSteady
    <3>. QED
      BY <3>1, <3>2
  <2>3. DuJob(0) \in dbLate => dbJob'[DelJob].state = "failed"
    BY <1>1, <1>3, <2>0, DbShapes DEF DbSteady
  <2>4. \A i \in DbJobs : dbJob'[i].state = "queued" => dbJob'[i].tries = 0
    BY <1>3, <2>0 DEF DbSteady
  <2>. QED
    BY <1>5, <1>6, <2>1, <2>2, <2>3, <2>4 DEF DbSteady, DelJob, DuJob
<1>10. ASSUME dbHarm' = {} PROVE DbClean'
  <2>0. DbClean /\ UsersSound
    BY <1>5, <1>6, <1>10 DEF DbInv, DbClean
  <2>1. ASSUME dbJob'[DelJob].at = "tombstone" PROVE ~dbNode'.db
    <3>1. j = DelJob
      <4>1. CASE j # DelJob
        <5>1. dbJob[DelJob].at = "tombstone"
          BY <1>3, <2>1, <4>1, DbShapes
        <5>2. dbJob[DelJob].state = "running"
          BY <5>1, DbShapes DEF DbInv, DbWorkers
        <5>3. DelJob \in DbJobs
          BY DbShapes
        <5>. QED
          BY <1>1, <5>2, <5>3 DEF DbInv, DbWorkers
      <4>. QED
        BY <4>1
    <3>2. o = <<"drop_db", 0>>
      BY <1>1, <1>2, <1>3, <2>1, <3>1
    <3>. QED
      BY <1>4, <3>2
  <2>2. UsersSound'
    <3>1. CASE j \in UserJobs
      <4>1. j # DelJob /\ j[1] \in {"create_user", "drop_user"}
        BY <3>1, DbShapes DEF UserJobs
      <4>2. dbNode'.user <=> j[1] = "create_user"
        BY <1>1, <1>4, <4>1
      <4>. QED
        BY <1>1, <1>2, <1>3, <1>5, <2>0, <3>1, <4>1, <4>2, UsersCarry
    <3>2. CASE j \notin UserJobs
      <4>1. \A i \in UserJobs : dbJob'[i] = dbJob[i]
        BY <1>3, <3>2, DbShapes
      <4>2. o[1] \notin {"create_user", "drop_user"}
        BY <1>1, <3>2 DEF UserJobs, DbJobs, DelJob, DuJob
      <4>. QED
        BY <1>4, <1>5, <2>0, <4>1, <4>2, UsersStay
    <3>. QED
      BY <3>1, <3>2
  <2>. QED
    BY <1>5, <1>6, <2>0, <2>1, <2>2 DEF DbClean, DelJob
<1>. QED
  BY <1>3, <1>7, <1>8, <1>9, <1>10 DEF DbInv

LEMMA DbOpAnswersKeeps == ASSUME DbInv, NEW j \in DbJobs, DbOpAnswers(j) PROVE DbInv'
<1>1. dbJob[j].at \in {"op", "drop"} /\ UNCHANGED <<dbRow, dbUser, dbSecret, dbLate, dbClock>>
  BY DEF DbOpAnswers
<1>2. CASE dbNode' = NodeEffect(OpOf(j)) /\ dbJob' = [dbJob EXCEPT ![j].at = AfterOp(j)] /\ UNCHANGED <<dbBackup, dbFlt>>
  BY <1>1, <1>2, DbHandlerGoesOn DEF dbFlt
<1>3. CASE ~OpPossible(OpOf(j)) /\ dbNode' = FailedEffect(OpOf(j)) /\ FailDbJob(j) /\ UNCHANGED dbFlt
  <2>1. j \notin UserJobs
    <3>1. j \in UserJobs => j # DelJob /\ j[1] \in {"create_user", "drop_user"}
      BY DbShapes DEF UserJobs
    <3>. QED
      BY <1>1, <1>3, <3>1, OpOfShape DEF OpPossible
  <2>. QED
    BY <1>1, <1>3, <2>1, DbHandlerFails DEF DbFaulty
<1>4. CASE DbFault("failed") /\ dbNode' = FailedEffect(OpOf(j)) /\ FailDbJob(j)
  <2>1. dbHarm' # {} /\ DbFaulty
    BY <1>4 DEF DbFault, DbFaulty
  <2>. QED
    BY <1>1, <1>4, <2>1, DbHandlerFails
<1>. QED
  BY <1>2, <1>3, <1>4 DEF DbOpAnswers

LEMMA DbOpTimesOutKeeps == ASSUME DbInv, NEW j \in DbJobs, DbOpTimesOut(j) PROVE DbInv'
<1>1. dbHarm' # {} /\ DbFaulty
  BY DEF DbOpTimesOut, DbFault, DbFaulty
<1>. QED
  BY <1>1, DbHandlerFails DEF DbOpTimesOut

LEMMA LateDbOpKeeps == ASSUME DbInv, NEW o, LateDbOp(o) PROVE DbInv'
<1>1. /\ o \in dbLate /\ dbLate' = dbLate \ {o} /\ dbNode' \in {NodeEffect(o), FailedEffect(o)}
      /\ UNCHANGED <<dbRow, dbUser, dbSecret, dbBackup, dbJob, dbClock, dbFlt>>
  BY DEF LateDbOp
<1>2. o \in DbOps
  BY <1>1, DbTypesNow
<1>3. dbNode' \in DbNodes /\ \A d \in dbNode.dumps : d \in dbNode'.dumps \/ o = DuJob(d)
  BY <1>1, <1>2, EffectsAre
<1>4. dbHarm' = dbHarm /\ dbHarm # {} /\ DbFaulty
  BY <1>1 DEF DbInv, DbClean, DbFaulty, dbFlt
<1>5. DbTypeOK'
  BY <1>1, <1>3, <1>4, DbTypesNow, DbTypesAfter
<1>6. DbWorkers' /\ DbAsked'
  BY <1>1 DEF DbInv, DbWorkers, DbAsked, DbWorkerIdle, DelJob, CrJob, DrJob, DuJob
<1>7. ASSUME "crash" \notin dbHarm' PROVE DbSteady'
  <2>0. DbSteady
    BY <1>4, <1>7 DEF DbInv
  <2>1. ASSUME NEW b \in DbDumpIds PROVE BackupSound(b)'
    <3>0. BackupSound(b) /\ dbBackup'[b] = dbBackup[b] /\ dbJob'[DuJob(b)] = dbJob[DuJob(b)] /\ (DuJob(b) \in dbLate' => DuJob(b) \in dbLate)
      BY <1>1, <2>0 DEF DbSteady
    <3>1. CASE o = DuJob(b)
      <4>1. dbJob[DuJob(b)].state = "failed" /\ dbBackup[b] = "failed"
        BY <1>1, <3>0, <3>1 DEF BackupSound
      <4>2. dbJob[DuJob(b)].at # "record"
        BY <4>1, DbShapes DEF DbInv, DbWorkers
      <4>. QED
        BY <3>0, <4>1, <4>2 DEF BackupSound, DuJob
    <3>2. CASE o # DuJob(b)
      <4>1. b \in dbNode.dumps => b \in dbNode'.dumps
        BY <1>3, <3>2
      <4>. QED
        BY <3>0, <4>1, BackupStays
    <3>. QED
      BY <3>1, <3>2
  <2>2. ASSUME dbJob[DelJob].at \in {"drop", "tombstone"} \/ dbRow.state = "deleted" PROVE 0 \in dbNode'.dumps
    <3>1. dbJob[DelJob].state # "failed"
      BY <2>2, DbShapes DEF DbInv, DbWorkers, DbAsked
    <3>2. o # DuJob(0) /\ 0 \in dbNode.dumps
      BY <1>1, <2>0, <2>2, <3>1 DEF DbSteady
    <3>. QED
      BY <1>3, <3>2
  <2>. QED
    BY <1>1, <2>0, <2>1, <2>2 DEF DbSteady, DelJob, DuJob
<1>. QED
  BY <1>4, <1>5, <1>6, <1>7 DEF DbInv
\* A job is claimed.  A job on the account finds every earlier one done.
LEMMA DbJobRunsKeeps ==
  ASSUME DbInv, NEW j \in DbJobs, DbWorkerIdle, dbJob[j].state = "queued", LongestDue(j), dbRow.state # "deleted",
         dbJob' = [dbJob EXCEPT ![j] = [state |-> "running", tries |-> @.tries + 1, at |-> "op"]],
         dbBackup' = [b \in DbDumpIds |-> IF j = DuJob(b) /\ dbBackup[b] = "queued" THEN "running" ELSE dbBackup[b]],
         UNCHANGED <<dbRow, dbUser, dbSecret, dbNode, dbLate, dbClock, dbHarm, dbFaults>>
  PROVE  DbInv'
<1> DEFINE new == [state |-> "running", tries |-> dbJob[j].tries + 1, at |-> "op"]
<1>1. dbJob[j] \in DbJobRecs /\ dbJob[j].tries < MaxDbAttempts /\ dbJob[j].at = "idle"
  BY DbTypes DEF DbInv, DbWorkers
<1>2. dbJob[j].tries + 1 \in 0 .. MaxDbAttempts
  BY <1>1, DatabaseAssumption DEF DbJobRecs
<1>3. new \in DbJobRecs /\ dbJob' = [dbJob EXCEPT ![j] = new] /\ new.state = "running" /\ new.at = "op"
  BY <1>2 DEF DbJobRecs
<1> HIDE DEF new
<1>4. /\ dbJob' \in [DbJobs -> DbJobRecs] /\ dbJob'[j].state = "running" /\ dbJob'[j].at = "op"
      /\ \A i \in DbJobs : i # j => dbJob'[i] = dbJob[i]
  BY <1>3, JobBecomes
<1>5. DbWorkers'
  BY <1>3, DbWorkersStay DEF Fits
<1>6. /\ dbBackup' \in [DbDumpIds -> {"absent", "queued", "running", "completed", "failed"}]
      /\ \A b \in DbDumpIds : dbBackup'[b] = IF j = DuJob(b) /\ dbBackup[b] = "queued" THEN "running" ELSE dbBackup[b]
  BY DbTypesNow
<1>7. DbFaulty /\ UNCHANGED <<dbRow, dbUser, dbSecret, dbNode, dbLate, dbClock>> /\ dbHarm' = dbHarm
  BY DEF DbFaulty, dbFlt
<1>8. DbTypeOK'
  BY <1>4, <1>6, <1>7, DbTypesNow, DbTypesAfter
<1>9. DbAsked'
  <2>1. DelJob \notin dbLate'
    BY <1>7 DEF DbInv, DbAsked
  <2>2. \A b \in DbDumpIds : dbBackup'[b] = "absent" => dbBackup[b] = "absent"
    BY <1>6
  <2>. QED
    BY <1>4, <1>7, <2>1, <2>2, HandlerAsked
<1>10. ASSUME "crash" \notin dbHarm' PROVE DbSteady'
  <2>0. DbSteady
    BY <1>7, <1>10 DEF DbInv
  <2>1. ASSUME NEW b \in DbDumpIds PROVE BackupSound(b)'
    <3>0. BackupSound(b)
      BY <2>0 DEF DbSteady
    <3>1. CASE j = DuJob(b)
      <4>1. dbBackup'[b] = "running" /\ DuJob(b) \notin dbLate'
        BY <1>6, <1>7, <3>0, <3>1 DEF BackupSound
      <4>. QED
        BY <1>4, <3>1, <4>1 DEF BackupSound, DuJob
    <3>2. CASE j # DuJob(b)
      <4>1. dbJob'[DuJob(b)] = dbJob[DuJob(b)] /\ dbBackup'[b] = dbBackup[b]
        BY <1>4, <1>6, <3>2, DbShapes
      <4>. QED
        BY <1>7, <3>0, <4>1, BackupStays
    <3>. QED
      BY <3>1, <3>2
  <2>2. dbJob'[DelJob].at \in {"drop", "tombstone"} => dbJob[DelJob].at = dbJob'[DelJob].at
    BY <1>4, DbShapes
  <2>3. dbJob[DelJob].state = "failed" => dbJob'[DelJob].state = "failed"
    BY <1>4, DbShapes
  <2>4. \A i \in DbJobs : dbJob'[i].state = "queued" => dbJob'[i].tries = 0
    BY <1>4, <2>0 DEF DbSteady
  <2>. QED
    BY <1>7, <2>0, <2>1, <2>2, <2>3, <2>4 DEF DbSteady, DelJob, DuJob
<1>11. ASSUME dbHarm' = {} PROVE DbClean'
  <2>0. DbClean /\ UsersSound /\ DbSteady
    BY <1>7, <1>11 DEF DbInv, DbClean
  <2>1. dbJob'[DelJob].at = "tombstone" => dbJob[DelJob].at = "tombstone"
    BY <1>4, DbShapes
  <2>2. UsersSound'
    <3>1. CASE j \notin UserJobs
      <4>1. \A i \in UserJobs : dbJob'[i] = dbJob[i]
        BY <1>4, <3>1, DbShapes
      <4>. QED
        BY <1>7, <2>0, <4>1, UsersStay
    <3>2. CASE j \in UserJobs
      <4>1. \A i \in UserJobs : (i # j => dbJob'[i] = dbJob[i]) /\ (Carried(i)' <=> Carried(i))
        BY <1>1, <1>4, DbShapes DEF Carried
      <4>2. ASSUME NEW i \in UserJobs, AskedBefore(i, j) PROVE dbJob[i].state = "succeeded"
        <5>1. dbJob[i].state # "none"
          BY <2>0, <3>2, <4>2, EarlierAsked
        <5>2. dbJob[i].state \notin {"failed", "running"}
          BY <2>0, DbShapes DEF UsersSound, DbWorkerIdle
        <5>3. dbJob[i].state # "queued"
          <6>1. dbJob[i].state = "queued" => dbJob[i].tries = 0 /\ dbJob[i].tries > 0
            BY <2>0, <3>2, <4>2, DbShapes DEF DbSteady, LongestDue
          <6>. QED
            BY <6>1
        <5>. QED
          BY <5>1, <5>2, <5>3, DbTypes, DbShapes DEF DbJobRecs
      <4>3. \A i, k \in UserJobs : AskedBefore(i, k) /\ dbJob'[k].state \in {"running", "succeeded"} => dbJob'[i].state = "succeeded"
        <5>1. SUFFICES ASSUME NEW i \in UserJobs, NEW k \in UserJobs, AskedBefore(i, k), dbJob'[k].state \in {"running", "succeeded"}
                       PROVE dbJob'[i].state = "succeeded"
          OBVIOUS
        <5>2. CASE k = j
          BY <4>1, <4>2, <5>1, <5>2, AskedInOrder
        <5>3. CASE k # j
          <6>1. dbJob[i].state = "succeeded"
            BY <2>0, <4>1, <5>1, <5>3 DEF UsersSound
          <6>. QED
            BY <4>1, <6>1
        <5>. QED
          BY <5>2, <5>3
      <4>4. \A u \in DbUserIds : (LastCarried(CrJob(u))' <=> LastCarried(CrJob(u))) /\ (LastCarried(DrJob(u))' <=> LastCarried(DrJob(u)))
        BY <4>1, DbShapes DEF LastCarried, AskedBefore, CrJob, DrJob
      <4>5. \A i \in UserJobs : dbJob'[i].state # "failed"
        BY <1>4, <2>0, <4>1 DEF UsersSound
      <4>6. \A v \in DbUserIds : dbUser'[v] # "absent" => dbJob'[CrJob(v)].state # "none"
        BY <1>4, <1>7, <2>0, <4>1, DbShapes DEF UsersSound
      <4>7. \A v \in DbUserIds : dbUser'[v] = "revoked" => dbJob'[DrJob(v)].state # "none"
        BY <1>4, <1>7, <2>0, <4>1, DbShapes DEF UsersSound
      <4>8. dbNode'.user => \E u \in DbUserIds : LastCarried(CrJob(u))'
        BY <1>7, <2>0, <4>4 DEF UsersSound
      <4>9. ~dbNode'.user => (\A i \in UserJobs : ~Carried(i)') \/ \E u \in DbUserIds : LastCarried(DrJob(u))'
        BY <1>7, <2>0, <4>1, <4>4 DEF UsersSound
      <4>. QED
        BY <4>3, <4>5, <4>6, <4>7, <4>8, <4>9 DEF UsersSound, CrJob, DrJob, AskedBefore
    <3>. QED
      BY <3>1, <3>2
  <2>. QED
    BY <1>7, <2>0, <2>1, <2>2 DEF DbClean, DelJob
<1>. QED
  BY <1>5, <1>8, <1>9, <1>10, <1>11 DEF DbInv

\* The steps that end a job: what remains to be shown of each.
LEMMA DbJobEndsKeeps ==
  ASSUME DbInv, NEW j \in DbJobs, NEW st \in {"succeeded", "failed"}, dbJob[j].state \in {"queued", "running"}, dbJob' = EndDbJob(j, st),
         dbBackup' \in [DbDumpIds -> {"absent", "queued", "running", "completed", "failed"}], DbFaulty, dbRow' \in DbRowRecs,
         UNCHANGED <<dbUser, dbSecret, dbNode, dbLate, dbClock>>,
         \A b \in DbDumpIds : j # DuJob(b) => dbBackup'[b] = dbBackup[b],
         "crash" \notin dbHarm' => \A b \in DbDumpIds : j = DuJob(b) => BackupSound(b)',
         dbRow' = dbRow \/ (j = DelJob /\ st = "succeeded" /\ dbJob[DelJob].at = "tombstone" /\ dbRow'.state = "deleted"),
         dbRow' = dbRow => j # DelJob \/ st = "failed",
         dbHarm' = {} /\ dbRow'.state # "deleted" => UsersSound',
         \A b \in DbDumpIds : dbBackup'[b] = "absent" => dbBackup[b] = "absent"
  PROVE  DbInv'
<1>1. /\ dbJob' \in [DbJobs -> DbJobRecs] /\ dbJob'[j].state = st /\ dbJob'[j].at = "idle"
      /\ (\A i \in DbJobs : i # j => dbJob'[i] = dbJob[i]) /\ DbWorkers'
  BY DbEndMoves
<1>2. DbTypeOK'
  BY <1>1, DbTypesNow, DbTypesAfter
<1>3. dbHarm \subseteq dbHarm'
  BY DbFaultsCount
<1>4. dbRow.state = "deleted" => j # DelJob /\ dbRow' = dbRow
  BY DbShapes DEF DbInv, DbAsked
<1>5. DbAsked'
  <2>1. DelJob \notin dbLate'
    BY DEF DbInv, DbAsked
  <2>2. ASSUME dbRow'.state = "deleted" PROVE dbJob'[DelJob].state = "succeeded" /\ DbWorkerIdle'
    <3>1. CASE dbRow' = dbRow
      BY <1>1, <1>4, <2>2, <3>1, DbShapes DEF DbInv, DbAsked, DbWorkerIdle
    <3>2. CASE j = DelJob /\ st = "succeeded" /\ dbJob[DelJob].at = "tombstone"
      <4>1. dbJob[j].state = "running"
        BY <3>2 DEF DbInv, DbWorkers
      <4>2. \A i \in DbJobs : i # j => dbJob[i].state # "running"
        BY <4>1 DEF DbInv, DbWorkers
      <4>. QED
        BY <1>1, <3>2, <4>2 DEF DbWorkerIdle
    <3>. QED
      BY <3>1, <3>2
  <2>3. dbRow'.state = "absent" => dbRow.state = "absent"
    OBVIOUS
  <2>4. dbJob[j].state # "none"
    OBVIOUS
  <2>. QED
    BY <1>1, <2>1, <2>2, <2>3, <2>4, HandlerAsked
<1>6. ASSUME "crash" \notin dbHarm' PROVE DbSteady'
  <2>0. DbSteady
    BY <1>3, <1>6 DEF DbInv
  <2>1. ASSUME NEW b \in DbDumpIds PROVE BackupSound(b)'
    <3>1. CASE j = DuJob(b)
      BY <1>6, <3>1
    <3>2. CASE j # DuJob(b)
      <4>1. dbJob'[DuJob(b)] = dbJob[DuJob(b)] /\ dbBackup'[b] = dbBackup[b] /\ BackupSound(b)
        BY <1>1, <2>0, <3>2, DbShapes DEF DbSteady
      <4>. QED
        BY <4>1, BackupStays
    <3>. QED
      BY <3>1, <3>2
  <2>2. ASSUME dbJob'[DelJob].at \in {"drop", "tombstone"} \/ dbRow'.state = "deleted" PROVE 0 \in dbNode.dumps
    <3>1. dbJob[DelJob].at \in {"drop", "tombstone"} \/ dbRow.state = "deleted"
      BY <1>1, <2>2, DbShapes
    <3>. QED
      BY <2>0, <3>1 DEF DbSteady
  <2>3. ASSUME DuJob(0) \in dbLate PROVE dbJob'[DelJob].state = "failed"
    <3>1. dbJob[DelJob].state = "failed"
      BY <2>0, <2>3 DEF DbSteady
    <3>. QED
      BY <1>1, <3>1, DbShapes
  <2>4. \A i \in DbJobs : dbJob'[i].state = "queued" => dbJob'[i].tries = 0
    BY <1>1, <2>0 DEF DbSteady
  <2>. QED
    BY <2>1, <2>2, <2>3, <2>4 DEF DbSteady, DelJob, DuJob
<1>7. ASSUME dbHarm' = {} PROVE DbClean'
  <2>0. DbClean
    BY <1>3, <1>7 DEF DbInv
  <2>1. dbJob'[DelJob].at = "tombstone" \/ dbRow'.state = "deleted" => dbJob[DelJob].at = "tombstone" \/ dbRow.state = "deleted"
    BY <1>1, DbShapes
  <2>. QED
    BY <1>7, <2>0, <2>1 DEF DbClean, DelJob
<1>. QED
  BY <1>1, <1>2, <1>5, <1>6, <1>7 DEF DbInv

LEMMA StartDbJobKeeps == ASSUME DbInv, NEW j \in DbJobs, StartDbJob(j) PROVE DbInv'
<1>1. /\ DbWorkerIdle /\ dbJob[j].state = "queued" /\ LongestDue(j)
      /\ UNCHANGED <<dbRow, dbUser, dbSecret, dbNode, dbLate, dbClock, dbHarm, dbFaults>>
  BY DEF StartDbJob, dbFlt
<1>2. CASE dbRow.state # "deleted"
  BY <1>1, <1>2, DbJobRunsKeeps DEF StartDbJob, DuJob
<1>3. CASE dbRow.state = "deleted"
  <2>1. dbJob' = EndDbJob(j, "failed") /\ dbBackup' = [b \in DbDumpIds |-> IF j = DuJob(b) THEN "failed" ELSE dbBackup[b]]
    BY <1>3 DEF StartDbJob, DuJob
  <2>2. dbJob'[j].state = "failed" /\ dbJob'[j].at = "idle"
    BY <2>1, DbEndMoves
  <2>3. /\ dbBackup' \in [DbDumpIds -> {"absent", "queued", "running", "completed", "failed"}]
        /\ \A b \in DbDumpIds : (j = DuJob(b) => dbBackup'[b] = "failed") /\ (j # DuJob(b) => dbBackup'[b] = dbBackup[b])
    BY <2>1, BackupsFail
  <2>4. \A b \in DbDumpIds : j = DuJob(b) => BackupSound(b)'
    BY <2>2, <2>3 DEF BackupSound, DuJob
  <2>5. DbFaulty
    BY <1>1 DEF DbFaulty, dbFlt
  <2>6. \A b \in DbDumpIds : dbBackup'[b] = "absent" => dbBackup[b] = "absent"
    BY <2>3
  <2>7. dbRow' = dbRow /\ dbRow \in DbRowRecs
    BY <1>1, DbTypesNow
  <2>. QED
    BY <1>1, <1>3, <2>1, <2>3, <2>4, <2>5, <2>6, <2>7, DbJobEndsKeeps
<1>. QED
  BY <1>2, <1>3

\* The answer is recorded: what was carried out stays carried out.
LEMMA UsersRecord ==
  ASSUME DbInv, UsersSound, NEW j \in DbJobs, dbJob[j].at = "record", dbJob[j].state = "running", dbJob'[j].state = "succeeded",
         \A i \in DbJobs : i # j => dbJob'[i] = dbJob[i], dbUser' = dbUser, dbNode' = dbNode
  PROVE  UsersSound'
<1>1. \A i \in UserJobs : Carried(i)' <=> Carried(i)
  BY DbShapes DEF Carried
<1>2. \A u \in DbUserIds : (LastCarried(CrJob(u))' <=> LastCarried(CrJob(u))) /\ (LastCarried(DrJob(u))' <=> LastCarried(DrJob(u)))
  BY <1>1, DbShapes DEF LastCarried, AskedBefore, CrJob, DrJob
<1>3. \A i \in UserJobs : dbJob'[i].state # "failed" /\ (dbJob[i].state # "none" => dbJob'[i].state # "none")
  BY DbShapes DEF UsersSound
<1>4. \A i, k \in UserJobs : AskedBefore(i, k) /\ dbJob'[k].state \in {"running", "succeeded"} => dbJob'[i].state = "succeeded"
  <2>1. \A k \in UserJobs : dbJob'[k].state \in {"running", "succeeded"} => dbJob[k].state \in {"running", "succeeded"}
    BY DbShapes
  <2>2. \A i \in UserJobs : dbJob[i].state = "succeeded" => dbJob'[i].state = "succeeded"
    BY DbShapes
  <2>. QED
    BY <2>1, <2>2 DEF UsersSound
<1>5. \A v \in DbUserIds : dbUser'[v] # "absent" => dbJob'[CrJob(v)].state # "none"
  BY <1>3, DbShapes DEF UsersSound
<1>6. \A v \in DbUserIds : dbUser'[v] = "revoked" => dbJob'[DrJob(v)].state # "none"
  BY <1>3, DbShapes DEF UsersSound
<1>7. dbNode'.user => \E u \in DbUserIds : LastCarried(CrJob(u))'
  BY <1>2 DEF UsersSound
<1>8. ~dbNode'.user => (\A i \in UserJobs : ~Carried(i)') \/ \E u \in DbUserIds : LastCarried(DrJob(u))'
  BY <1>1, <1>2 DEF UsersSound
<1>. QED
  BY <1>3, <1>4, <1>5, <1>6, <1>7, <1>8 DEF UsersSound, CrJob, DrJob, AskedBefore

LEMMA RecordDbOpKeeps == ASSUME DbInv, NEW j \in DbJobs, RecordDbOp(j) PROVE DbInv'
<1>1. dbJob[j].at = "record" /\ dbJob' = EndDbJob(j, "succeeded") /\ UNCHANGED <<dbRow, dbUser, dbSecret, dbNode, dbLate, dbClock>>
  BY DEF RecordDbOp
<1>2. dbJob[j].state = "running" /\ j # DelJob /\ dbRow.state # "deleted" /\ dbRow \in DbRowRecs
  BY <1>1, DbTypesNow DEF DbInv, DbWorkers, DbAsked, DbWorkerIdle
<1>3. dbJob'[j].state = "succeeded" /\ dbJob'[j].at = "idle" /\ \A i \in DbJobs : i # j => dbJob'[i] = dbJob[i]
  BY <1>1, DbEndMoves
<1>4. DbFaulty /\ (dbBackup' = dbBackup \/ \E b \in DbDumpIds : j = DuJob(b) /\ dbBackup' = [dbBackup EXCEPT ![b] = "completed"])
  <2>1. j[1] = "dump" => j[2] \in DbDumpIds /\ j = DuJob(j[2])
    BY DEF DbJobs, DuJob
  <2>. QED
    BY <2>1 DEF RecordDbOp, DbFaulty, dbFlt
<1>5. /\ dbBackup' \in [DbDumpIds -> {"absent", "queued", "running", "completed", "failed"}]
      /\ \A b \in DbDumpIds : (j # DuJob(b) => dbBackup'[b] = dbBackup[b]) /\ dbBackup'[b] \in {dbBackup[b], "completed"}
  BY <1>4, DbTypesNow, DbDistinct
<1>6. dbHarm \subseteq dbHarm'
  BY <1>4, DbFaultsCount
<1>7. "crash" \notin dbHarm' => \A b \in DbDumpIds : j = DuJob(b) => BackupSound(b)'
  <2>1. SUFFICES ASSUME "crash" \notin dbHarm', NEW b \in DbDumpIds, j = DuJob(b) PROVE BackupSound(b)'
    OBVIOUS
  <2>2. BackupSound(b)
    BY <1>6, <2>1 DEF DbInv, DbSteady
  <2>3. b \in dbNode.dumps /\ DuJob(b) \notin dbLate
    BY <1>1, <1>2, <2>1, <2>2 DEF BackupSound
  <2>. QED
    BY <1>1, <1>3, <2>1, <2>3 DEF BackupSound, DuJob
<1>8. dbHarm' = {} => UsersSound'
  <2>1. SUFFICES ASSUME dbHarm' = {} PROVE UsersSound'
    OBVIOUS
  <2>2. UsersSound
    BY <1>2, <1>6, <2>1 DEF DbInv, DbClean
  <2>. QED
    BY <1>1, <1>2, <1>3, <2>2, UsersRecord
<1>9. \A b \in DbDumpIds : dbBackup'[b] = "absent" => dbBackup[b] = "absent"
  BY <1>5
<1>. QED
  BY <1>1, <1>2, <1>4, <1>5, <1>7, <1>8, <1>9, DbJobEndsKeeps

LEMMA FinalizeDbDeleteKeeps == ASSUME DbInv, NEW j \in DbJobs, FinalizeDbDelete(j) PROVE DbInv'
<1>1. dbJob[j].at = "tombstone" /\ UNCHANGED <<dbUser, dbSecret, dbBackup, dbNode, dbLate, dbClock, dbFlt>>
  BY DEF FinalizeDbDelete
<1>2. j = DelJob /\ dbJob[j].state = "running" /\ dbBackup \in [DbDumpIds -> {"absent", "queued", "running", "completed", "failed"}]
  BY <1>1, DbTypesNow DEF DbInv, DbWorkers
<1>3. \A b \in DbDumpIds : j # DuJob(b)
  BY <1>2, DbDistinct
<1>4. DbFaulty /\ dbHarm' = dbHarm
  BY <1>1 DEF DbFaulty, dbFlt
<1>5. CASE dbRow' = [state |-> "deleted", due |-> 0] /\ dbJob' = EndDbJob(j, "succeeded")
  <2>1. 0 \in 0 .. MaxDbClock + 1
    BY DatabaseAssumption
  <2>2. dbRow' \in DbRowRecs /\ dbRow'.state = "deleted"
    BY <1>5, <2>1 DEF DbRowRecs
  <2>3. dbRow.state # "deleted"
    BY <1>2 DEF DbInv, DbAsked, DbWorkerIdle
  <2>. QED
    BY <1>1, <1>2, <1>3, <1>4, <1>5, <2>2, <2>3, DbJobEndsKeeps
<1>6. CASE dbRow' = dbRow /\ dbJob' = EndDbJob(j, "failed")
  <2>1. \A i \in UserJobs : dbJob'[i] = dbJob[i]
    BY <1>2, <1>6, DbEndMoves, DbShapes
  <2>2. dbHarm' = {} /\ dbRow'.state # "deleted" => UsersSound'
    BY <1>1, <1>4, <1>6, <2>1, UsersStay DEF DbInv, DbClean
  <2>3. dbRow' \in DbRowRecs
    BY <1>6, DbTypesNow
  <2>. QED
    BY <1>1, <1>2, <1>3, <1>4, <1>6, <2>2, <2>3, DbJobEndsKeeps
<1>. QED
  BY <1>5, <1>6 DEF FinalizeDbDelete

LEMMA DbWorkerDiesKeeps == ASSUME DbInv, NEW j \in DbJobs, DbWorkerDies(j) PROVE DbInv'
<1>1. /\ dbJob[j].state = "running" /\ DbFault("crash") /\ dbJob' = EndDbJob(j, IF MayRetry(j) THEN "queued" ELSE "failed")
      /\ UNCHANGED <<dbRow, dbUser, dbSecret, dbBackup, dbNode, dbClock>>
      /\ dbLate' = IF dbJob[j].at \in {"op", "drop"} THEN dbLate \cup {OpOf(j)} ELSE dbLate
  BY DEF DbWorkerDies
<1>2. "crash" \in dbHarm' /\ DbFaulty
  BY <1>1 DEF DbFault, DbFaulty
<1>3. dbJob' \in [DbJobs -> DbJobRecs] /\ (\A i \in DbJobs : i # j => dbJob'[i] = dbJob[i]) /\ DbWorkers'
  BY <1>1, DbEndMoves
<1>4. dbLate' \subseteq dbLate \cup DbOps
  BY <1>1, OpOfShape
<1>5. DelJob \notin dbLate' /\ dbLate' \subseteq DbJobs \cup {<<"drop_db", 0>>, <<"dump", 0>>}
  BY <1>4, DbTypesNow DEF DbOps, DuJob, DelJob
<1>6. DbTypeOK'
  BY <1>1, <1>2, <1>3, <1>5, DbTypesNow, DbTypesAfter
<1>7. DbAsked'
  <2>1. dbRow.state # "deleted"
    BY <1>1 DEF DbInv, DbAsked, DbWorkerIdle
  <2>. QED
    BY <1>1, <1>3, <1>5, <2>1, HandlerAsked
<1>. QED
  BY <1>2, <1>3, <1>6, <1>7 DEF DbInv

LEMMA DbInvHolds == DbSpec => []DbInv
<1>1. ASSUME DbInv, [DbNext]_dbVars PROVE DbInv'
  <2>1. CASE UNCHANGED dbVars
    <3>1. DbFaulty /\ UNCHANGED <<dbRow, dbUser, dbBackup, dbJob, dbNode, dbLate, dbSecret, dbClock>>
      BY <2>1 DEF dbVars, DbFaulty, dbFlt
    <3>. QED
      BY <1>1, <3>1, DbTypesNow, DbQuietStepKeeps
  <2>2. CASE \E u \in DbUserIds : CreateDbUser(u) \/ RevokeDbUser(u)
    BY <1>1, <2>2, CreateDbUserKeeps, RevokeDbUserKeeps
  <2>3. CASE \E b \in DbDumpIds : RequestDump(b)
    BY <1>1, <2>3, RequestDumpKeeps
  <2>4. CASE \E j \in DbJobs : \/ StartDbJob(j) \/ DbOpAnswers(j) \/ DbOpTimesOut(j)
                               \/ RecordDbOp(j) \/ FinalizeDbDelete(j) \/ DbWorkerDies(j)
    BY <1>1, <2>4, StartDbJobKeeps, DbOpAnswersKeeps, DbOpTimesOutKeeps, RecordDbOpKeeps, FinalizeDbDeleteKeeps, DbWorkerDiesKeeps
  <2>5. CASE \E o \in DbJobs \cup {<<"drop_db", 0>>, <<"dump", 0>>} : LateDbOp(o)
    BY <1>1, <2>5, LateDbOpKeeps
  <2>. QED
    BY <1>1, <2>1, <2>2, <2>3, <2>4, <2>5, CreateDatabaseKeeps, RotateDbPasswordKeeps, RequestRestoreKeeps, RequestDbDeleteKeeps,
       CancelDbDeleteKeeps, EnqueueDbDeleteKeeps, DbTickKeeps DEF DbNext
<1>. QED
  BY <1>1, DbStarts, PTL DEF DbSpec

LEMMA DbInvDumps == ASSUME DbInv PROVE DumpsAreSound
<1>1. "crash" \notin dbHarm => DbSteady /\ \A b \in DbDumpIds : BackupSound(b)
  BY DEF DbInv, DbSteady
<1>2. CompletedBackupHasDump
  BY <1>1 DEF CompletedBackupHasDump, BackupSound
<1>3. FailedJobFailsBackup
  BY <1>1 DEF FailedJobFailsBackup, BackupSound, DuJob
<1>4. DeletedIsDumped
  BY <1>1 DEF DeletedIsDumped, DbInv, DbSteady, DbClean
<1>. QED
  BY <1>2, <1>3, <1>4 DEF DumpsAreSound, DbInv

LEMMA DbInvUsers == ASSUME DbInv PROVE UsersMatchNode
<1> SUFFICES ASSUME DbQuiet, dbHarm = {}, dbRow.state # "deleted" PROVE dbNode.user <=> NameTaken
  BY DEF UsersMatchNode
<1>1. UsersSound /\ dbNode.user \in BOOLEAN
  BY DbTypesNow DEF DbInv, DbClean, DbNodes
<1>2. \A j \in UserJobs : dbJob[j].state \in {"none", "succeeded"}
  BY <1>1, DbTypes, DbShapes DEF DbQuiet, UsersSound, DbJobRecs
<1>3. ASSUME NameTaken PROVE dbNode.user
  <2>1. PICK u \in DbUserIds : dbUser[u] = "active"
    BY <1>3 DEF NameTaken
  <2>2. Carried(CrJob(u))
    BY <1>1, <1>2, <2>1, DbShapes DEF UsersSound, Carried
  <2>3. ASSUME NEW v \in DbUserIds, LastCarried(DrJob(v)) PROVE FALSE
    <3>1. ~AskedBefore(DrJob(v), CrJob(u))
      BY <2>2, <2>3, DbShapes DEF LastCarried
    <3>2. ~(v < u)
      BY <3>1, AskedOrder
    <3>3. Carried(DrJob(v)) /\ dbJob[DrJob(v)].state # "none"
      BY <2>3, DbShapes DEF LastCarried, Carried, DbInv, DbWorkers
    <3>4. dbUser[v] = "revoked"
      BY <3>3 DEF DbInv, DbAsked
    <3>5. u < v
      BY <2>1, <3>2, <3>4, DatabaseAssumption DEF DbUserIds
    <3>6. dbUser[u] = "revoked"
      BY <3>4, <3>5 DEF DbInv, DbAsked
    <3>. QED
      BY <2>1, <3>6
  <2>. QED
    BY <1>1, <2>2, <2>3, DbShapes DEF UsersSound
<1>4. ASSUME dbNode.user PROVE NameTaken
  <2>1. PICK u \in DbUserIds : LastCarried(CrJob(u))
    BY <1>1, <1>4 DEF UsersSound
  <2>2. dbJob[CrJob(u)].state # "none"
    BY <2>1, DbShapes DEF LastCarried, Carried, DbInv, DbWorkers
  <2>3. dbUser[u] # "absent"
    BY <2>2 DEF DbInv, DbAsked
  <2>4. dbUser[u] # "revoked"
    <3>1. dbUser[u] = "revoked" => Carried(DrJob(u))
      BY <1>1, <1>2, DbShapes DEF UsersSound, Carried
    <3>2. AskedBefore(CrJob(u), DrJob(u))
      BY AskedOrder
    <3>. QED
      BY <2>1, <3>1, <3>2, DbShapes DEF LastCarried
  <2>. QED
    BY <2>3, <2>4, DbTypesNow DEF NameTaken
<1>. QED
  BY <1>1, <1>3, <1>4

\* Provisioning follows the records (databases.go handleCreateUser and handleRevokeUser,
\* databases_worker.go, nodeagent/database.go): with no fault, and once nothing is left to do,
\* the account is on the node exactly when a row for its name is active.
THEOREM UsersCorrect == DbSpec => []UsersMatchNode
<1>1. DbInv => UsersMatchNode
  BY DbInvUsers
<1>. QED
  BY <1>1, DbInvHolds, PTL

\* A completed backup has its dump on the node, a failed job fails its row, and a database is
\* dumped before it is dropped and tombstoned (databases_worker.go, nodeagent/database.go).
THEOREM DumpsCorrect == DbSpec => []DumpsAreSound
<1>1. DbInv => DumpsAreSound
  BY DbInvDumps
<1>. QED
  BY <1>1, DbInvHolds, PTL

-----------------------------------------------------------------------------
(***************************************************************************)
(* Backups: RunsAreSound and ArchivesAreSound for any number of            *)
(* controllers, rows, attempts and faults. A row and its job move together *)
(* (BkRow), so what holds of the others is kept by a step on one; between  *)
(* the rows there is only the check of an active run.                      *)
(***************************************************************************)

BkJobIds == BkKinds \X BkRuns
RunJob(r) == <<"run", r>>
RowRecs == [state : {"absent", "queued", "running", "completed", "failed"},
            verif : {"unverified", "verified", "failed", "expired"},
            sum : 0..MaxBkAttempts, key : 0..MaxBkMinute \cup {NoTime}]
BkJobRecs == [state : {"none", "queued", "running", "succeeded", "failed"}, tries : 0..MaxBkAttempts,
              at : {"idle", "archive", "complete", "verify", "restore", "delete"}]
SchedRecs == [at : {"idle", "insert", "enqueue", "retain"}, now : 0..MaxBkMinute, run : {0} \cup BkRuns]

\* A job that may be claimed has an attempt left, and only a running one has a handler.
BkWorkers ==
  \A j \in BkJobIds :
    /\ bkJob[j].at # "idle" => bkJob[j].state = "running"
    /\ bkJob[j].state = "none" => bkJob[j].tries = 0
    /\ bkJob[j].state = "queued" => bkJob[j].tries < MaxBkAttempts

RowActive(r) == bkRun[r].state \in {"queued", "running"}
Attended(r) == \E s \in Schedulers : bkSched[s].at = "enqueue" /\ bkSched[s].run = r

\* What a row, its archive and its object say, unless its job ran twice.
BkStored(r) ==
  /\ bkRun[r].state = "completed" =>
        bkJob[RunJob(r)].state = "succeeded" /\ bkArchive[r] = bkRun[r].sum /\ bkTarget[r] \in {0, bkRun[r].sum}
  /\ bkJob[RunJob(r)].state \in {"none", "queued"} \/ bkJob[RunJob(r)].at = "archive" => bkTarget[r] = 0
  /\ bkJob[RunJob(r)].at = "complete" => bkTarget[r] \in {0, bkArchive[r]}

\* A row and its job.
BkRow(r) ==
  /\ bkJob[RunJob(r)].state # "none" => bkRun[r].state # "absent"
  /\ bkJob[RunJob(r)].state = "running" => bkRun[r].state # "queued"
  /\ "not queued" \notin bkHarm /\ bkRun[r].state # "absent" /\ bkJob[RunJob(r)].state = "none" => bkRun[r].state = "queued"
  /\ "crash" \notin bkHarm => BkStored(r)
  /\ bkHarm \cap {"raced", "crash", "not queued"} = {} /\ BkJobOpen(r) => RowActive(r)
  /\ bkHarm \cap {"died", "crash"} = {} /\ RowActive(r) => BkJobOpen(r) \/ Attended(r)

\* A scheduler that is about to enqueue has a row.
BkAttends == \A s \in Schedulers : bkSched[s].at = "enqueue" => bkSched[s].run \in BkRuns /\ bkRun[bkSched[s].run].state # "absent"

OneRowActive == bkHarm \cap {"raced", "crash", "not queued"} = {} => \A q, r \in BkRuns : RowActive(q) /\ RowActive(r) => q = r

BkInv ==
  /\ BkTypeOK /\ BkWorkers /\ (\A r \in BkRuns : BkRow(r))
  /\ BkAttends /\ OneRowActive /\ NewestAreKept
LEMMA BkShapes ==
  /\ \A r \in BkRuns : RunJob(r) \in BkJobIds
  /\ \A q, r : RunJob(q) = RunJob(r) => q = r
  /\ \A j \in BkJobIds : j[1] \in BkKinds /\ j[2] \in BkRuns /\ j = <<j[1], j[2]>> /\ (j[1] = "run" => j = RunJob(j[2]))
  /\ \A j \in BkJobIds : j[1] # "run" => \A r : j # RunJob(r)
  /\ \A k \in BkKinds : \A r \in BkRuns : <<k, r>> \in BkJobIds
BY DEF BkJobIds, RunJob, BkKinds

LEMMA BkTypes ==
  ASSUME BkInv
  PROVE  /\ bkRun \in [BkRuns -> RowRecs] /\ bkJob \in [BkJobIds -> BkJobRecs] /\ bkSched \in [Schedulers -> SchedRecs]
         /\ bkPlan \in [state : {"active", "pending_delete", "deleted"}, next : 0..MaxBkMinute + 1 \cup {NoTime}]
         /\ bkArchive \in [BkRuns -> 0..MaxBkAttempts] /\ bkTarget \in [BkRuns -> 0..MaxBkAttempts] /\ bkMinute \in 0..MaxBkMinute
BY DEF BkInv, BkTypeOK, RowRecs, BkJobRecs, SchedRecs, BkJobIds

LEMMA BkTypesAfter ==
  ASSUME bkRun' \in [BkRuns -> RowRecs], bkJob' \in [BkJobIds -> BkJobRecs], bkSched' \in [Schedulers -> SchedRecs],
         bkPlan' \in [state : {"active", "pending_delete", "deleted"}, next : 0..MaxBkMinute + 1 \cup {NoTime}],
         bkArchive' \in [BkRuns -> 0..MaxBkAttempts], bkTarget' \in [BkRuns -> 0..MaxBkAttempts], bkMinute' \in 0..MaxBkMinute
  PROVE  BkTypeOK'
BY DEF BkTypeOK, RowRecs, BkJobRecs, SchedRecs, BkJobIds

LEMMA BkFinite == IsFiniteSet(BkRuns) /\ \A S : S \subseteq BkRuns => IsFiniteSet(S) /\ Cardinality(S) \in Nat
<1>1. BkSize - 1 \in Int
  BY BackupAssumption
<1>2. IsFiniteSet(1 .. BkSize - 1)
  BY <1>1, FS_Interval
<1>. QED
  BY <1>2, FS_Subset, FS_CardinalityType DEF BkRuns

\* What has happened stays.
LEMMA HarmStays ==
  ASSUME UNCHANGED bkFlt \/ \E h : BkFault(h)
  PROVE  bkHarm \subseteq bkHarm'
BY DEF bkFlt, BkFault

\* A row that a step does not touch.
LEMMA RowStays ==
  ASSUME NEW r, BkRow(r), bkHarm \subseteq bkHarm', bkJob'[RunJob(r)] = bkJob[RunJob(r)], bkRun'[r].state = bkRun[r].state,
         bkRun'[r].sum = bkRun[r].sum, bkArchive'[r] = bkArchive[r], bkTarget'[r] \in {0, bkTarget[r]},
         "died" \in bkHarm' \/ (Attended(r) => Attended(r)')
  PROVE  BkRow(r)'
<1>1. RowActive(r)' <=> RowActive(r)
  BY DEF RowActive
<1>2. BkJobOpen(r)' <=> BkJobOpen(r)
  BY DEF BkJobOpen, RunJob
<1>3. "crash" \notin bkHarm' => BkStored(r)'
  <2>1. SUFFICES ASSUME "crash" \notin bkHarm' PROVE BkStored(r)'
    OBVIOUS
  <2>2. BkStored(r)
    BY <2>1 DEF BkRow
  <2>. QED
    BY <2>2 DEF BkStored, RunJob
<1>4. "not queued" \notin bkHarm' /\ bkRun'[r].state # "absent" /\ bkJob'[RunJob(r)].state = "none" => bkRun'[r].state = "queued"
  BY DEF BkRow
<1>5. bkHarm' \cap {"raced", "crash", "not queued"} = {} /\ BkJobOpen(r)' => RowActive(r)'
  BY <1>1, <1>2 DEF BkRow
<1>6. bkHarm' \cap {"died", "crash"} = {} /\ RowActive(r)' => BkJobOpen(r)' \/ Attended(r)'
  BY <1>1, <1>2 DEF BkRow
<1>7. /\ bkJob'[RunJob(r)].state # "none" => bkRun'[r].state # "absent"
      /\ bkJob'[RunJob(r)].state = "running" => bkRun'[r].state # "queued"
  BY DEF BkRow
<1>. QED
  BY <1>3, <1>4, <1>5, <1>6, <1>7 DEF BkRow, RunJob

\* Schedulers that wait with a row go on waiting with it.
LEMMA AttendedStays ==
  ASSUME NEW r, \A s \in Schedulers : bkSched[s].at = "enqueue" /\ bkSched[s].run = r => bkSched'[s] = bkSched[s]
  PROVE  Attended(r) => Attended(r)'
BY DEF Attended

\* The newest completed runs stay what they are.
LEMMA NewestStay ==
  ASSUME NewestAreKept, \A r \in BkRuns : bkRun[r].state = "completed" => bkRun'[r].state = "completed",
         \A r \in BkRuns : bkRun'[r].verif = "expired" => bkRun[r].verif = "expired"
  PROVE  NewestAreKept'
<1> SUFFICES ASSUME NEW r \in BkRuns, bkRun'[r].verif = "expired"
             PROVE  Cardinality({q \in BkRuns : q > r /\ bkRun'[q].state = "completed"}) >= BkKeep
  BY DEF NewestAreKept
<1> DEFINE A == {q \in BkRuns : q > r /\ bkRun[q].state = "completed"}
           B == {q \in BkRuns : q > r /\ bkRun'[q].state = "completed"}
<1>1. A \subseteq B /\ B \subseteq BkRuns
  OBVIOUS
<1>2. Cardinality(A) <= Cardinality(B)
  BY <1>1, BkFinite, FS_Subset
<1>3. Cardinality(A) >= BkKeep
  BY DEF NewestAreKept
<1>4. Cardinality(A) \in Nat /\ Cardinality(B) \in Nat
  BY <1>1, BkFinite
<1> HIDE DEF A, B
<1>5. Cardinality(B) >= BkKeep
  BY <1>2, <1>3, <1>4, BackupAssumption
<1>. QED
  BY <1>5 DEF B

LEMMA BkStarts == BkInit => BkInv
<1> USE BackupAssumption
<1> SUFFICES ASSUME BkInit PROVE BkInv
  OBVIOUS
<1>1. /\ bkRun = [r \in BkRuns |-> [state |-> "absent", verif |-> "unverified", sum |-> 0, key |-> NoTime]]
      /\ bkJob = [j \in BkJobIds |-> [state |-> "none", tries |-> 0, at |-> "idle"]]
      /\ bkSched = [s \in Schedulers |-> [at |-> "idle", now |-> 0, run |-> 0]]
  BY DEF BkInit, BkJobIds
<1>2. bkRun \in [BkRuns -> RowRecs]
  BY <1>1 DEF RowRecs
<1>3. bkJob \in [BkJobIds -> BkJobRecs]
  BY <1>1 DEF BkJobRecs
<1>4. bkSched \in [Schedulers -> SchedRecs]
  BY <1>1 DEF SchedRecs
<1>5. bkPlan \in [state : {"active", "pending_delete", "deleted"}, next : 0..MaxBkMinute + 1 \cup {NoTime}]
  BY DEF BkInit
<1>6. BkTypeOK
  BY <1>2, <1>3, <1>4, <1>5 DEF BkInit, BkTypeOK, RowRecs, BkJobRecs, SchedRecs, BkJobIds
<1>7. BkWorkers /\ BkAttends
  BY <1>1 DEF BkWorkers, BkAttends
<1>8. ASSUME NEW r \in BkRuns PROVE BkRow(r)
  <2>1. bkJob[RunJob(r)].state = "none" /\ bkJob[RunJob(r)].at = "idle" /\ bkRun[r].state = "absent" /\ bkTarget[r] = 0
    BY <1>1, BkShapes DEF BkInit
  <2>2. ~BkJobOpen(r) /\ ~RowActive(r)
    BY <2>1 DEF BkJobOpen, RunJob, RowActive
  <2>. QED
    BY <2>1, <2>2 DEF BkRow, BkStored
<1>9. OneRowActive /\ NewestAreKept
  BY <1>1 DEF OneRowActive, RowActive, NewestAreKept
<1>. QED
  BY <1>6, <1>7, <1>8, <1>9 DEF BkInv

-----------------------------------------------------------------------------
\* Steps that leave every run and its job alone.

LEMMA BkAsideKeeps ==
  ASSUME BkInv, BkTypeOK', BkWorkers', bkHarm \subseteq bkHarm', NewestAreKept',
         \A r \in BkRuns : bkJob'[RunJob(r)] = bkJob[RunJob(r)] /\ bkRun'[r].state = bkRun[r].state /\ bkRun'[r].sum = bkRun[r].sum,
         \A r \in BkRuns : bkArchive'[r] = bkArchive[r] /\ bkTarget'[r] \in {0, bkTarget[r]},
         \A s \in Schedulers : bkSched'[s] = bkSched[s] \/ (bkSched'[s].at # "enqueue" /\ (bkSched[s].at # "enqueue" \/ "died" \in bkHarm'))
  PROVE  BkInv'
<1>1. ASSUME NEW r \in BkRuns PROVE BkRow(r)'
  <2>1. BkRow(r) /\ bkJob'[RunJob(r)] = bkJob[RunJob(r)] /\ bkRun'[r].state = bkRun[r].state /\ bkRun'[r].sum = bkRun[r].sum
        /\ bkArchive'[r] = bkArchive[r] /\ bkTarget'[r] \in {0, bkTarget[r]}
    BY DEF BkInv
  <2>2. "died" \in bkHarm' \/ (Attended(r) => Attended(r)')
    BY AttendedStays
  <2>. QED
    BY <2>1, <2>2, RowStays
<1>2. BkAttends'
  <2>1. ASSUME NEW s \in Schedulers, bkSched'[s].at = "enqueue" PROVE bkSched'[s].run \in BkRuns /\ bkRun'[bkSched'[s].run].state # "absent"
    <3>1. bkSched'[s] = bkSched[s]
      BY <2>1
    <3>2. bkSched[s].run \in BkRuns /\ bkRun[bkSched[s].run].state # "absent"
      BY <2>1, <3>1 DEF BkInv, BkAttends
    <3>. QED
      BY <3>1, <3>2
  <2>. QED
    BY <2>1 DEF BkAttends
<1>3. OneRowActive'
  BY DEF BkInv, OneRowActive, RowActive
<1>. QED
  BY <1>1, <1>2, <1>3 DEF BkInv

\* The plan and the clock.
LEMMA PlanStepKeeps ==
  ASSUME BkInv, UNCHANGED <<bkRun, bkJob, bkArchive, bkTarget, bkSched>>, bkHarm \subseteq bkHarm', bkMinute' \in 0..MaxBkMinute,
         bkPlan' \in [state : {"active", "pending_delete", "deleted"}, next : 0..MaxBkMinute + 1 \cup {NoTime}]
  PROVE  BkInv'
<1>1. BkTypeOK'
  BY BkTypes, BkTypesAfter
<1>2. BkWorkers' /\ NewestAreKept'
  BY DEF BkInv, BkWorkers, NewestAreKept
<1>. QED
  BY <1>1, <1>2, BkTypes, BkAsideKeeps

LEMMA PatchPlanKeeps == ASSUME BkInv, PatchPlan PROVE BkInv'
<1>1. UNCHANGED <<bkRun, bkJob, bkArchive, bkTarget, bkSched, bkMinute>> /\ bkPlan' = [bkPlan EXCEPT !.state = "active"]
      /\ bkHarm \subseteq bkHarm'
  BY HarmStays DEF PatchPlan
<1>. QED
  BY <1>1, BkTypes, PlanStepKeeps

LEMMA DeletePlanKeeps == ASSUME BkInv, DeletePlan PROVE BkInv'
<1>1. UNCHANGED <<bkRun, bkJob, bkArchive, bkTarget, bkSched, bkMinute>> /\ bkPlan' = [bkPlan EXCEPT !.state = "pending_delete"]
      /\ bkHarm \subseteq bkHarm'
  BY HarmStays DEF DeletePlan
<1>. QED
  BY <1>1, BkTypes, PlanStepKeeps

LEMMA FinalizePlanKeeps == ASSUME BkInv, FinalizePlan PROVE BkInv'
<1>1. UNCHANGED <<bkRun, bkJob, bkArchive, bkTarget, bkSched, bkMinute>> /\ bkPlan' = [bkPlan EXCEPT !.state = "deleted"]
      /\ bkHarm \subseteq bkHarm'
  BY HarmStays DEF FinalizePlan
<1>. QED
  BY <1>1, BkTypes, PlanStepKeeps

LEMMA BkTickKeeps == ASSUME BkInv, BkTick PROVE BkInv'
<1>1. UNCHANGED <<bkRun, bkJob, bkArchive, bkTarget, bkSched, bkPlan>> /\ bkHarm \subseteq bkHarm'
  BY HarmStays DEF BkTick
<1>2. bkMinute' \in 0..MaxBkMinute
  BY BkTypes, BackupAssumption DEF BkTick
<1>. QED
  BY <1>1, <1>2, BkTypes, PlanStepKeeps

\* A job that is asked for.
LEMMA BkQueues ==
  ASSUME BkInv, NEW k \in BkKinds, NEW r \in BkRuns, bkJob[<<k, r>>].state = "none", bkJob' = BkQueued(k, r)
  PROVE  /\ bkJob' \in [BkJobIds -> BkJobRecs] /\ BkWorkers'
         /\ bkJob'[<<k, r>>].state = "queued" /\ bkJob'[<<k, r>>].at = "idle"
         /\ \A j \in BkJobIds : j # <<k, r>> => bkJob'[j] = bkJob[j]
<1> DEFINE j == <<k, r>>
           new == [bkJob[j] EXCEPT !.state = "queued"]
<1>1. j \in BkJobIds /\ bkJob[j] \in BkJobRecs /\ bkJob \in [BkJobIds -> BkJobRecs] /\ bkJob[j].at = "idle" /\ bkJob[j].tries = 0
  BY BkTypes, BkShapes DEF BkInv, BkWorkers
<1>2. new \in BkJobRecs /\ new.state = "queued" /\ new.at = "idle" /\ new.tries = 0
  BY <1>1 DEF BkJobRecs
<1>3. bkJob' = [bkJob EXCEPT ![j] = new]
  BY <1>1 DEF BkQueued
<1> HIDE DEF new
<1>4. bkJob' \in [BkJobIds -> BkJobRecs] /\ bkJob'[j] = new /\ \A i \in BkJobIds : i # j => bkJob'[i] = bkJob[i]
  BY <1>1, <1>2, <1>3
<1>5. BkWorkers'
  BY <1>2, <1>4, BackupAssumption DEF BkInv, BkWorkers
<1>. QED
  BY <1>2, <1>4, <1>5

\* A job ends, or waits for another attempt.
LEMMA BkEnds ==
  ASSUME BkInv, NEW j \in BkJobIds, NEW st \in {"queued", "succeeded", "failed"}, EndBkJob(j, st),
         st = "queued" => bkJob[j].tries < MaxBkAttempts
  PROVE  /\ bkJob' \in [BkJobIds -> BkJobRecs] /\ BkWorkers'
         /\ bkJob'[j].state = st /\ bkJob'[j].at = "idle"
         /\ \A i \in BkJobIds : i # j => bkJob'[i] = bkJob[i]
<1> DEFINE new == [state |-> st, at |-> "idle", tries |-> IF st = "queued" THEN bkJob[j].tries ELSE 0]
<1>1. bkJob[j] \in BkJobRecs /\ bkJob \in [BkJobIds -> BkJobRecs]
  BY BkTypes
<1>2. new \in BkJobRecs /\ new.state = st /\ new.at = "idle" /\ (st = "queued" => new.tries = bkJob[j].tries)
  BY <1>1, BackupAssumption DEF BkJobRecs
<1>3. bkJob' = [bkJob EXCEPT ![j] = new]
  BY <1>1 DEF EndBkJob
<1> HIDE DEF new
<1>4. bkJob' \in [BkJobIds -> BkJobRecs] /\ bkJob'[j] = new /\ \A i \in BkJobIds : i # j => bkJob'[i] = bkJob[i]
  BY <1>1, <1>2, <1>3
<1>5. BkWorkers'
  BY <1>2, <1>4 DEF BkInv, BkWorkers
<1>. QED
  BY <1>2, <1>4, <1>5

\* A job is claimed.
LEMMA BkClaims ==
  ASSUME BkInv, NEW j \in BkJobIds, NEW at \in {"archive", "verify", "restore", "delete"}, bkJob[j].state = "queued",
         bkJob' = [bkJob EXCEPT ![j] = [state |-> "running", tries |-> @.tries + 1, at |-> at]]
  PROVE  /\ bkJob' \in [BkJobIds -> BkJobRecs] /\ BkWorkers'
         /\ bkJob'[j].state = "running" /\ bkJob'[j].at = at
         /\ \A i \in BkJobIds : i # j => bkJob'[i] = bkJob[i]
<1> DEFINE new == [state |-> "running", tries |-> bkJob[j].tries + 1, at |-> at]
<1>1. bkJob[j] \in BkJobRecs /\ bkJob \in [BkJobIds -> BkJobRecs] /\ bkJob[j].tries < MaxBkAttempts
  BY BkTypes DEF BkInv, BkWorkers
<1>2. bkJob[j].tries + 1 \in 0..MaxBkAttempts
  BY <1>1, BackupAssumption DEF BkJobRecs
<1>3. new \in BkJobRecs /\ new.state = "running" /\ new.at = at
  BY <1>2 DEF BkJobRecs
<1>4. bkJob' = [bkJob EXCEPT ![j] = new]
  BY <1>1
<1> HIDE DEF new
<1>5. bkJob' \in [BkJobIds -> BkJobRecs] /\ bkJob'[j] = new /\ \A i \in BkJobIds : i # j => bkJob'[i] = bkJob[i]
  BY <1>1, <1>3, <1>4
<1>6. BkWorkers'
  BY <1>3, <1>5 DEF BkInv, BkWorkers
<1>. QED
  BY <1>3, <1>5, <1>6
\* A job of another kind than a run moves, and at most a verification and an object with it.
LEMMA OtherJobKeeps ==
  ASSUME BkInv, NEW j \in BkJobIds, j[1] # "run", bkJob' \in [BkJobIds -> BkJobRecs], BkWorkers',
         \A i \in BkJobIds : i # j => bkJob'[i] = bkJob[i], bkHarm \subseteq bkHarm',
         bkRun' = bkRun \/ \E v \in {"verified", "failed"} : Verification(j[2], v),
         bkTarget' = bkTarget \/ bkTarget' = [bkTarget EXCEPT ![j[2]] = 0],
         UNCHANGED <<bkPlan, bkArchive, bkSched, bkMinute>>
  PROVE  BkInv'
<1>1. j[2] \in BkRuns /\ \A r \in BkRuns : bkJob'[RunJob(r)] = bkJob[RunJob(r)]
  BY BkShapes
<1>2. bkRun' \in [BkRuns -> RowRecs] /\ \A r \in BkRuns :
        bkRun'[r].state = bkRun[r].state /\ bkRun'[r].sum = bkRun[r].sum /\ (bkRun'[r].verif = "expired" => bkRun[r].verif = "expired")
  <2>1. CASE bkRun' = bkRun
    BY <2>1, BkTypes
  <2>2. ASSUME NEW v \in {"verified", "failed"}, Verification(j[2], v)
        PROVE  bkRun' \in [BkRuns -> RowRecs] /\ \A r \in BkRuns :
                 bkRun'[r].state = bkRun[r].state /\ bkRun'[r].sum = bkRun[r].sum /\ (bkRun'[r].verif = "expired" => bkRun[r].verif = "expired")
    BY <1>1, <2>2, BkTypes DEF Verification, RowRecs
  <2>. QED
    BY <2>1, <2>2
<1>3. bkTarget' \in [BkRuns -> 0..MaxBkAttempts] /\ \A r \in BkRuns : bkTarget'[r] \in {0, bkTarget[r]}
  <2>1. 0 \in 0..MaxBkAttempts
    BY BackupAssumption
  <2>. QED
    BY <1>1, <2>1, BkTypes
<1>4. BkTypeOK'
  BY <1>2, <1>3, BkTypes, BkTypesAfter
<1>5. NewestAreKept'
  BY <1>2, NewestStay DEF BkInv
<1>. QED
  BY <1>1, <1>2, <1>3, <1>4, <1>5, BkAsideKeeps

LEMMA RequestOnRunKeeps == ASSUME BkInv, NEW k \in BkKinds, NEW r \in BkRuns, RequestOnRun(k, r) PROVE BkInv'
<1>1. /\ k # "run" /\ bkJob[<<k, r>>].state = "none" /\ bkJob' = BkQueued(k, r) /\ bkHarm \subseteq bkHarm'
      /\ UNCHANGED <<bkPlan, bkRun, bkArchive, bkTarget, bkSched, bkMinute>>
  BY HarmStays DEF RequestOnRun
<1>2. <<k, r>> \in BkJobIds /\ <<k, r>>[1] # "run"
  BY <1>1, BkShapes
<1>3. bkJob' \in [BkJobIds -> BkJobRecs] /\ BkWorkers' /\ \A j \in BkJobIds : j # <<k, r>> => bkJob'[j] = bkJob[j]
  BY <1>1, BkQueues
<1>. QED
  BY <1>1, <1>2, <1>3, OtherJobKeeps

LEMMA VerifyStepKeeps == ASSUME BkInv, NEW r \in BkRuns, VerifyStep(r) PROVE BkInv'
<1>1. /\ bkHarm \subseteq bkHarm' /\ UNCHANGED <<bkPlan, bkArchive, bkTarget, bkSched, bkMinute>>
      /\ \E v \in {"verified", "failed"} : Verification(r, v)
      /\ \E st \in {"queued", "succeeded", "failed"} : st # "queued" /\ EndBkJob(<<"verify", r>>, st)
  BY HarmStays DEF VerifyStep
<1>2. <<"verify", r>> \in BkJobIds /\ <<"verify", r>>[1] # "run" /\ <<"verify", r>>[2] = r
  BY BkShapes DEF BkKinds
<1>3. bkJob' \in [BkJobIds -> BkJobRecs] /\ BkWorkers' /\ \A j \in BkJobIds : j # <<"verify", r>> => bkJob'[j] = bkJob[j]
  BY <1>1, <1>2, BkEnds
<1>. QED
  BY <1>1, <1>2, <1>3, OtherJobKeeps

LEMMA RestoreStepKeeps == ASSUME BkInv, NEW r \in BkRuns, RestoreStep(r) PROVE BkInv'
<1>1. /\ bkHarm \subseteq bkHarm' /\ UNCHANGED <<bkPlan, bkRun, bkArchive, bkTarget, bkSched, bkMinute>>
      /\ \E st \in {"queued", "succeeded", "failed"} : st # "queued" /\ EndBkJob(<<"restore", r>>, st)
  BY HarmStays DEF RestoreStep
<1>2. <<"restore", r>> \in BkJobIds /\ <<"restore", r>>[1] # "run"
  BY BkShapes DEF BkKinds
<1>3. bkJob' \in [BkJobIds -> BkJobRecs] /\ BkWorkers' /\ \A j \in BkJobIds : j # <<"restore", r>> => bkJob'[j] = bkJob[j]
  BY <1>1, <1>2, BkEnds
<1>. QED
  BY <1>1, <1>2, <1>3, OtherJobKeeps

LEMMA DeleteStepKeeps == ASSUME BkInv, NEW r \in BkRuns, DeleteStep(r) PROVE BkInv'
<1>1. /\ bkHarm \subseteq bkHarm' /\ UNCHANGED <<bkPlan, bkRun, bkArchive, bkSched, bkMinute>>
      /\ bkTarget' = bkTarget \/ bkTarget' = [bkTarget EXCEPT ![r] = 0]
      /\ \E st \in {"queued", "succeeded", "failed"} : st # "queued" /\ EndBkJob(<<"delete", r>>, st)
  BY HarmStays DEF DeleteStep, ArchiveKept
<1>2. <<"delete", r>> \in BkJobIds /\ <<"delete", r>>[1] # "run" /\ <<"delete", r>>[2] = r
  BY BkShapes DEF BkKinds
<1>3. bkJob' \in [BkJobIds -> BkJobRecs] /\ BkWorkers' /\ \A j \in BkJobIds : j # <<"delete", r>> => bkJob'[j] = bkJob[j]
  BY <1>1, <1>2, BkEnds
<1>. QED
  BY <1>1, <1>2, <1>3, OtherJobKeeps

LEMMA SchedListKeeps == ASSUME BkInv, NEW s \in Schedulers, SchedList(s) PROVE BkInv'
<1> DEFINE new == [at |-> IF MayInsert THEN "insert" ELSE "retain", now |-> bkMinute, run |-> 0]
<1>1. /\ bkSched[s].at = "idle" /\ bkSched' = [bkSched EXCEPT ![s] = new] /\ bkHarm \subseteq bkHarm'
      /\ UNCHANGED <<bkPlan, bkRun, bkJob, bkArchive, bkTarget, bkMinute>>
  BY HarmStays DEF SchedList
<1>2. new \in SchedRecs /\ new.at # "enqueue"
  BY BkTypes DEF SchedRecs
<1> HIDE DEF new
<1>3. bkSched' \in [Schedulers -> SchedRecs] /\ \A t \in Schedulers : bkSched'[t] = bkSched[t] \/ (bkSched'[t].at # "enqueue" /\ bkSched[t].at # "enqueue")
  BY <1>1, <1>2, BkTypes
<1>4. BkTypeOK'
  BY <1>1, <1>3, BkTypes, BkTypesAfter
<1>5. BkWorkers' /\ NewestAreKept'
  BY <1>1 DEF BkInv, BkWorkers, NewestAreKept
<1>. QED
  BY <1>1, <1>3, <1>4, <1>5, BkAsideKeeps

\* The scheduler ends its tick.
LEMMA BackToIdle ==
  ASSUME BkInv, NEW s \in Schedulers, SchedIdle(s)
  PROVE  bkSched' \in [Schedulers -> SchedRecs] /\ bkSched'[s].at = "idle" /\ \A t \in Schedulers : t # s => bkSched'[t] = bkSched[t]
<1> DEFINE new == [at |-> "idle", now |-> 0, run |-> 0]
<1>1. new \in SchedRecs /\ new.at = "idle"
  BY BackupAssumption DEF SchedRecs
<1>2. bkSched' = [bkSched EXCEPT ![s] = new]
  BY DEF SchedIdle
<1> HIDE DEF new
<1>. QED
  BY <1>1, <1>2, BkTypes

LEMMA SchedDiesKeeps == ASSUME BkInv, NEW s \in Schedulers, SchedDies(s) PROVE BkInv'
<1>1. /\ SchedIdle(s) /\ "died" \in bkHarm' /\ bkHarm \subseteq bkHarm'
      /\ UNCHANGED <<bkPlan, bkRun, bkJob, bkArchive, bkTarget, bkMinute>>
  BY DEF SchedDies, BkFault
<1>2. /\ bkSched' \in [Schedulers -> SchedRecs]
      /\ \A t \in Schedulers : bkSched'[t] = bkSched[t] \/ (bkSched'[t].at # "enqueue" /\ (bkSched[t].at # "enqueue" \/ "died" \in bkHarm'))
  BY <1>1, BackToIdle
<1>3. BkTypeOK'
  BY <1>1, <1>2, BkTypes, BkTypesAfter
<1>4. BkWorkers' /\ NewestAreKept'
  BY <1>1 DEF BkInv, BkWorkers, NewestAreKept
<1>. QED
  BY <1>1, <1>2, <1>3, <1>4, BkTypes, BkAsideKeeps

\* Retention: a run expires when it has enough newer ones, all of them completed.
LEMMA RetentionKeepsNewest ==
  ASSUME BkInv, bkRun' = [r \in BkRuns |-> IF r \in Expirable THEN [bkRun[r] EXCEPT !.verif = "expired"] ELSE bkRun[r]]
  PROVE  /\ NewestAreKept' /\ bkRun' \in [BkRuns -> RowRecs]
         /\ \A r \in BkRuns : bkRun'[r].state = bkRun[r].state /\ bkRun'[r].sum = bkRun[r].sum
<1>1. bkRun' \in [BkRuns -> RowRecs] /\ \A r \in BkRuns : bkRun'[r].state = bkRun[r].state /\ bkRun'[r].sum = bkRun[r].sum
          /\ (bkRun'[r].verif = "expired" => bkRun[r].verif = "expired" \/ r \in Expirable)
  BY SMTT(40), BkTypes DEF RowRecs
<1>2. ASSUME NEW r \in BkRuns, bkRun'[r].verif = "expired"
      PROVE  Cardinality({q \in BkRuns : q > r /\ bkRun'[q].state = "completed"}) >= BkKeep
  <2> DEFINE A == {q \in BkRuns : q > r /\ bkRun[q].state = "completed"}
             B == {q \in BkRuns : q > r /\ bkRun'[q].state = "completed"}
             K == {q \in Keepable : q > r}
  <2>1. A = B
    BY <1>1
  <2>2. CASE bkRun[r].verif = "expired"
    <3>1. Cardinality(A) >= BkKeep
      BY <2>2 DEF BkInv, NewestAreKept
    <3>. QED
      BY <2>1, <3>1
  <2>3. CASE r \in Expirable
    <3>1. K \subseteq A /\ A \subseteq BkRuns
      BY DEF Keepable
    <3>2. Cardinality(K) <= Cardinality(A)
      BY <3>1, BkFinite, FS_Subset
    <3>3. Cardinality(K) >= BkKeep
      BY <2>3 DEF Expirable
    <3>4. K \subseteq BkRuns
      BY <3>1
    <3>5. Cardinality(K) \in Nat /\ Cardinality(A) \in Nat
      BY <3>1, <3>4, BkFinite
    <3> HIDE DEF A, B, K
    <3>6. Cardinality(B) >= BkKeep
      BY <2>1, <3>2, <3>3, <3>5, BackupAssumption
    <3>. QED
      BY <3>6 DEF B
  <2>. QED
    BY <1>1, <1>2, <2>2, <2>3
<1>. QED
  BY <1>1, <1>2 DEF NewestAreKept

LEMMA SchedRetainKeeps == ASSUME BkInv, NEW s \in Schedulers, SchedRetain(s) PROVE BkInv'
<1>1. /\ bkSched[s].at = "retain" /\ SchedIdle(s) /\ bkPlan' = Advanced(s)
      /\ bkRun' = [r \in BkRuns |-> IF r \in Expirable THEN [bkRun[r] EXCEPT !.verif = "expired"] ELSE bkRun[r]]
      /\ bkHarm \subseteq bkHarm' /\ UNCHANGED <<bkArchive, bkTarget, bkMinute>>
      /\ \/ bkJob' = [j \in DOMAIN bkJob |->
                IF j[1] = "delete" /\ j[2] \in Expirable /\ bkJob[j].state = "none"
                THEN [bkJob[j] EXCEPT !.state = "queued"] ELSE bkJob[j]]
         \/ bkJob' = bkJob
  BY HarmStays DEF SchedRetain
<1>2. bkPlan' \in [state : {"active", "pending_delete", "deleted"}, next : 0..MaxBkMinute + 1 \cup {NoTime}]
  <2>1. bkSched[s] \in SchedRecs
    BY BkTypes
  <2>2. bkSched[s].now + 1 \in 0..MaxBkMinute + 1
    BY <2>1, BackupAssumption DEF SchedRecs
  <2>. QED
    BY <1>1, <2>2, BkTypes DEF Advanced
<1>3. /\ bkJob' \in [BkJobIds -> BkJobRecs]
      /\ \A j \in BkJobIds : bkJob'[j] = bkJob[j] \/ (j[1] = "delete" /\ bkJob[j].state = "none" /\ bkJob'[j] = [bkJob[j] EXCEPT !.state = "queued"])
  <2>1. bkJob \in [BkJobIds -> BkJobRecs] /\ DOMAIN bkJob = BkJobIds
    BY BkTypes
  <2>2. CASE bkJob' = bkJob
    BY <2>1, <2>2
  <2>3. CASE bkJob' = [j \in DOMAIN bkJob |->
                IF j[1] = "delete" /\ j[2] \in Expirable /\ bkJob[j].state = "none"
                THEN [bkJob[j] EXCEPT !.state = "queued"] ELSE bkJob[j]]
    <3>1. \A j \in BkJobIds : [bkJob[j] EXCEPT !.state = "queued"] \in BkJobRecs /\ bkJob[j] \in BkJobRecs
      BY <2>1 DEF BkJobRecs
    <3>. QED
      BY <2>1, <2>3, <3>1
  <2>. QED
    BY <1>1, <2>2, <2>3
<1>4. BkWorkers'
  <2>1. SUFFICES ASSUME NEW j \in BkJobIds
                 PROVE  /\ bkJob'[j].at # "idle" => bkJob'[j].state = "running"
                        /\ bkJob'[j].state = "none" => bkJob'[j].tries = 0
                        /\ bkJob'[j].state = "queued" => bkJob'[j].tries < MaxBkAttempts
    BY DEF BkWorkers
  <2>2. CASE bkJob'[j] = bkJob[j]
    BY <2>2 DEF BkInv, BkWorkers
  <2>3. CASE bkJob[j].state = "none" /\ bkJob'[j] = [bkJob[j] EXCEPT !.state = "queued"]
    <3>1. bkJob[j] \in BkJobRecs /\ bkJob[j].at = "idle" /\ bkJob[j].tries = 0
      BY <2>3, BkTypes DEF BkInv, BkWorkers
    <3>2. bkJob'[j].at = "idle" /\ bkJob'[j].tries = 0 /\ bkJob'[j].state = "queued"
      BY <2>3, <3>1 DEF BkJobRecs
    <3>. QED
      BY <3>2, BackupAssumption
  <2>. QED
    BY <1>3, <2>2, <2>3
<1>5. /\ bkSched' \in [Schedulers -> SchedRecs]
      /\ \A t \in Schedulers : bkSched'[t] = bkSched[t] \/ (bkSched'[t].at # "enqueue" /\ bkSched[t].at # "enqueue")
  BY <1>1, BackToIdle
<1>6. /\ NewestAreKept' /\ bkRun' \in [BkRuns -> RowRecs]
      /\ \A r \in BkRuns : bkRun'[r].state = bkRun[r].state /\ bkRun'[r].sum = bkRun[r].sum
  BY <1>1, RetentionKeepsNewest
<1>7. BkTypeOK'
  BY <1>1, <1>2, <1>3, <1>5, <1>6, BkTypes, BkTypesAfter
<1>8. \A r \in BkRuns : bkJob'[RunJob(r)] = bkJob[RunJob(r)]
  BY <1>3, BkShapes DEF RunJob
<1>. QED
  BY <1>1, <1>4, <1>5, <1>6, <1>7, <1>8, BkAsideKeeps
-----------------------------------------------------------------------------
\* Steps on one run and its job.

LEMMA BkRunStepKeeps ==
  ASSUME BkInv, NEW r \in BkRuns, BkTypeOK', BkWorkers', bkHarm \subseteq bkHarm', BkRow(r)',
         \A q \in BkRuns : q # r => /\ bkJob'[RunJob(q)] = bkJob[RunJob(q)] /\ bkRun'[q] = bkRun[q]
                                    /\ bkArchive'[q] = bkArchive[q] /\ bkTarget'[q] = bkTarget[q],
         bkRun'[r].verif = bkRun[r].verif, bkRun[r].state = "completed" => bkRun'[r].state = "completed",
         bkRun'[r].state = "absent" => bkRun[r].state = "absent",
         RowActive(r)' => RowActive(r) \/ BkActive = {} \/ "raced" \in bkHarm',
         \A s \in Schedulers : \/ bkSched'[s] = bkSched[s]
                               \/ /\ bkSched[s].at = "enqueue" => bkSched[s].run = r
                                  /\ bkSched'[s].at = "enqueue" => bkSched'[s].run = r /\ bkRun'[r].state # "absent"
  PROVE  BkInv'
<1>1. ASSUME NEW q \in BkRuns, q # r PROVE BkRow(q)'
  <2>1. Attended(q) => Attended(q)'
    BY <1>1, AttendedStays
  <2>2. BkRow(q)
    BY DEF BkInv
  <2>. QED
    BY <1>1, <2>1, <2>2, RowStays
<1>2. BkAttends'
  <2>1. ASSUME NEW s \in Schedulers, bkSched'[s].at = "enqueue" PROVE bkSched'[s].run \in BkRuns /\ bkRun'[bkSched'[s].run].state # "absent"
    <3>1. CASE bkSched'[s] = bkSched[s]
      <4>1. bkSched[s].run \in BkRuns /\ bkRun[bkSched[s].run].state # "absent"
        BY <2>1, <3>1 DEF BkInv, BkAttends
      <4>. QED
        BY <3>1, <4>1
    <3>2. CASE bkSched'[s].run = r /\ bkRun'[r].state # "absent"
      BY <3>2
    <3>. QED
      BY <2>1, <3>1, <3>2
  <2>. QED
    BY <2>1 DEF BkAttends
<1>3. OneRowActive'
  <2>1. SUFFICES ASSUME bkHarm' \cap {"raced", "crash", "not queued"} = {}, NEW p \in BkRuns, NEW q \in BkRuns, RowActive(p)', RowActive(q)'
                 PROVE p = q
    BY DEF OneRowActive, RowActive
  <2>2. \A x, y \in BkRuns : RowActive(x) /\ RowActive(y) => x = y
    BY <2>1 DEF BkInv, OneRowActive
  <2>3. \A x \in BkRuns : x # r => (RowActive(x)' <=> RowActive(x))
    BY DEF RowActive
  <2>4. BkActive = {} => \A x \in BkRuns : ~RowActive(x)
    BY DEF BkActive, RowActive
  <2>5. RowActive(r)' => RowActive(r) \/ BkActive = {}
    BY <2>1
  <2>. QED
    BY <2>1, <2>2, <2>3, <2>4, <2>5
<1>4. NewestAreKept'
  BY NewestStay DEF BkInv
<1>. QED
  BY <1>1, <1>2, <1>3, <1>4 DEF BkInv

\* A row takes another state, and nothing else of it changes.
RowTo(r, st) == [bkRun[r] EXCEPT !.state = st]

LEMMA RowSet ==
  ASSUME BkInv, NEW r \in BkRuns, NEW st \in {"absent", "queued", "running", "completed", "failed"},
         bkRun' = [bkRun EXCEPT ![r].state = st]
  PROVE  /\ bkRun' \in [BkRuns -> RowRecs] /\ bkRun'[r].state = st /\ bkRun'[r].verif = bkRun[r].verif /\ bkRun'[r].sum = bkRun[r].sum
         /\ \A q \in BkRuns : q # r => bkRun'[q] = bkRun[q]
<1>1. bkRun \in [BkRuns -> RowRecs] /\ bkRun[r] \in RowRecs
  BY BkTypes
<1>2. bkRun' = [bkRun EXCEPT ![r] = RowTo(r, st)] /\ RowTo(r, st) \in RowRecs /\ RowTo(r, st).state = st
      /\ RowTo(r, st).verif = bkRun[r].verif /\ RowTo(r, st).sum = bkRun[r].sum
  BY <1>1 DEF RowTo, RowRecs
<1>. QED
  BY <1>1, <1>2

\* MarkRunFailed, of the row as it is.
LEMMA RowFails ==
  ASSUME BkInv, NEW r \in BkRuns, bkRun' = RunFailed(bkRun, r)
  PROVE  /\ bkRun' \in [BkRuns -> RowRecs] /\ bkRun'[r].verif = bkRun[r].verif /\ bkRun'[r].sum = bkRun[r].sum
         /\ bkRun'[r].state = IF RowActive(r) THEN "failed" ELSE bkRun[r].state
         /\ \A q \in BkRuns : q # r => bkRun'[q] = bkRun[q]
<1> DEFINE st == IF RowActive(r) THEN "failed" ELSE bkRun[r].state
<1>1. bkRun \in [BkRuns -> RowRecs] /\ bkRun[r] \in RowRecs
  BY BkTypes
<1>2. st \in {"absent", "queued", "running", "completed", "failed"}
  BY <1>1 DEF RowRecs
<1>3. bkRun' = [bkRun EXCEPT ![r].state = st]
  BY <1>1 DEF RunFailed, RowActive
<1> HIDE DEF st
<1>4. /\ bkRun' \in [BkRuns -> RowRecs] /\ bkRun'[r].state = st /\ bkRun'[r].verif = bkRun[r].verif /\ bkRun'[r].sum = bkRun[r].sum
      /\ \A q \in BkRuns : q # r => bkRun'[q] = bkRun[q]
  BY <1>2, <1>3, RowSet
<1>. QED
  BY <1>4 DEF st

\* The row of a new run, and the run when its job could not be enqueued.
NewRow(r, key, st) == [bkRun[r] EXCEPT !.state = st, !.key = key]

LEMMA RowInserted ==
  ASSUME BkInv, NEW r \in BkRuns, NEW key \in 0..MaxBkMinute \cup {NoTime}, NEW st \in {"queued", "failed"},
         bkRun' = IF st = "queued" THEN Inserted(r, key) ELSE RunFailed(Inserted(r, key), r)
  PROVE  /\ bkRun' \in [BkRuns -> RowRecs] /\ bkRun'[r].state = st /\ bkRun'[r].verif = bkRun[r].verif /\ bkRun'[r].sum = bkRun[r].sum
         /\ \A q \in BkRuns : q # r => bkRun'[q] = bkRun[q]
<1>1. bkRun \in [BkRuns -> RowRecs] /\ bkRun[r] \in RowRecs
  BY BkTypes
<1>2. NewRow(r, key, st) \in RowRecs /\ NewRow(r, key, st).state = st /\ NewRow(r, key, st).verif = bkRun[r].verif /\ NewRow(r, key, st).sum = bkRun[r].sum
  BY <1>1 DEF NewRow, RowRecs
<1>3. Inserted(r, key) = [bkRun EXCEPT ![r] = NewRow(r, key, "queued")]
  BY <1>1 DEF Inserted, NewRow, RowRecs
<1>4. NewRow(r, key, "queued").state = "queued" /\ [NewRow(r, key, "queued") EXCEPT !.state = "failed"] = NewRow(r, key, "failed")
  BY <1>1 DEF NewRow, RowRecs
<1>5. bkRun' = [bkRun EXCEPT ![r] = NewRow(r, key, st)]
  <2>1. CASE st = "queued"
    BY <1>3, <2>1
  <2>2. CASE st = "failed"
    <3>1. bkRun' = [Inserted(r, key) EXCEPT ![r].state = IF @ \in {"queued", "running"} THEN "failed" ELSE @]
      BY <2>2 DEF RunFailed
    <3>2. Inserted(r, key)[r] = NewRow(r, key, "queued")
      BY <1>1, <1>3
    <3>3. bkRun' = [Inserted(r, key) EXCEPT ![r] = [NewRow(r, key, "queued") EXCEPT !.state = "failed"]]
      BY <1>4, <3>1, <3>2
    <3>. QED
      BY <1>1, <1>3, <1>4, <2>2, <3>3
  <2>. QED
    BY <2>1, <2>2
<1>. QED
  BY <1>1, <1>2, <1>5

\* A run and its job fail together; the archive is what the attempt left.
LEMMA RunJobFailsKeeps ==
  ASSUME BkInv, NEW r \in BkRuns, BkJobOpen(r), EndBkJob(RunJob(r), "failed"), bkHarm \subseteq bkHarm',
         bkRun' \in [BkRuns -> RowRecs], bkRun'[r].verif = bkRun[r].verif, bkRun'[r].state = IF RowActive(r) THEN "failed" ELSE bkRun[r].state,
         \A q \in BkRuns : q # r => bkRun'[q] = bkRun[q] /\ bkArchive'[q] = bkArchive[q], bkArchive' \in [BkRuns -> 0..MaxBkAttempts],
         UNCHANGED <<bkPlan, bkTarget, bkSched, bkMinute>>
  PROVE  BkInv'
<1>1. RunJob(r) \in BkJobIds /\ bkJob[RunJob(r)].state \in {"queued", "running"}
  BY BkShapes DEF BkJobOpen, RunJob
<1>2. /\ bkJob' \in [BkJobIds -> BkJobRecs] /\ BkWorkers' /\ bkJob'[RunJob(r)].state = "failed" /\ bkJob'[RunJob(r)].at = "idle"
      /\ \A q \in BkRuns : q # r => bkJob'[RunJob(q)] = bkJob[RunJob(q)]
  BY <1>1, BkEnds, BkShapes
<1>3. BkTypeOK'
  BY <1>2, BkTypes, BkTypesAfter
<1>4. ~RowActive(r)' /\ ~BkJobOpen(r)'
  BY <1>2 DEF RowActive, BkJobOpen, RunJob
<1>5. bkRun'[r].state # "absent" /\ bkRun'[r].state # "queued"
  BY <1>1 DEF BkInv, BkRow, RowActive
<1>6. "crash" \notin bkHarm' => bkRun'[r].state # "completed"
  <2>1. SUFFICES ASSUME "crash" \notin bkHarm', bkRun'[r].state = "completed" PROVE FALSE
    OBVIOUS
  <2>2. BkStored(r)
    BY <2>1 DEF BkInv, BkRow
  <2>. QED
    BY <1>1, <2>1, <2>2 DEF BkStored, RowActive
<1>7. BkRow(r)'
  <2>1. "crash" \notin bkHarm' => BkStored(r)'
    BY <1>2, <1>6 DEF BkStored, RunJob
  <2>. QED
    BY <1>2, <1>4, <1>5, <2>1 DEF BkRow, RunJob
<1>8. bkRun[r].state = "completed" => bkRun'[r].state = "completed"
  BY DEF RowActive
<1>. QED
  BY <1>2, <1>3, <1>4, <1>5, <1>7, <1>8, BkRunStepKeeps

LEMMA ArchiveStepKeeps == ASSUME BkInv, NEW r \in BkRuns, ArchiveStep(r) PROVE BkInv'
<1> DEFINE new == [bkArchive EXCEPT ![r] = bkJob[RunJob(r)].tries]
<1>1. RunJob(r) \in BkJobIds /\ bkJob[RunJob(r)] \in BkJobRecs /\ bkJob[RunJob(r)].at = "archive" /\ UNCHANGED <<bkPlan, bkSched, bkMinute>>
  BY BkShapes, BkTypes DEF ArchiveStep, RunJob
<1>2. bkJob[RunJob(r)].state = "running" /\ BkJobOpen(r)
  BY <1>1 DEF BkInv, BkWorkers, BkJobOpen, RunJob
<1>3. new \in [BkRuns -> 0..MaxBkAttempts] /\ [bkArchive EXCEPT ![r] = 0] \in [BkRuns -> 0..MaxBkAttempts]
      /\ \A q \in BkRuns : q # r => new[q] = bkArchive[q] /\ [bkArchive EXCEPT ![r] = 0][q] = bkArchive[q]
  BY <1>1, BkTypes, BackupAssumption DEF BkJobRecs
<1>4. CASE /\ BkFault("failed") /\ bkArchive' \in {new, [bkArchive EXCEPT ![r] = 0]}
           /\ EndBkJob(RunJob(r), "failed") /\ bkRun' = RunFailed(bkRun, r) /\ bkTarget' = bkTarget
  <2>1. bkHarm \subseteq bkHarm'
    BY <1>4, HarmStays
  <2> HIDE DEF new
  <2>2. bkArchive' \in [BkRuns -> 0..MaxBkAttempts] /\ \A q \in BkRuns : q # r => bkArchive'[q] = bkArchive[q]
    BY <1>3, <1>4
  <2>. QED
    BY <1>1, <1>2, <1>4, <2>1, <2>2, RowFails, RunJobFailsKeeps
<1>5. CASE /\ bkArchive' = new /\ bkTarget' \in {bkTarget, [bkTarget EXCEPT ![r] = new[r]]}
           /\ BkStep(RunJob(r), "complete") /\ bkRun' = bkRun /\ UNCHANGED bkFlt
  <2>1. bkHarm' = bkHarm
    BY <1>5 DEF bkFlt
  <2>2. new[r] \in 0..MaxBkAttempts
    BY <1>3
  <2> HIDE DEF new
  <2>3. /\ bkArchive' \in [BkRuns -> 0..MaxBkAttempts] /\ bkTarget' \in [BkRuns -> 0..MaxBkAttempts]
        /\ \A q \in BkRuns : q # r => bkArchive'[q] = bkArchive[q] /\ bkTarget'[q] = bkTarget[q]
        /\ bkTarget'[r] \in {bkTarget[r], bkArchive'[r]}
    BY <1>3, <1>5, <2>2, BkTypes
  <2> DEFINE rec == [bkJob[RunJob(r)] EXCEPT !.at = "complete"]
  <2>4. rec \in BkJobRecs /\ rec.state = "running" /\ rec.at = "complete" /\ bkJob' = [bkJob EXCEPT ![RunJob(r)] = rec]
    BY <1>1, <1>2, <1>5, BkTypes DEF BkStep, BkJobRecs
  <2> HIDE DEF rec
  <2>5. /\ bkJob' \in [BkJobIds -> BkJobRecs] /\ bkJob'[RunJob(r)].state = "running" /\ bkJob'[RunJob(r)].at = "complete"
        /\ \A j \in BkJobIds : j # RunJob(r) => bkJob'[j] = bkJob[j]
    BY <1>1, <2>4, BkTypes
  <2>6. BkWorkers'
    BY <2>5 DEF BkInv, BkWorkers
  <2>7. BkTypeOK'
    BY <1>1, <1>5, <2>3, <2>5, BkTypes, BkTypesAfter
  <2>8. BkRow(r)'
    <3>1. ASSUME "crash" \notin bkHarm' PROVE BkStored(r)'
      <4>1. BkStored(r)
        BY <2>1, <3>1 DEF BkInv, BkRow
      <4>2. bkTarget[r] = 0 /\ bkRun[r].state # "completed"
        BY <1>1, <1>2, <4>1 DEF BkStored
      <4>. QED
        BY <1>5, <2>3, <2>5, <4>2 DEF BkStored, RunJob
    <3>2. BkRow(r)
      BY DEF BkInv
    <3>3. BkJobOpen(r)'
      BY <2>5 DEF BkJobOpen, RunJob
    <3>4. RowActive(r)' <=> RowActive(r)
      BY <1>5 DEF RowActive
    <3>. QED
      BY <1>2, <1>5, <2>1, <2>5, <3>1, <3>2, <3>3, <3>4 DEF BkRow, RunJob
  <2>9. \A q \in BkRuns : q # r => bkJob'[RunJob(q)] = bkJob[RunJob(q)]
    BY <2>5, BkShapes
  <2>10. RowActive(r)' => RowActive(r)
    BY <1>5 DEF RowActive
  <2>. QED
    BY <1>1, <1>5, <2>1, <2>3, <2>6, <2>7, <2>8, <2>9, <2>10, BkRunStepKeeps
<1>. QED
  BY <1>4, <1>5 DEF ArchiveStep, RunJob
LEMMA CompleteStepKeeps == ASSUME BkInv, NEW r \in BkRuns, CompleteStep(r) PROVE BkInv'
<1>1. RunJob(r) \in BkJobIds /\ bkJob[RunJob(r)].at = "complete" /\ UNCHANGED <<bkPlan, bkArchive, bkTarget, bkSched, bkMinute>>
      /\ UNCHANGED bkFlt /\ bkHarm' = bkHarm
  BY BkShapes DEF CompleteStep, RunJob, bkFlt
<1>2. bkJob[RunJob(r)].state = "running" /\ BkJobOpen(r) /\ bkRun[r].state # "queued"
  BY <1>1 DEF BkInv, BkWorkers, BkJobOpen, RunJob, BkRow
<1>3. CASE ~Completable(r) /\ EndBkJob(RunJob(r), "failed") /\ bkRun' = bkRun
  <2>1. ~RowActive(r)
    BY <1>2, <1>3 DEF Completable, RowActive
  <2>. QED
    BY <1>1, <1>2, <1>3, <2>1, BkTypes, RunJobFailsKeeps
<1>4. CASE /\ Completable(r) /\ bkRun' = [bkRun EXCEPT ![r].state = "completed", ![r].sum = bkArchive[r]]
           /\ EndBkJob(RunJob(r), "succeeded")
  <2>1. bkRun \in [BkRuns -> RowRecs] /\ bkRun[r] \in RowRecs /\ bkArchive[r] \in 0..MaxBkAttempts
    BY BkTypes
  <2> DEFINE rec == [bkRun[r] EXCEPT !.state = "completed", !.sum = bkArchive[r]]
  <2>2. rec \in RowRecs /\ rec.state = "completed" /\ rec.sum = bkArchive[r] /\ rec.verif = bkRun[r].verif
    BY <2>1 DEF RowRecs
  <2>3. bkRun' = [bkRun EXCEPT ![r] = rec]
    BY <1>4, <2>1
  <2> HIDE DEF rec
  <2>4. /\ bkRun' \in [BkRuns -> RowRecs] /\ bkRun'[r].state = "completed" /\ bkRun'[r].sum = bkArchive[r] /\ bkRun'[r].verif = bkRun[r].verif
        /\ \A q \in BkRuns : q # r => bkRun'[q] = bkRun[q]
    BY <2>1, <2>2, <2>3
  <2>5. /\ bkJob' \in [BkJobIds -> BkJobRecs] /\ BkWorkers' /\ bkJob'[RunJob(r)].state = "succeeded" /\ bkJob'[RunJob(r)].at = "idle"
        /\ \A q \in BkRuns : q # r => bkJob'[RunJob(q)] = bkJob[RunJob(q)]
    BY <1>1, <1>4, BkEnds, BkShapes
  <2>6. BkTypeOK'
    BY <1>1, <2>4, <2>5, BkTypes, BkTypesAfter
  <2>7. ~RowActive(r)' /\ ~BkJobOpen(r)'
    BY <2>4, <2>5 DEF RowActive, BkJobOpen, RunJob
  <2>8. "crash" \notin bkHarm' => BkStored(r)'
    <3>1. SUFFICES ASSUME "crash" \notin bkHarm' PROVE BkStored(r)'
      OBVIOUS
    <3>2. bkTarget[r] \in {0, bkArchive[r]}
      BY <1>1, <3>1 DEF BkInv, BkRow, BkStored
    <3>. QED
      BY <1>1, <2>4, <2>5, <3>2 DEF BkStored, RunJob
  <2>9. BkRow(r)'
    BY <2>4, <2>5, <2>7, <2>8 DEF BkRow, RunJob
  <2>. QED
    BY <1>1, <2>4, <2>5, <2>6, <2>7, <2>9, BkRunStepKeeps
<1>. QED
  BY <1>3, <1>4 DEF CompleteStep, RunJob

\* The job of a run is claimed, for the first time or again.
LEMMA RunClaimedKeeps ==
  ASSUME BkInv, NEW r \in BkRuns, bkJob[RunJob(r)].state = "queued",
         bkJob' = [bkJob EXCEPT ![RunJob(r)] = [state |-> "running", tries |-> @.tries + 1, at |-> "archive"]],
         bkRun' = IF bkRun[r].state = "queued" THEN [bkRun EXCEPT ![r].state = "running"] ELSE bkRun,
         UNCHANGED <<bkPlan, bkArchive, bkTarget, bkSched, bkMinute, bkHarm>>
  PROVE  BkInv'
<1>1. RunJob(r) \in BkJobIds /\ BkJobOpen(r)
  BY BkShapes DEF BkJobOpen, RunJob
<1>2. /\ bkJob' \in [BkJobIds -> BkJobRecs] /\ BkWorkers' /\ bkJob'[RunJob(r)].state = "running" /\ bkJob'[RunJob(r)].at = "archive"
      /\ \A q \in BkRuns : q # r => bkJob'[RunJob(q)] = bkJob[RunJob(q)]
  BY <1>1, BkClaims, BkShapes
<1>3. /\ bkRun' \in [BkRuns -> RowRecs] /\ bkRun'[r].state = IF bkRun[r].state = "queued" THEN "running" ELSE bkRun[r].state
      /\ bkRun'[r].verif = bkRun[r].verif /\ \A q \in BkRuns : q # r => bkRun'[q] = bkRun[q]
  BY RowSet, BkTypes
<1>4. BkTypeOK'
  BY <1>2, <1>3, BkTypes, BkTypesAfter
<1>5. BkJobOpen(r)' /\ (RowActive(r)' <=> RowActive(r))
  BY <1>2, <1>3 DEF BkJobOpen, RunJob, RowActive
<1>6. "crash" \notin bkHarm => BkStored(r)'
  <2>1. SUFFICES ASSUME "crash" \notin bkHarm PROVE BkStored(r)'
    OBVIOUS
  <2>2. bkTarget[r] = 0 /\ bkRun[r].state # "completed"
    BY <2>1 DEF BkInv, BkRow, BkStored
  <2>. QED
    BY <1>2, <1>3, <2>2 DEF BkStored, RunJob
<1>7. BkRow(r)'
  <2>1. BkRow(r)
    BY DEF BkInv
  <2>. QED
    BY <1>1, <1>2, <1>3, <1>5, <1>6, <2>1 DEF BkRow, RunJob
<1>. QED
  BY <1>2, <1>3, <1>4, <1>5, <1>7, BkRunStepKeeps

LEMMA StartBkJobKeeps == ASSUME BkInv, NEW j \in BkJobIds, StartBkJob(j) PROVE BkInv'
<1>1. /\ bkJob[j].state = "queued" /\ UNCHANGED <<bkPlan, bkArchive, bkTarget, bkSched, bkMinute, bkHarm>>
      /\ j[2] \in BkRuns /\ j[1] \in BkKinds /\ (j[1] = "run" => j = RunJob(j[2]))
  BY BkShapes DEF StartBkJob, bkFlt
<1>2. CASE j[1] = "run"
  <2>1. j = RunJob(j[2]) /\ BkJobOpen(j[2])
    BY <1>1, <1>2 DEF BkJobOpen, RunJob
  <2>2. CASE EndBkJob(j, "failed") /\ bkRun' = RunFailed(bkRun, j[2])
    <3>1. /\ bkRun' \in [BkRuns -> RowRecs] /\ bkRun'[j[2]].verif = bkRun[j[2]].verif
          /\ bkRun'[j[2]].state = IF RowActive(j[2]) THEN "failed" ELSE bkRun[j[2]].state
          /\ \A q \in BkRuns : q # j[2] => bkRun'[q] = bkRun[q]
      BY <1>1, <2>2, RowFails
    <3>. QED
      BY <1>1, <2>1, <2>2, <3>1, BkTypes, RunJobFailsKeeps
  <2>3. CASE /\ bkJob' = [bkJob EXCEPT ![j] = [state |-> "running", tries |-> @.tries + 1, at |-> "archive"]]
             /\ bkRun' = IF bkRun[j[2]].state = "queued" THEN [bkRun EXCEPT ![j[2]].state = "running"] ELSE bkRun
    BY <1>1, <2>1, <2>3, RunClaimedKeeps
  <2>. QED
    BY <1>2, <2>2, <2>3 DEF StartBkJob
<1>3. CASE j[1] # "run"
  <2>1. bkRun' = bkRun \/ \E v \in {"verified", "failed"} : Verification(j[2], v)
    BY <1>3 DEF StartBkJob
  <2>2. bkJob' \in [BkJobIds -> BkJobRecs] /\ BkWorkers' /\ \A i \in BkJobIds : i # j => bkJob'[i] = bkJob[i]
    <3>1. CASE EndBkJob(j, "failed")
      BY <3>1, BkEnds
    <3>2. CASE bkJob' = [bkJob EXCEPT ![j] = [state |-> "running", tries |-> @.tries + 1, at |-> j[1]]]
      <4>1. j[1] \in {"archive", "verify", "restore", "delete"}
        BY <1>1, <1>3 DEF BkKinds
      <4>. QED
        BY <1>1, <3>2, <4>1, BkClaims
    <3>. QED
      BY <1>3, <3>1, <3>2 DEF StartBkJob
  <2>. QED
    BY <1>1, <1>3, <2>1, <2>2, OtherJobKeeps
<1>. QED
  BY <1>2, <1>3

LEMMA BkWorkerDiesKeeps == ASSUME BkInv, NEW j \in BkJobIds, BkWorkerDies(j) PROVE BkInv'
<1> DEFINE r == j[2]
<1>1. /\ bkJob[j].state = "running" /\ "crash" \in bkHarm' /\ bkHarm \subseteq bkHarm' /\ UNCHANGED <<bkPlan, bkArchive, bkTarget, bkSched, bkMinute>>
      /\ EndBkJob(j, IF bkJob[j].tries < MaxBkAttempts THEN "queued" ELSE "failed")
      /\ bkRun' = bkRun \/ (Completable(r) /\ bkRun' = [bkRun EXCEPT ![r].state = "completed", ![r].sum = bkArchive[r]])
  BY DEF BkWorkerDies, BkFault
<1>2. /\ r \in BkRuns /\ bkJob' \in [BkJobIds -> BkJobRecs] /\ BkWorkers' /\ bkJob'[j].state \in {"queued", "failed"}
      /\ \A i \in BkJobIds : i # j => bkJob'[i] = bkJob[i]
  BY <1>1, BkEnds, BkShapes
<1>3. \A q \in BkRuns : q # r => bkJob'[RunJob(q)] = bkJob[RunJob(q)]
  BY <1>2, BkShapes
<1>4. bkJob'[RunJob(r)] = bkJob[RunJob(r)] \/ (bkJob[RunJob(r)].state = "running" /\ bkJob'[RunJob(r)].state \in {"queued", "failed"})
  BY <1>1, <1>2, BkShapes
<1> HIDE DEF r
<1>5. /\ bkRun' \in [BkRuns -> RowRecs] /\ bkRun'[r].verif = bkRun[r].verif
      /\ bkRun'[r].state = bkRun[r].state \/ (bkRun[r].state = "running" /\ bkRun'[r].state = "completed")
      /\ \A q \in BkRuns : q # r => bkRun'[q] = bkRun[q]
  <2>1. bkRun \in [BkRuns -> RowRecs] /\ bkRun[r] \in RowRecs /\ bkArchive[r] \in 0..MaxBkAttempts
    BY <1>2, BkTypes
  <2>2. CASE bkRun' = bkRun
    BY <2>1, <2>2
  <2>3. CASE Completable(r) /\ bkRun' = [bkRun EXCEPT ![r].state = "completed", ![r].sum = bkArchive[r]]
    <3> DEFINE rec == [bkRun[r] EXCEPT !.state = "completed", !.sum = bkArchive[r]]
    <3>1. rec \in RowRecs /\ rec.state = "completed" /\ rec.verif = bkRun[r].verif /\ bkRun[r].state = "running"
      BY <2>1, <2>3 DEF RowRecs, Completable
    <3>2. bkRun' = [bkRun EXCEPT ![r] = rec]
      BY <2>1, <2>3
    <3> HIDE DEF rec
    <3>. QED
      BY <1>2, <2>1, <3>1, <3>2
  <2>. QED
    BY <1>1, <2>2, <2>3
<1>6. BkTypeOK'
  BY <1>1, <1>2, <1>5, BkTypes, BkTypesAfter
<1>7. BkRow(r)'
  <2>1. BkRow(r)
    BY <1>2 DEF BkInv
  <2>2. /\ bkJob'[RunJob(r)].state # "none" => bkRun'[r].state # "absent"
        /\ bkJob'[RunJob(r)].state = "running" => bkRun'[r].state # "queued"
        /\ "not queued" \notin bkHarm' /\ bkRun'[r].state # "absent" /\ bkJob'[RunJob(r)].state = "none" => bkRun'[r].state = "queued"
    BY <1>1, <1>4, <1>5, <2>1 DEF BkRow
  <2>. QED
    BY <1>1, <2>2 DEF BkRow, RunJob
<1>8. RowActive(r)' => RowActive(r)
  BY <1>5 DEF RowActive
<1>. QED
  BY <1>1, <1>2, <1>3, <1>5, <1>6, <1>7, <1>8, BkRunStepKeeps

\* A new row, with its job or without.
LEMMA NewRunKeeps ==
  ASSUME BkInv, NEW r \in BkRuns, NEW st \in {"queued", "failed"}, NEW key \in 0..MaxBkMinute \cup {NoTime},
         bkRun[r].state = "absent", bkRun' = IF st = "queued" THEN Inserted(r, key) ELSE RunFailed(Inserted(r, key), r),
         bkJob' = bkJob \/ (bkJob' = BkQueued("run", r) /\ st = "queued"), bkHarm \subseteq bkHarm',
         BkActive = {} \/ "raced" \in bkHarm', bkSched' \in [Schedulers -> SchedRecs],
         \A s \in Schedulers : bkSched'[s] = bkSched[s] \/ (bkSched[s].at # "enqueue" /\ bkSched'[s].run = r),
         bkJob' = bkJob => "not queued" \in bkHarm' \/ st = "queued",
         bkJob' = bkJob /\ st = "queued" => "died" \in bkHarm' \/ Attended(r)',
         UNCHANGED <<bkPlan, bkArchive, bkTarget, bkMinute>>
  PROVE  BkInv'
<1>1. RunJob(r) \in BkJobIds /\ bkJob[RunJob(r)].state = "none" /\ bkJob[RunJob(r)].at = "idle"
  BY BkShapes DEF BkInv, BkRow, BkWorkers
<1>2. /\ bkJob' \in [BkJobIds -> BkJobRecs] /\ BkWorkers' /\ bkJob'[RunJob(r)].at = "idle"
      /\ bkJob'[RunJob(r)].state = IF bkJob' = bkJob THEN "none" ELSE "queued"
      /\ \A q \in BkRuns : q # r => bkJob'[RunJob(q)] = bkJob[RunJob(q)]
  <2>1. CASE bkJob' = bkJob
    BY <1>1, <2>1, BkTypes DEF BkInv, BkWorkers
  <2>2. CASE bkJob' = BkQueued("run", r)
    <3>1. /\ bkJob' \in [BkJobIds -> BkJobRecs] /\ BkWorkers' /\ bkJob'[RunJob(r)].at = "idle" /\ bkJob'[RunJob(r)].state = "queued"
          /\ \A j \in BkJobIds : j # RunJob(r) => bkJob'[j] = bkJob[j]
      BY <1>1, <2>2, BkQueues DEF RunJob, BkKinds
    <3>2. bkJob' # bkJob
      BY <1>1, <3>1
    <3>. QED
      BY <3>1, <3>2, BkShapes
  <2>. QED
    BY <2>1, <2>2
<1>3. /\ bkRun' \in [BkRuns -> RowRecs] /\ bkRun'[r].state = st /\ bkRun'[r].verif = bkRun[r].verif
      /\ \A q \in BkRuns : q # r => bkRun'[q] = bkRun[q]
  BY RowInserted
<1>4. BkTypeOK'
  BY <1>2, <1>3, BkTypes, BkTypesAfter
<1>5. (RowActive(r)' <=> st = "queued") /\ (BkJobOpen(r)' <=> bkJob' # bkJob)
  BY <1>2, <1>3 DEF RowActive, BkJobOpen, RunJob
<1>6. BkRow(r)'
  <2>1. "crash" \notin bkHarm' => BkStored(r)'
    <3>1. SUFFICES ASSUME "crash" \notin bkHarm' PROVE BkStored(r)'
      OBVIOUS
    <3>2. bkTarget[r] = 0
      BY <1>1, <3>1 DEF BkInv, BkRow, BkStored
    <3>. QED
      BY <1>2, <1>3, <3>2 DEF BkStored, RunJob
  <2>2. bkHarm' \cap {"died", "crash"} = {} /\ RowActive(r)' => BkJobOpen(r)' \/ Attended(r)'
    BY <1>5
  <2>. QED
    BY <1>2, <1>3, <1>5, <2>1, <2>2 DEF BkRow, RunJob
<1>7. \A s \in Schedulers : \/ bkSched'[s] = bkSched[s]
                            \/ /\ bkSched[s].at = "enqueue" => bkSched[s].run = r
                               /\ bkSched'[s].at = "enqueue" => bkSched'[s].run = r /\ bkRun'[r].state # "absent"
  BY <1>3
<1>. QED
  BY <1>2, <1>3, <1>4, <1>6, <1>7, BkRunStepKeeps

LEMMA TriggerRunKeeps == ASSUME BkInv, NEW r \in BkRuns, TriggerRun(r) PROVE BkInv'
<1>1. /\ BkActive = {} /\ bkRun[r].state = "absent" /\ UNCHANGED <<bkPlan, bkArchive, bkTarget, bkSched, bkMinute>>
      /\ bkHarm \subseteq bkHarm' /\ NoTime \in 0..MaxBkMinute \cup {NoTime} /\ bkSched \in [Schedulers -> SchedRecs]
  BY HarmStays, BkTypes DEF TriggerRun, NewRun
<1>2. CASE bkRun' = Inserted(r, NoTime) /\ bkJob' = BkQueued("run", r)
  <2>1. bkJob' # bkJob
    <3>1. RunJob(r) \in BkJobIds /\ bkJob[RunJob(r)].state = "none"
      BY <1>1, BkShapes DEF BkInv, BkRow
    <3>2. bkJob'[RunJob(r)].state = "queued"
      BY <1>2, <3>1, BkQueues DEF RunJob, BkKinds
    <3>. QED
      BY <3>1, <3>2
  <2>. QED
    BY <1>1, <1>2, <2>1, NewRunKeeps
<1>3. CASE BkFault("not queued") /\ bkRun' = RunFailed(Inserted(r, NoTime), r) /\ bkJob' = bkJob
  BY <1>1, <1>3, NewRunKeeps DEF BkFault
<1>4. CASE BkFault("died") /\ bkRun' = Inserted(r, NoTime) /\ bkJob' = bkJob
  BY <1>1, <1>4, NewRunKeeps DEF BkFault
<1>. QED
  BY <1>2, <1>3, <1>4 DEF TriggerRun, Unqueued

LEMMA SchedInsertKeeps == ASSUME BkInv, NEW s \in Schedulers, NEW r \in BkRuns, SchedInsert(s, r) PROVE BkInv'
<1> DEFINE rec == [bkSched[s] EXCEPT !.at = "enqueue", !.run = r]
<1>1. /\ bkSched[s].at = "insert" /\ UNCHANGED <<bkPlan, bkJob, bkArchive, bkTarget, bkMinute>>
      /\ bkSched' = [bkSched EXCEPT ![s].at = "enqueue", ![s].run = r] /\ bkSched \in [Schedulers -> SchedRecs] /\ bkSched[s] \in SchedRecs
  BY BkTypes DEF SchedInsert
<1>2. rec \in SchedRecs /\ rec.at = "enqueue" /\ rec.run = r /\ bkSched' = [bkSched EXCEPT ![s] = rec]
  BY <1>1 DEF SchedRecs
<1> HIDE DEF rec
<1>3. /\ bkSched' \in [Schedulers -> SchedRecs] /\ bkSched'[s].at = "enqueue" /\ bkSched'[s].run = r
      /\ \A t \in Schedulers : t # s => bkSched'[t] = bkSched[t]
  BY <1>1, <1>2
<1>4. bkSched[s].now \in 0..MaxBkMinute
  BY <1>1 DEF SchedRecs
<1>5. CASE r \in KeyHolder(bkSched[s].now) /\ bkRun' = bkRun /\ bkHarm' = bkHarm
  <2>1. bkRun[r].state # "absent" /\ BkRow(r)
    BY <1>5 DEF KeyHolder, BkInv
  <2>2. Attended(r) => Attended(r)'
    BY <1>3 DEF Attended
  <2>3. BkRow(r)'
    BY <1>1, <1>5, <2>1, <2>2, RowStays
  <2>4. BkTypeOK' /\ BkWorkers'
    BY <1>1, <1>3, <1>5, BkTypes, BkTypesAfter DEF BkInv, BkWorkers
  <2>5. RowActive(r)' => RowActive(r)
    BY <1>5 DEF RowActive
  <2>6. \A t \in Schedulers : \/ bkSched'[t] = bkSched[t]
                              \/ /\ bkSched[t].at = "enqueue" => bkSched[t].run = r
                                 /\ bkSched'[t].at = "enqueue" => bkSched'[t].run = r /\ bkRun'[r].state # "absent"
    BY <1>1, <1>3, <1>5, <2>1
  <2>. QED
    BY <1>1, <1>5, <2>1, <2>3, <2>4, <2>5, <2>6, BkRunStepKeeps
<1>6. CASE /\ NewRun(r) /\ bkRun' = Inserted(r, bkSched[s].now)
           /\ IF MayInsert THEN UNCHANGED bkFlt ELSE BkFault("raced")
  <2>1. bkRun[r].state = "absent" /\ bkHarm \subseteq bkHarm' /\ (BkActive = {} \/ "raced" \in bkHarm')
    BY <1>6, HarmStays DEF NewRun, MayInsert, BkFault
  <2>2. Attended(r)'
    BY <1>3 DEF Attended
  <2>. QED
    BY <1>1, <1>3, <1>4, <1>6, <2>1, <2>2, NewRunKeeps
<1>. QED
  BY <1>5, <1>6 DEF SchedInsert, bkFlt

LEMMA SchedEnqueueKeeps == ASSUME BkInv, NEW s \in Schedulers, SchedEnqueue(s) PROVE BkInv'
<1>0. PICK r \in BkRuns : r = bkSched[s].run
  BY DEF SchedEnqueue, BkInv, BkAttends
<1> DEFINE rec == [bkSched[s] EXCEPT !.at = "retain"]
<1>1. /\ bkSched[s].at = "enqueue" /\ UNCHANGED <<bkPlan, bkArchive, bkTarget, bkMinute>> /\ bkHarm \subseteq bkHarm'
      /\ bkSched' = [bkSched EXCEPT ![s].at = "retain"] /\ bkSched \in [Schedulers -> SchedRecs] /\ bkSched[s] \in SchedRecs
  BY BkTypes, HarmStays DEF SchedEnqueue, SchedAt
<1>2. r \in BkRuns /\ bkRun[r].state # "absent" /\ BkRow(r)
  BY <1>0, <1>1 DEF BkInv, BkAttends
<1>3. rec \in SchedRecs /\ rec.at = "retain" /\ bkSched' = [bkSched EXCEPT ![s] = rec]
  BY <1>1 DEF SchedRecs
<1>4. CASE bkJob[RunJob(r)].state = "none" /\ bkJob' = BkQueued("run", r) /\ bkRun' = bkRun /\ bkHarm' = bkHarm
  <2>1. /\ bkJob' \in [BkJobIds -> BkJobRecs] /\ BkWorkers' /\ bkJob'[RunJob(r)].at = "idle" /\ bkJob'[RunJob(r)].state = "queued"
        /\ \A j \in BkJobIds : j # RunJob(r) => bkJob'[j] = bkJob[j]
    BY <1>2, <1>4, BkQueues DEF RunJob, BkKinds
  <2> HIDE DEF rec
  <2>2. bkSched' \in [Schedulers -> SchedRecs] /\ bkSched'[s].at = "retain" /\ \A t \in Schedulers : t # s => bkSched'[t] = bkSched[t]
    BY <1>1, <1>3
  <2>3. BkTypeOK'
    BY <1>1, <1>4, <2>1, <2>2, BkTypes, BkTypesAfter
  <2>4. BkJobOpen(r)' /\ (RowActive(r)' <=> RowActive(r))
    BY <1>4, <2>1 DEF BkJobOpen, RunJob, RowActive
  <2>5. "crash" \notin bkHarm' => BkStored(r)'
    BY <1>1, <1>2, <1>4, <2>1 DEF BkRow, BkStored, RunJob
  <2>6. "not queued" \notin bkHarm => RowActive(r)
    BY <1>2, <1>4 DEF BkRow, RowActive
  <2>7. BkRow(r)'
    BY <1>2, <1>4, <2>1, <2>4, <2>5, <2>6 DEF BkRow, RunJob
  <2>8. \A q \in BkRuns : q # r => bkJob'[RunJob(q)] = bkJob[RunJob(q)]
    BY <2>1, BkShapes
  <2>9. bkSched[s].run = r
    BY <1>0
  <2>. QED
    BY <1>1, <1>2, <1>4, <2>1, <2>2, <2>3, <2>4, <2>7, <2>8, <2>9, BkRunStepKeeps
<1>5. CASE /\ bkJob' = bkJob /\ bkRun' = RunFailed(bkRun, r)
           /\ \/ bkJob[RunJob(r)].state # "none" /\ (bkRun' = bkRun \/ "raced" \in bkHarm')
              \/ bkJob[RunJob(r)].state = "none" /\ "not queued" \in bkHarm'
  <2> HIDE DEF rec
  <2>1. /\ bkRun' \in [BkRuns -> RowRecs] /\ bkRun'[r].verif = bkRun[r].verif /\ bkRun'[r].sum = bkRun[r].sum
        /\ bkRun'[r].state = IF RowActive(r) THEN "failed" ELSE bkRun[r].state
        /\ \A q \in BkRuns : q # r => bkRun'[q] = bkRun[q]
    BY <1>2, <1>5, RowFails
  <2>2. bkSched' \in [Schedulers -> SchedRecs] /\ bkSched'[s].at = "retain" /\ \A t \in Schedulers : t # s => bkSched'[t] = bkSched[t]
    BY <1>1, <1>3
  <2>3. BkTypeOK' /\ BkWorkers'
    BY <1>1, <1>5, <2>1, <2>2, BkTypes, BkTypesAfter DEF BkInv, BkWorkers
  <2>4. ~RowActive(r)' /\ (BkJobOpen(r)' <=> BkJobOpen(r)) /\ (bkRun' = bkRun => ~RowActive(r))
    BY <1>5, <2>1 DEF BkJobOpen, RunJob, RowActive
  <2>5. "crash" \notin bkHarm' => BkStored(r)'
    BY <1>1, <1>2, <1>5, <2>1 DEF BkRow, BkStored, RunJob, RowActive
  <2>6. bkHarm' \cap {"raced", "crash", "not queued"} = {} => ~BkJobOpen(r)'
    BY <1>1, <1>2, <1>5, <2>4 DEF BkRow
  <2>7. BkRow(r)'
    BY <1>1, <1>2, <1>5, <2>1, <2>4, <2>5, <2>6 DEF BkRow, RunJob, RowActive
  <2>8. bkSched[s].run = r
    BY <1>0
  <2>. QED
    BY ZenonT(60), <1>1, <1>2, <1>5, <2>1, <2>2, <2>3, <2>4, <2>7, <2>8, BkRunStepKeeps DEF RowActive
<1>. QED
  BY <1>0, <1>4, <1>5 DEF SchedEnqueue, Unqueued, RunJob, bkFlt, BkFault

-----------------------------------------------------------------------------

LEMMA BkInvHolds == BkSpec => []BkInv
<1>1. ASSUME BkInv, [BkNext]_bkVars PROVE BkInv'
  <2>1. CASE UNCHANGED bkVars
    <3>1. UNCHANGED <<bkRun, bkJob, bkArchive, bkTarget, bkSched, bkPlan, bkMinute, bkHarm>>
      BY <2>1 DEF bkVars
    <3>. QED
      BY <1>1, <3>1, BkTypes, PlanStepKeeps
  <2>2. CASE \E r \in BkRuns :
        \/ TriggerRun(r) \/ (\E k \in BkKinds : RequestOnRun(k, r))
        \/ ArchiveStep(r) \/ CompleteStep(r)
        \/ VerifyStep(r) \/ RestoreStep(r) \/ DeleteStep(r)
    BY <1>1, <2>2, TriggerRunKeeps, RequestOnRunKeeps, ArchiveStepKeeps, CompleteStepKeeps, VerifyStepKeeps, RestoreStepKeeps, DeleteStepKeeps
  <2>3. CASE \E j \in BkKinds \X BkRuns : StartBkJob(j) \/ BkWorkerDies(j)
    BY <1>1, <2>3, StartBkJobKeeps, BkWorkerDiesKeeps DEF BkJobIds
  <2>4. CASE \E s \in Schedulers :
        \/ SchedList(s) \/ (\E r \in BkRuns : SchedInsert(s, r)) \/ SchedEnqueue(s)
        \/ SchedRetain(s) \/ SchedDies(s)
    BY <1>1, <2>4, SchedListKeeps, SchedInsertKeeps, SchedEnqueueKeeps, SchedRetainKeeps, SchedDiesKeeps
  <2>. QED
    BY <1>1, <2>1, <2>2, <2>3, <2>4, PatchPlanKeeps, DeletePlanKeeps, FinalizePlanKeeps, BkTickKeeps DEF BkNext
<1>. QED
  BY <1>1, BkStarts, PTL DEF BkSpec

\* Rows of which no two are active are at most one.
LEMMA AtMostOneActive ==
  ASSUME \A q, r \in BkRuns : RowActive(q) /\ RowActive(r) => q = r
  PROVE  Cardinality(BkActive) <= 1
<1>1. BkActive = {r \in BkRuns : RowActive(r)}
  BY DEF BkActive, RowActive
<1>2. CASE BkActive = {}
  BY <1>2, FS_EmptySet
<1>3. CASE BkActive # {}
  <2>1. PICK r \in BkRuns : BkActive = {r}
    BY <1>1, <1>3
  <2>. QED
    BY <2>1, FS_Singleton
<1>. QED
  BY <1>2, <1>3

LEMMA BkInvSound == ASSUME BkInv PROVE RunsAreSound /\ ArchivesAreSound
<1>1. \A r \in BkRuns : BkRow(r)
  BY DEF BkInv
<1>2. ActiveRunIsWorkedOn
  BY <1>1 DEF ActiveRunIsWorkedOn, BkActive, BkRow, RowActive, Attended
<1>3. OneActiveRun
  <2>1. SUFFICES ASSUME bkHarm \cap {"raced", "crash", "not queued"} = {}
                 PROVE  Cardinality(BkActive) <= 1 /\ \A r \in BkRuns : BkJobOpen(r) => r \in BkActive
    BY DEF OneActiveRun
  <2>2. \A q, r \in BkRuns : RowActive(q) /\ RowActive(r) => q = r
    BY <2>1 DEF BkInv, OneRowActive
  <2>3. \A r \in BkRuns : BkJobOpen(r) => RowActive(r)
    BY <1>1, <2>1 DEF BkRow
  <2>. QED
    BY <2>2, <2>3, AtMostOneActive DEF BkActive, RowActive
<1>4. CompletedMatchesStored
  BY <1>1 DEF CompletedMatchesStored, BkRow, BkStored
<1>. QED
  BY <1>2, <1>3, <1>4 DEF RunsAreSound, ArchivesAreSound, BkInv

\* One run of a plan at a time, and each of them worked on (backups_scheduler.go, backups.go):
\* what the check of CreateRun and the two writes of a trigger promise as long as no controller
\* dies between them and no run comes in between check and insert.
THEOREM RunsCorrect == BkSpec => []RunsAreSound
<1>1. BkInv => RunsAreSound
  BY BkInvSound
<1>. QED
  BY <1>1, BkInvHolds, PTL

\* What a completed run recorded is what was stored, unless its job ran twice, and retention
\* leaves the newest runs alone (backups_worker.go, backups_scheduler.go enforceRetention).
THEOREM ArchivesCorrect == BkSpec => []ArchivesAreSound
<1>1. BkInv => ArchivesAreSound
  BY BkInvSound
<1>. QED
  BY <1>1, BkInvHolds, PTL
=============================================================================
