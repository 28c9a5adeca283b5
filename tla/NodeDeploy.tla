----------------------------- MODULE NodeDeploy -----------------------------
(***************************************************************************)
(* The app.deploy operation as the node agent executes it:                 *)
(* internal/nodeagent/deploy.go, reached through the operation handler of  *)
(* internal/nodeagent/server.go.                                           *)
(*                                                                         *)
(* One application on one node.  An operation is a number: operations are  *)
(* numbered in the order they start, which is the order of the Unix        *)
(* nanosecond prefixes of their release directories, so an operation also  *)
(* names its release directory and the unit file that runs it.             *)
(*                                                                         *)
(* The controller holds the app's lock while it waits for the answer.  It  *)
(* stops waiting when its own timeout fires, and the agent sees that as a  *)
(* canceled request context; the operation then still runs to its end.     *)
(***************************************************************************)
EXTENDS Naturals, FiniteSets

CONSTANTS
    MaxOps,     \* bound: number of app.deploy operations
    Keep,       \* releases kept by pruneReleases
    Serial,     \* TRUE: a canceled operation has ended before the next one starts
    MaxFaults,  \* bound: file operations and systemctl commands that fail
    MaxCancels, \* bound: request contexts canceled, by timeout or disconnect
    MaxCrashes  \* bound: restarts of the agent

ASSUME OpsAssumption == MaxOps \in Nat
ASSUME KeepAssumption == Keep \in Nat \ {0}
ASSUME SerialAssumption == Serial \in BOOLEAN
ASSUME BoundsAssumption == MaxFaults \in Nat /\ MaxCancels \in Nat /\ MaxCrashes \in Nat

Ops == 1..MaxOps
None == 0

VARIABLES
    static,   \* runtime_type = "static": no unit, no restart, no health check
    dirs,     \* release directories on disk
    current,  \* target of the current symlink, or None
    unit,     \* release named by the unit file, None when there is no file
    backup,   \* the same for the .jawaker-bak copy
    loaded,   \* release named by the unit definition systemd has loaded
    running,  \* release of the service's process, None when it is stopped
    pc,       \* pc[o]: where operation o is
    prev,     \* prev[o]: prevTarget, the symlink target o found
    rolled,   \* rolled[o]: rolledBack
    reply,    \* reply[o]: what o answered
    gone,     \* operations whose request context is canceled
    faults, crashes

vars == <<static, dirs, current, unit, backup, loaded, running, pc, prev, rolled, reply,
          gone, faults, crashes>>

Stages == {"idle", "fetch", "build", "backup", "unit", "reload", "switch",
           "restart", "health", "relink", "reunit", "reservice", "prune", "done"}
Replies == {"none", "error", "build_failed", "unhealthy", "rolled_back", "deployed"}

InFlight(o) == pc[o] \notin {"idle", "done"}

Fault == /\ faults < MaxFaults
         /\ faults' = faults + 1
         /\ UNCHANGED <<gone, crashes>>

NoFault == UNCHANGED <<gone, faults, crashes>>

Goto(o, s) == /\ pc' = [pc EXCEPT ![o] = s]
              /\ UNCHANGED reply

Return(o, r) == /\ pc' = [pc EXCEPT ![o] = "done"]
                /\ reply' = [reply EXCEPT ![o] = r]

\* An early return: the deferred cleanup removes the new release directory.
Abandon(o, r) == /\ Return(o, r)
                 /\ dirs' = dirs \ {o}

Init ==
    /\ static \in BOOLEAN
    /\ dirs = {}
    /\ current = None /\ unit = None /\ backup = None
    /\ loaded = None /\ running = None
    /\ pc = [o \in Ops |-> "idle"]
    /\ prev = [o \in Ops |-> None]
    /\ rolled = [o \in Ops |-> FALSE]
    /\ reply = [o \in Ops |-> "none"]
    /\ gone = {} /\ faults = 0 /\ crashes = 0

\* handleOperation admits the call: validation, host checks and the new release
\* directory.  The controller has given up on every call still in flight.
Start(o) ==
    /\ pc[o] = "idle"
    /\ \A p \in Ops : p < o => pc[p] # "idle"
    /\ \A p \in Ops : InFlight(p) => p \in gone /\ ~Serial
    /\ \/ Goto(o, "fetch") /\ dirs' = dirs \cup {o}
       \/ Return(o, "error") /\ UNCHANGED dirs
    /\ UNCHANGED <<static, current, unit, backup, loaded, running, prev, rolled, gone,
                   faults, crashes>>

\* gitFetch: a canceled context kills the command.
GitFetch(o) ==
    /\ pc[o] = "fetch"
    /\ \/ o \notin gone /\ Goto(o, "build") /\ UNCHANGED dirs
       \/ Abandon(o, "error")
    /\ UNCHANGED <<static, current, unit, backup, loaded, running, prev, rolled, gone,
                   faults, crashes>>

\* runBuild, when there is a build program, then the .env file.  Only a build
\* notices a canceled context.
Build(o) ==
    /\ pc[o] = "build"
    /\ \/ /\ Goto(o, IF static THEN "switch" ELSE "backup")
          /\ UNCHANGED <<dirs, faults, gone, crashes>>
       \/ Abandon(o, "build_failed") /\ NoFault
       \/ Abandon(o, "error") /\ Fault
    /\ UNCHANGED <<static, current, unit, backup, loaded, running, prev, rolled>>

\* An existing unit file is moved aside; an error of the rename is ignored.
BackupUnit(o) ==
    /\ pc[o] = "backup"
    /\ \/ unit # None /\ backup' = unit /\ unit' = None /\ NoFault
       \/ unit = None /\ UNCHANGED <<backup, unit>> /\ NoFault
       \/ unit # None /\ UNCHANGED <<backup, unit>> /\ Fault
    /\ Goto(o, "unit")
    /\ UNCHANGED <<static, dirs, current, loaded, running, prev, rolled>>

\* Mutant of PutBack: the backup is not renamed back.
LeaveBackup(u) == unit' = u /\ UNCHANGED backup

\* os.Rename(unitBackupPath, unitPath), which fails when there is no backup and,
\* here, only then.
PutBack(u) == IF backup = None THEN unit' = u /\ UNCHANGED backup
                               ELSE unit' = backup /\ backup' = None

\* writeFileAtomic of the new unit; on error the backup is renamed back.
WriteUnit(o) ==
    /\ pc[o] = "unit"
    /\ \/ /\ unit' = o
          /\ Goto(o, "reload")
          /\ UNCHANGED <<dirs, backup, faults, gone, crashes>>
       \/ PutBack(unit) /\ Abandon(o, "error") /\ Fault
    /\ UNCHANGED <<static, current, loaded, running, prev, rolled>>

\* systemctl daemon-reload; on error the new unit is removed and the backup
\* renamed back.
Reload(o) ==
    /\ pc[o] = "reload"
    /\ \/ /\ o \notin gone
          /\ loaded' = unit
          /\ Goto(o, "switch")
          /\ UNCHANGED <<dirs, unit, backup, faults, gone, crashes>>
       \/ /\ (o \in gone /\ NoFault) \/ Fault
          /\ PutBack(None) /\ Abandon(o, "error")
          /\ UNCHANGED loaded
    /\ UNCHANGED <<static, current, running, prev, rolled>>

\* The atomic symlink switch.  On error nothing but the directory is undone.
SwitchSymlink(o) ==
    /\ pc[o] = "switch"
    /\ \/ /\ prev' = [prev EXCEPT ![o] = current]
          /\ current' = o
          /\ Goto(o, IF static THEN "prune" ELSE "restart")
          /\ UNCHANGED <<dirs, faults, gone, crashes>>
       \/ Abandon(o, "error") /\ Fault /\ UNCHANGED <<prev, current>>
    /\ UNCHANGED <<static, unit, backup, loaded, running, rolled>>

\* systemd starts a unit only when its working directory exists.
Started(u) == IF u \in dirs THEN u ELSE None

\* systemctl restart.  A canceled context stops the command, before or after
\* systemd has taken the request.
Restart(o) ==
    /\ pc[o] = "restart"
    /\ \/ o \notin gone /\ running' = Started(loaded) /\ Goto(o, "health")
       \/ o \notin gone /\ running' = None /\ Goto(o, "relink")
       \/ o \in gone /\ running' \in {running, Started(loaded)} /\ Goto(o, "relink")
    /\ UNCHANGED <<static, dirs, current, unit, backup, loaded, prev, rolled, gone, faults, crashes>>

\* checkAppHealth: the unit is active and the HTTP probe answers.
CheckAppHealth(o) ==
    /\ pc[o] = "health"
    /\ \/ o \notin gone /\ running # None /\ Goto(o, "prune")
       \/ Goto(o, "relink")
    /\ UNCHANGED <<static, dirs, current, unit, backup, loaded, running, prev, rolled, gone,
                   faults, crashes>>

\* The rollback, first part: the symlink.  Without a previous release it is
\* removed and the service is stopped.
RestoreLink(o) ==
    /\ pc[o] = "relink"
    /\ \/ /\ prev[o] # None
          /\ \/ /\ current' = prev[o]
                /\ rolled' = [rolled EXCEPT ![o] = TRUE]
                /\ NoFault
             \/ Fault /\ UNCHANGED <<current, rolled>>
          /\ Goto(o, "reunit")
          /\ UNCHANGED running
       \/ /\ prev[o] = None
          /\ current' = None
          /\ running' = IF o \in gone THEN running ELSE None
          /\ Return(o, "unhealthy")
          /\ UNCHANGED <<rolled, faults, gone, crashes>>
    /\ UNCHANGED <<static, dirs, unit, backup, loaded, prev>>

\* The answer of a rollback.
RollbackReply(o) == Return(o, IF rolled[o] THEN "rolled_back" ELSE "unhealthy")

\* Mutant of RestoreUnit: the old unit stays in the backup.
RestoreNothing(o) == /\ pc[o] = "reunit" /\ RollbackReply(o)
                     /\ UNCHANGED <<static, dirs, current, unit, backup, loaded, running, prev,
                                    rolled, gone, faults, crashes>>

\* Second part: the old unit file, if a backup of it exists.
RestoreUnit(o) ==
    /\ pc[o] = "reunit"
    /\ \/ backup = None /\ RollbackReply(o) /\ UNCHANGED <<unit, backup>> /\ NoFault
       \/ /\ backup # None /\ Goto(o, "reservice")
          /\ \/ unit' = backup /\ backup' = None /\ NoFault
             \/ UNCHANGED <<unit, backup>> /\ Fault
    /\ UNCHANGED <<static, dirs, current, loaded, running, prev, rolled>>

\* Third part: daemon-reload and restart, both with their errors ignored and
\* both refused by a canceled context.
RestoreService(o) ==
    /\ pc[o] = "reservice"
    /\ \/ /\ o \notin gone
          /\ loaded' = unit /\ running' = Started(unit)
          /\ NoFault
       \/ /\ o \in gone
          /\ UNCHANGED <<loaded, running, faults, gone, crashes>>
       \/ /\ o \notin gone /\ Fault
          /\ \/ loaded' = unit /\ running' = None
             \/ UNCHANGED loaded /\ running' = Started(loaded)
    /\ RollbackReply(o)
    /\ UNCHANGED <<static, dirs, current, unit, backup, prev, rolled>>

\* The Keep most recent directories.
Newest(S) == {o \in S : Cardinality({p \in S : p > o}) < Keep}

\* Full success: the unit backup goes, and pruneReleases runs.
PruneReleases(o) ==
    /\ pc[o] = "prune"
    /\ backup' = None
    /\ dirs' = Newest(dirs)
    /\ Return(o, "deployed")
    /\ UNCHANGED <<static, current, unit, loaded, running, prev, rolled, gone, faults, crashes>>

\* The controller stops waiting, the connection breaks, or the operation's own
\* deadline passes.
ContextDone(o) ==
    /\ InFlight(o) /\ o \notin gone
    /\ Cardinality(gone) < MaxCancels
    /\ gone' = gone \cup {o}
    /\ UNCHANGED <<static, dirs, current, unit, backup, loaded, running, pc, prev, rolled,
                   reply, faults, crashes>>

\* The agent dies and is restarted: the files and the service stay as they are.
AgentCrash ==
    /\ \E o \in Ops : InFlight(o)
    /\ crashes < MaxCrashes
    /\ crashes' = crashes + 1
    /\ pc' = [o \in Ops |-> IF InFlight(o) THEN "done" ELSE pc[o]]
    /\ UNCHANGED <<static, dirs, current, unit, backup, loaded, running, prev, rolled, reply,
                   gone, faults>>

Step(o) ==
    \/ GitFetch(o) \/ Build(o) \/ BackupUnit(o) \/ WriteUnit(o) \/ Reload(o)
    \/ SwitchSymlink(o) \/ Restart(o) \/ CheckAppHealth(o)
    \/ RestoreLink(o) \/ RestoreUnit(o) \/ RestoreService(o) \/ PruneReleases(o)

\* No more operations: the state the last one left.
AllDone == (\A o \in Ops : pc[o] = "done") /\ UNCHANGED vars

Next == (\E o \in Ops : Start(o) \/ Step(o) \/ ContextDone(o)) \/ AgentCrash \/ AllDone

Spec == Init /\ [][Next]_vars

-----------------------------------------------------------------------------
(* Properties *)

\* Every file, service and operation variable has its type.
TypeOK ==
    /\ static \in BOOLEAN /\ dirs \subseteq Ops /\ gone \subseteq Ops
    /\ current \in Ops \cup {None} /\ unit \in Ops \cup {None}
    /\ backup \in Ops \cup {None}
    /\ loaded \in Ops \cup {None} /\ running \in Ops \cup {None}
    /\ pc \in [Ops -> Stages]
    /\ prev \in [Ops -> Ops \cup {None}]
    /\ rolled \in [Ops -> BOOLEAN]
    /\ reply \in [Ops -> Replies]
    /\ faults \in 0..MaxFaults /\ crashes \in 0..MaxCrashes

\* No operation is in flight, and o was the last one.
Last(o) == pc[o] = "done" /\ \A p \in Ops : p > o => pc[p] = "idle"
Quiet == \A o \in Ops : ~InFlight(o)

\* The current symlink never dangles: neither an abandoned release, nor a
\* rollback, nor pruning removes the directory it points to.
CurrentResolves == current # None => current \in dirs

\* Nor does the release that the service runs from leave the disk.
ServedDirExists == running # None => running \in dirs

\* A deployed answer is true: the release is current, its unit is the one on
\* disk and in systemd, and the service runs it.
DeployedServes ==
    \A o \in Ops : reply[o] = "deployed" /\ Last(o) /\ Quiet =>
        /\ current = o /\ o \in dirs
        /\ ~static => unit = o /\ loaded = o /\ running = o

\* A rolled-back answer is true: the previous release is current again and the
\* service runs it.  The protocol says so of every rollback, and it is false of
\* one that runs under a canceled request (README, disagreements without a run).
RollbackRestores ==
    \A o \in Ops : reply[o] = "rolled_back" /\ Last(o) /\ Quiet =>
        current = prev[o] /\ running = prev[o]

\* It is true when the rollback's own commands are not refused with the request
\* and nothing else has failed before.
UndisturbedRollback ==
    \A o \in Ops :
        /\ reply[o] = "rolled_back" /\ Last(o) /\ Quiet
        /\ o \notin gone /\ faults = 0 /\ crashes = 0
        => current = prev[o] /\ running = prev[o]

\* Whatever is canceled, the unit file on disk is the current release's: the
\* error paths and the rollback put back what they moved.
UnitMatchesCurrent ==
    Quiet /\ ~static /\ faults = 0 /\ crashes = 0 /\ current # None => unit = current

\* The files of an application are sound (deploy.go:138-271): the symlink and the
\* service have their directory, and the unit is the current release's.
FilesAreSound == TypeOK /\ CurrentResolves /\ ServedDirExists /\ UnitMatchesCurrent

\* The answers to the controller are true (deploy.go:194-271).
AnswersAreTrue == DeployedServes /\ UndisturbedRollback

\* Once an operation has answered deployed, only a later one moves the symlink:
\* false when operations overlap (README, disagreements without a run).
DeployedStays ==
    [][\A o \in Ops : reply[o] = "deployed" /\ current = o => current' >= o]_vars
=============================================================================
