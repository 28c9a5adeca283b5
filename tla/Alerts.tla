------------------------------- MODULE Alerts -------------------------------
(***************************************************************************)
(* The observability evaluator (observe/evaluator.go) over its store       *)
(* (observe/observe.go) and the handlers that edit the same rows            *)
(* (controller/observe.go): one alert rule, the samples of its metric, its  *)
(* incidents, and one report schedule.  A tick of the evaluator is a list   *)
(* of statements that commit one by one, so handlers, failures and a        *)
(* restart fall between any two of them.  A sample's value, and the rule's  *)
(* threshold, are 0 or 1; times are whole periods of the evaluator.         *)
(***************************************************************************)
EXTENDS Integers, FiniteSets

CONSTANTS AlTimes,       \* the clock runs over 0 .. AlTimes
          AlIncidents,   \* incident ids, in order of creation
          AlDuration,    \* the rule's duration_seconds, in periods
          AlMaxRows,     \* EvaluatorConfig.RetentionMaxRows
          AlCutoff,      \* EvaluatorConfig.RetentionCutoff, in periods
          AlCadence,     \* the schedule's cadence, in periods
          MaxAlEdits,    \* edits of rule, incidents and schedule by handlers
          MaxAlFaults    \* statements that fail, and restarts

ASSUME AlertAssumption == AlCadence \in Nat

VARIABLES alNow,         \* the clock
          alRule,        \* alert_rules
          metricSamples, \* metric_samples
          alIncidents,   \* alert_incidents
          alNotices,     \* history: what notify.Publish was asked for
          alEval,        \* the evaluator: its statement and what it has read
          alSchedule,    \* report_schedules
          alEdits, alFaults

alertVars == <<alNow, alRule, metricSamples, alIncidents, alNotices, alEval, alSchedule,
               alEdits, alFaults>>
rowVars == <<alRule, metricSamples, alIncidents, alSchedule, alNow>>

NoRule == [state |-> "none", enabled |-> FALSE, threshold |-> 0]
NoIncident == [state |-> "none", notified |-> FALSE]
EvalIdle == [at |-> "idle", now |-> 0, threshold |-> 0, inc |-> 0]

\* Every table is empty.
AlertInit ==
    /\ alNow = 0
    /\ alRule = NoRule
    /\ metricSamples = {}
    /\ alIncidents = [i \in AlIncidents |-> NoIncident]
    /\ alNotices = [alerts |-> [i \in AlIncidents |-> 0], recoveries |-> [i \in AlIncidents |-> 0],
                    reports |-> <<-1, -1>>]   \* the last two reports, oldest first
    /\ alEval = EvalIdle
    /\ alSchedule = [state |-> "none", next |-> 0]
    /\ alEdits = 0 /\ alFaults = 0

AlFault == alFaults < MaxAlFaults /\ alFaults' = alFaults + 1
AlEdit == alEdits < MaxAlEdits /\ alEdits' = alEdits + 1

\* The evaluator goes on with its next statement.
EvalGoes(here, there) == alEval.at = here /\ alEval' = [alEval EXCEPT !.at = there]

AlOpen == {i \in AlIncidents : alIncidents[i].state = "open"}
---------------------------------------------------------------------------
(* The rows others write.                                                  *)

AlClock == alNow < AlTimes /\ alNow' = alNow + 1
           /\ UNCHANGED <<alRule, metricSamples, alIncidents, alNotices, alEval, alSchedule,
                          alEdits, alFaults>>

\* RecordSamples: one observation of the metric, stamped by its sender.
RecordSamples ==
    /\ \A s \in metricSamples : s.at # alNow
    /\ \E v \in {0, 1} : metricSamples' = metricSamples \cup {[at |-> alNow, value |-> v]}
    /\ UNCHANGED <<alNow, alRule, alIncidents, alNotices, alEval, alSchedule, alEdits, alFaults>>

\* Store.CreateRule: a valid rule is enabled and active.
InsertRule(t) == alRule' = [NoRule EXCEPT !.state = "live", !.enabled = TRUE, !.threshold = t]

CreateRule ==
    /\ alRule.state = "none"
    /\ InsertRule(0)   \* edits raise the threshold to 1
    /\ UNCHANGED <<alNow, metricSamples, alIncidents, alNotices, alEval, alSchedule, alEdits, alFaults>>

\* Store.UpdateRule: what the request names is overwritten, the rest is kept; an
\* enabled rule that is suspended counts as disabled here.
PatchRule(e, t) == alRule' = [alRule EXCEPT !.enabled = e, !.threshold = t]

UpdateRule ==
    /\ AlEdit /\ alRule.state = "live"
    /\ \E e \in BOOLEAN, t \in {0, 1} : PatchRule(e, t)
    /\ UNCHANGED <<alNow, metricSamples, alIncidents, alNotices, alEval, alSchedule, alFaults>>

\* Store.DeleteRule: the rule, and by cascade its incidents.
RemoveRule ==
    /\ alRule' = [alRule EXCEPT !.state = "gone"]
    /\ alIncidents' = [i \in AlIncidents |->
           IF alIncidents[i].state = "none" THEN NoIncident ELSE [alIncidents[i] EXCEPT !.state = "gone"]]

DeleteRule ==
    /\ AlEdit /\ alRule.state = "live"
    /\ RemoveRule
    /\ UNCHANGED <<alNow, metricSamples, alNotices, alEval, alSchedule, alFaults>>

\* Store.ResolveIncident closes an open incident and no other.
CloseIncident(i) ==
    /\ alIncidents[i].state = "open"
    /\ alIncidents' = [alIncidents EXCEPT ![i].state = "resolved"]

\* handleResolveIncident: an operator closes an incident; nobody is told.
ResolveIncident(i) ==
    /\ AlEdit /\ CloseIncident(i)
    /\ UNCHANGED <<alNow, alRule, metricSamples, alNotices, alEval, alSchedule, alFaults>>

\* Store.CreateSchedule; handleCreateSchedule makes it due at once.
InsertSchedule(first) == alSchedule' = [state |-> "live", next |-> first]

CreateSchedule ==
    /\ alSchedule.state = "none"
    /\ InsertSchedule(alNow)
    /\ UNCHANGED <<alNow, alRule, metricSamples, alIncidents, alNotices, alEval, alEdits, alFaults>>

\* Store.DeleteSchedule
RemoveSchedule == alSchedule' = [alSchedule EXCEPT !.state = "gone"]

DeleteSchedule ==
    /\ AlEdit /\ alSchedule.state = "live"
    /\ RemoveSchedule
    /\ UNCHANGED <<alNow, alRule, metricSamples, alIncidents, alNotices, alEval, alFaults>>
---------------------------------------------------------------------------
(* One tick: evaluateRules.                                                *)

\* Store.EnabledRules selects it.
EnabledRule == alRule.state = "live" /\ alRule.enabled

\* The tick takes its time and the rule as it is now.
TickStarts ==
    /\ alEval.at = "idle"
    /\ alEval' = [at |-> IF EnabledRule THEN "samples" ELSE "prune", now |-> alNow,
                  threshold |-> alRule.threshold, inc |-> 0]
    /\ UNCHANGED <<rowVars, alNotices, alEdits, alFaults>>

\* The samples of the window, and whether every one of them exceeds the threshold.
InWindow == {s \in metricSamples : s.at >= alEval.now - AlDuration}
AllSatisfy == \A s \in InWindow : s.value > alEval.threshold

\* evalRule: no sample decides nothing; else the condition holds or it has ended.
ReadSamples ==
    /\ EvalGoes("samples", CASE InWindow = {} -> "prune"
                             [] InWindow # {} /\ AllSatisfy -> "open"
                             [] OTHER -> "resolve")
    /\ UNCHANGED <<rowVars, alNotices, alEdits, alFaults>>

\* handleFiring: only an incident just opened, or not yet marked, is told; the mutant
\* tells it on every tick.
TellsAlways(created, notified) == TRUE
Tells(created, notified) == created \/ ~notified

\* OpenIncident: the insert, which does nothing when an incident is open, and fails
\* with the rule gone.
InsertIncident ==
    /\ alEval.at = "open"
    /\ IF AlOpen # {}
       THEN /\ alEval' = [alEval EXCEPT !.at = "reread"]
            /\ UNCHANGED alIncidents
       ELSE IF alRule.state # "live"
       THEN /\ alEval' = [alEval EXCEPT !.at = "prune"]
            /\ UNCHANGED alIncidents
       ELSE \E i \in AlIncidents :
            /\ alIncidents[i].state = "none" /\ \A k \in AlIncidents : k < i => alIncidents[k].state # "none"
            /\ alIncidents' = [alIncidents EXCEPT ![i].state = "open"]
            /\ alEval' = [alEval EXCEPT !.at = "publish", !.inc = i]
    /\ UNCHANGED <<alNow, alRule, metricSamples, alSchedule, alNotices, alEdits, alFaults>>

\* GetOpenIncident after a conflict: the winner, unless it has been closed meanwhile.
RereadIncident ==
    /\ alEval.at = "reread"
    /\ IF AlOpen = {} THEN alEval' = [alEval EXCEPT !.at = "prune"]
       ELSE \E i \in AlOpen :
            alEval' = [alEval EXCEPT !.at = IF Tells(FALSE, alIncidents[i].notified) THEN "publish" ELSE "prune",
                                     !.inc = i]
    /\ UNCHANGED <<rowVars, alNotices, alEdits, alFaults>>

\* publishAlert: the notification is asked for; that it failed is only logged.
PublishAlert ==
    /\ EvalGoes("publish", "mark")
    /\ alNotices' = [alNotices EXCEPT !.alerts[alEval.inc] = @ + 1]
    /\ UNCHANGED <<rowVars, alEdits, alFaults>>

\* MarkIncidentNotified: the row by its id, whatever its state.
MarkIncidentNotified ==
    /\ EvalGoes("mark", "prune")
    /\ alIncidents' = [alIncidents EXCEPT ![alEval.inc].notified = TRUE]
    /\ UNCHANGED <<alNow, alRule, metricSamples, alSchedule, alNotices, alEdits, alFaults>>

\* ResolveOpenByDedup, which names the incident it closed, if any.
ResolveOpen ==
    /\ alEval.at = "resolve"
    /\ IF AlOpen = {} THEN alEval' = [alEval EXCEPT !.at = "prune"] /\ UNCHANGED alIncidents
       ELSE \E i \in AlOpen :
            /\ alIncidents' = [alIncidents EXCEPT ![i].state = "resolved"]
            /\ alEval' = [alEval EXCEPT !.at = "recovered", !.inc = i]
    /\ UNCHANGED <<alNow, alRule, metricSamples, alSchedule, alNotices, alEdits, alFaults>>

\* publishRecovery
PublishRecovery ==
    /\ EvalGoes("recovered", "prune")
    /\ alNotices' = [alNotices EXCEPT !.recoveries[alEval.inc] = @ + 1]
    /\ UNCHANGED <<rowVars, alEdits, alFaults>>
---------------------------------------------------------------------------
(* The rest of the tick: pruneOldSamples and runDueSchedules.              *)

\* The first DELETE of PruneSamples: what is older than the cutoff.
PruneByAge ==
    /\ EvalGoes("prune", "overflow")
    /\ metricSamples' = {s \in metricSamples : s.at >= alEval.now - AlCutoff}
    /\ UNCHANGED <<alNow, alRule, alIncidents, alSchedule, alNotices, alEdits, alFaults>>

\* The rows of the second DELETE: ORDER BY observed_at ASC OFFSET AlMaxRows skips the
\* AlMaxRows oldest and takes the others, the newest, though its comment says that the
\* oldest go.
Overflow == {s \in metricSamples : Cardinality({o \in metricSamples : o.at < s.at}) >= AlMaxRows}

PruneByCount ==
    /\ EvalGoes("overflow", "due")
    /\ metricSamples' = metricSamples \ Overflow
    /\ UNCHANGED <<alNow, alRule, alIncidents, alSchedule, alNotices, alEdits, alFaults>>

\* DueSchedules: a schedule whose next_run_at has passed.
DueSchedules ==
    /\ EvalGoes("due", IF alSchedule.state = "live" /\ alSchedule.next <= alEval.now THEN "report" ELSE "idle")
    /\ UNCHANGED <<rowVars, alNotices, alEdits, alFaults>>

\* runSchedule: the open incidents are counted and the summary is published.
PublishReport ==
    /\ EvalGoes("report", "advance")
    /\ alNotices' = [alNotices EXCEPT !.reports = <<@[2], alEval.now>>]
    /\ UNCHANGED <<rowVars, alEdits, alFaults>>

NextRun(due, now) == now + AlCadence

AdvanceSchedule ==
    /\ EvalGoes("advance", "idle")
    /\ alSchedule' = [alSchedule EXCEPT !.next = IF alSchedule.state = "live" THEN NextRun(@, alEval.now) ELSE @]
    /\ UNCHANGED <<alNow, alRule, metricSamples, alIncidents, alNotices, alEdits, alFaults>>

\* A failed statement is logged.  A publish that failed goes on to the mark, or to
\* the advance, all the same; any other failure ends this part of the tick.
StatementFails ==
    /\ AlFault
    /\ alEval.at \in {"idle", "samples", "open", "reread", "publish", "mark", "resolve", "recovered",
                      "prune", "overflow", "due", "report", "advance"}
    /\ alEval' =
         CASE alEval.at = "idle" -> [EvalIdle EXCEPT !.at = "prune", !.now = alNow]
           [] alEval.at = "publish" -> [alEval EXCEPT !.at = "mark"]
           [] alEval.at = "report" -> [alEval EXCEPT !.at = "advance"]
           [] alEval.at \in {"prune", "overflow"} -> [alEval EXCEPT !.at = "due"]
           [] alEval.at \in {"due", "advance"} -> [alEval EXCEPT !.at = "idle"]
           [] OTHER -> [alEval EXCEPT !.at = "prune"]
    /\ UNCHANGED <<rowVars, alNotices, alEdits>>

\* The controller stops and starts again: the tick's own memory is gone.
EvaluatorRestarts ==
    /\ AlFault /\ alEval.at # "idle"
    /\ alEval' = EvalIdle
    /\ UNCHANGED <<rowVars, alNotices, alEdits>>

AlertNext ==
    \/ AlClock \/ RecordSamples
    \/ CreateRule \/ UpdateRule \/ DeleteRule
    \/ CreateSchedule \/ DeleteSchedule
    \/ \E i \in AlIncidents : ResolveIncident(i)
    \/ TickStarts \/ ReadSamples \/ InsertIncident \/ RereadIncident
    \/ PublishAlert \/ MarkIncidentNotified \/ ResolveOpen \/ PublishRecovery
    \/ PruneByAge \/ PruneByCount \/ DueSchedules \/ PublishReport \/ AdvanceSchedule
    \/ StatementFails \/ EvaluatorRestarts

AlertSpec == AlertInit /\ [][AlertNext]_alertVars
---------------------------------------------------------------------------
\* What the evaluator tells people, with operators editing the rows under it: a rule
\* has one open incident; an incident is told once, again only after a failed
\* statement or a restart; its recovery is told at most once, and never while it is
\* open; and two reports of the schedule are a cadence apart however long the
\* evaluator was away (evaluator.go, handleFiring, handleRecovery, advanceCadence).
ToldOnce ==
    /\ Cardinality(AlOpen) <= 1
    /\ \A i \in AlIncidents :
         /\ alNotices.alerts[i] <= 1 + alFaults
         /\ alNotices.recoveries[i] <= (IF alIncidents[i].state = "open" THEN 0 ELSE 1)
    /\ (alNotices.reports[1] >= 0 /\ alFaults = 0) =>
         alNotices.reports[2] - alNotices.reports[1] >= AlCadence
=============================================================================
