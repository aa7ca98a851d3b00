--------------------------- MODULE MCAutomations ---------------------------
(* Instances for TLC of the two sources of automation turns: the durable   *)
(* queue of local triggers, and scheduled jobs.  They share no state; a    *)
(* behavior exercises one of them, named by "part".                        *)
EXTENDS TriggerQueue, CronService, TLC

VARIABLE part

MCTriggerOf == [d \in Deliveries |-> IF d = 2 THEN "b" ELSE "a"]
MCKindOf == [j \in CronJobs |-> IF j = "o" THEN "once" ELSE IF j = "a" THEN "at" ELSE "every"]

(* The loop of _merge_action over the lines of the log, which the service  *)
(* sums up in Merge.                                                       *)
Logged == [op |-> "put", job |-> "o", state |-> [on |-> TRUE, next |-> 0]]
LoggedActions == {Logged, [Logged EXCEPT !.state.next = 1], [Logged EXCEPT !.job = "a"],
                  [op |-> "del", job |-> "o"], [op |-> "del", job |-> "e"]}
Line(store, a) == IF a.op = "del" THEN Drop(store, a.job) ELSE Put(store, a.job, a.state)
StoredJobs == [j \in {"o", "e"} |-> [on |-> FALSE, next |-> 2]]
ASSUME MergeIsTheLoop ==
  \A log \in UNION {[1..n -> LoggedActions] : n \in 0..4} :
    Merge(log, StoredJobs) = FoldLeft(Line, StoredJobs, log)

TriggerPart == part = "triggers" /\ UNCHANGED <<part, cronVars>>
CronPart == part = "cron" /\ UNCHANGED <<part, triggerVars>>

AutomationsInit == part \in {"triggers", "cron"} /\ TriggerInit /\ CronInit

AutomationsNext == \/ TriggerPart /\ TriggerNext
                   \/ CronPart /\ CronNext

(* The fairness of each part, in the behaviors that exercise it.           *)
AutomationsFairness ==
  /\ WF_triggerVars(TriggerPart /\ Runner) /\ WF_triggerVars(TriggerPart /\ TurnReportsInTime)
  /\ WF_cronVars(CronPart /\ Start) /\ WF_cronVars(CronPart /\ Clock)
  /\ WF_cronVars(CronPart /\ TimerFires) /\ WF_cronVars(CronPart /\ JobEndsInTime)

AutomationsSpec ==
  /\ AutomationsInit /\ [][AutomationsNext]_<<part, triggerVars, cronVars>>
  /\ AutomationsFairness
=============================================================================
