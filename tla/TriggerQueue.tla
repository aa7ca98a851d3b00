----------------------------- MODULE TriggerQueue -----------------------------
(***************************************************************************)
(* The durable queue of local trigger deliveries and its runner            *)
(* (nanobot/triggers/local_store.py, nanobot/triggers/local_runner.py).    *)
(*                                                                         *)
(* A delivery is a file in one of three directories: inbox, processing,    *)
(* failed.  The store moves it under a file lock that all processes share; *)
(* every rename, write and unlink is atomic, and the gateway may die       *)
(* between any two of them.  The runner claims a batch, submits one turn   *)
(* after the other and waits for each.  A delivery is a number: its place  *)
(* in the order of file names, which start with the time of creation.      *)
(*                                                                         *)
(* Run records and the last status of a trigger are left out: nothing but  *)
(* the user reads them.  A trigger whose channel is off counts as disabled.*)
(***************************************************************************)
EXTENDS Naturals, FiniteSets, FiniteSetsExt, Functions, SequencesExt

CONSTANTS
  Triggers,          \* session-bound triggers
  LastDelivery,      \* bound of the model: deliveries ever queued
  TriggerOf,         \* the trigger of each delivery
  MaxAttempts,       \* _MAX_DELIVERY_ATTEMPTS
  BatchSize,         \* deliveries claimed at once
  MaxTriggerFaults,  \* bound of the model: restarts and failed writes
  NoDelivery         \* nothing to unlink

Deliveries == 1..LastDelivery

ASSUME TriggerAssumption ==
  /\ LastDelivery \in Nat /\ NoDelivery \notin Nat
  /\ TriggerOf \in [Deliveries -> Triggers]
  /\ MaxAttempts \in Nat \ {0} /\ BatchSize \in Nat \ {0}
  /\ MaxTriggerFaults \in Nat

VARIABLES
  triggers,    \* triggers.json: "enabled", "disabled" or "gone"
  inbox,       \* attempts on record in the file of each delivery of inbox/
  processing,  \* the same for processing/
  failed,      \* the same for failed/
  runner,      \* where run_local_trigger_queue is
  batch,       \* claimed deliveries in memory, with their attempts
  leaving,     \* the delivery whose file in processing/ is to go next
  accepted,    \* history: deliveries whose enqueue returned
  ran,         \* history: deliveries a turn of which ended
  excused,     \* history: withdrawn with their trigger, or out of attempts
  triggerFaults

triggerStore == <<triggers, inbox, processing, failed>>
histories == <<accepted, ran, excused>>
triggerVars == <<triggerStore, runner, batch, leaving, histories, triggerFaults>>

Claimed == [of : Deliveries, attempts : 0..MaxAttempts]

Directory(dir) ==
  DOMAIN dir \subseteq Deliveries /\ \A d \in DOMAIN dir : dir[d] \in 0..MaxAttempts

TriggerTypeOK ==
  /\ triggers \in [Triggers -> {"enabled", "disabled", "gone"}]
  /\ Directory(inbox) /\ Directory(processing) /\ Directory(failed)
  /\ \A d \in DOMAIN inbox : inbox[d] < MaxAttempts
  /\ \A d \in DOMAIN failed : failed[d] = MaxAttempts
  /\ runner \in {"down", "recovering", "polling", "claiming", "delivering",
                 "turn", "silent", "acking", "stopping"}
  /\ batch \in Seq(Claimed) /\ Len(batch) <= BatchSize
  /\ leaving \in Deliveries \cup {NoDelivery}
  /\ ran \subseteq accepted /\ excused \subseteq accepted
  /\ accepted \subseteq Deliveries
  /\ triggerFaults \in 0..MaxTriggerFaults

NoFiles == << >>

TriggerInit ==
  /\ triggers = [t \in Triggers |-> "enabled"]
  /\ inbox = NoFiles /\ processing = NoFiles /\ failed = NoFiles
  /\ runner = "down" /\ batch = <<>> /\ leaving = NoDelivery
  /\ accepted = {} /\ ran = {} /\ excused = {}
  /\ triggerFaults = 0

Without(dir, D) == Restrict(dir, DOMAIN dir \ D)
With(dir, d, attempts) ==
  [e \in DOMAIN dir \cup {d} |-> IF e = d THEN attempts ELSE dir[e]]
Oldest(dir) == Min(DOMAIN dir)

(* The runner holds the file lock while it recovers, claims or retries.    *)
LockIsFree == runner \notin {"recovering", "claiming"} /\ leaving = NoDelivery
-----------------------------------------------------------------------------
(* Callers of the store, in any process.                                   *)

(* enqueue.  The next file name is larger than all before.                 *)
Enqueue(d) ==
  /\ LockIsFree
  /\ d \in Deliveries \ accepted /\ \A e \in Deliveries : e < d => e \in accepted
  /\ triggers[TriggerOf[d]] = "enabled"
  /\ inbox' = With(inbox, d, 0)
  /\ accepted' = accepted \cup {d}
  /\ UNCHANGED <<triggers, processing, failed, runner, batch, leaving, ran, excused, triggerFaults>>

Enable(t) ==
  /\ LockIsFree
  /\ triggers[t] # "gone"
  /\ \E state \in {"enabled", "disabled"} \ {triggers[t]} :
       triggers' = [triggers EXCEPT ![t] = state]
  /\ UNCHANGED <<inbox, processing, failed, runner, batch, leaving, histories, triggerFaults>>

(* delete: the trigger goes first, then its delivery files; a file that    *)
(* cannot be removed is left where it is.                                  *)
DeleteTrigger(t) ==
  LET gone == {d \in accepted : TriggerOf[d] = t} IN
  /\ LockIsFree
  /\ triggers[t] # "gone"
  /\ triggers' = [triggers EXCEPT ![t] = "gone"]
  /\ \E removed \in {{}, gone} :
       /\ inbox' = Without(inbox, removed)
       /\ processing' = Without(processing, removed)
       /\ failed' = Without(failed, removed)
  /\ excused' = excused \cup gone
  /\ UNCHANGED <<runner, batch, leaving, accepted, ran, triggerFaults>>
-----------------------------------------------------------------------------
(* The runner.                                                             *)

(* _retry_delivery_unlocked, its first write: back to the inbox, or to     *)
(* failed/ once the attempts are used up.  The file in processing/ goes    *)
(* next.                                                                   *)
\* One attempt too many.
RetryMutant(x) ==
  /\ leaving' = x.of
  /\ inbox' = With(inbox, x.of, x.attempts + 1)
  /\ UNCHANGED <<failed, excused>>
Retry(x) ==
  LET attempts == x.attempts + 1 IN
  /\ leaving' = x.of
  /\ \/ /\ attempts < MaxAttempts
        /\ inbox' = With(inbox, x.of, attempts)
        /\ UNCHANGED <<failed, excused>>
     \/ /\ attempts >= MaxAttempts
        /\ failed' = With(failed, x.of, attempts)
        /\ excused' = excused \cup {x.of}
        /\ UNCHANGED inbox

(* ... and its second one.                                                 *)
RetryUnlinks ==
  /\ leaving # NoDelivery
  /\ processing' = Without(processing, {leaving})
  /\ leaving' = NoDelivery
  /\ runner' = IF runner = "stopping" THEN "down" ELSE runner
  /\ batch' = IF runner = "stopping" THEN <<>> ELSE batch
  /\ UNCHANGED <<triggers, inbox, failed, histories, triggerFaults>>

(* The gateway starts, and requeues what an earlier one was processing.    *)
\* ... or does not.
BootMutant ==
  /\ runner = "down"
  /\ runner' = "polling"
  /\ UNCHANGED <<triggerStore, batch, leaving, histories, triggerFaults>>
Boot ==
  /\ runner = "down"
  /\ runner' = "recovering"
  /\ UNCHANGED <<triggerStore, batch, leaving, histories, triggerFaults>>

Recover ==
  /\ runner = "recovering" /\ leaving = NoDelivery /\ DOMAIN processing # {}
  /\ LET d == Oldest(processing) IN Retry([of |-> d, attempts |-> processing[d]])
  /\ UNCHANGED <<triggers, processing, runner, batch, accepted, ran, triggerFaults>>

Recovered ==
  /\ runner = "recovering" /\ leaving = NoDelivery /\ DOMAIN processing = {}
  /\ runner' = "polling"
  /\ UNCHANGED <<triggerStore, batch, leaving, histories, triggerFaults>>

(* claim_deliveries: the oldest files of the inbox, one rename each.       *)
Poll ==
  /\ runner = "polling" /\ leaving = NoDelivery /\ DOMAIN inbox # {}
  /\ runner' = "claiming"
  /\ UNCHANGED <<triggerStore, batch, leaving, histories, triggerFaults>>

ClaimedAll == DOMAIN inbox = {} \/ Len(batch) = BatchSize

\* The file is read and removed, not moved.
ClaimUnlinksMutant ==
  /\ runner = "claiming" /\ ~ClaimedAll
  /\ LET d == Oldest(inbox) IN
       /\ batch' = Append(batch, [of |-> d, attempts |-> inbox[d]])
       /\ inbox' = Without(inbox, {d})
  /\ UNCHANGED <<triggers, processing, failed, runner, leaving, histories, triggerFaults>>
\* The file is copied, not moved.
ClaimMutant ==
  /\ runner = "claiming" /\ ~ClaimedAll
  /\ LET d == Oldest(inbox) IN
       /\ batch' = Append(batch, [of |-> d, attempts |-> inbox[d]])
       /\ processing' = With(processing, d, inbox[d])
  /\ UNCHANGED <<triggers, inbox, failed, runner, leaving, histories, triggerFaults>>
Claim ==
  /\ runner = "claiming" /\ ~ClaimedAll
  /\ LET d == Oldest(inbox) IN
       /\ batch' = Append(batch, [of |-> d, attempts |-> inbox[d]])
       /\ processing' = With(processing, d, inbox[d])
       /\ inbox' = Without(inbox, {d})
  /\ UNCHANGED <<triggers, failed, runner, leaving, histories, triggerFaults>>

ClaimDone ==
  /\ runner = "claiming" /\ ClaimedAll
  /\ runner' = "delivering"
  /\ UNCHANGED <<triggerStore, batch, leaving, histories, triggerFaults>>

Current == Head(batch)

(* The loop goes on with the next delivery of the batch, or polls again.   *)
Onward ==
  /\ batch' = Tail(batch)
  /\ runner' = IF Len(batch) = 1 THEN "polling" ELSE "delivering"

Delivering == runner = "delivering" /\ leaving = NoDelivery

(* _deliver_delivery up to submit_turn.                                    *)
Submit ==
  /\ Delivering
  /\ triggers[TriggerOf[Current.of]] = "enabled"
  /\ runner' = "turn"
  /\ UNCHANGED <<triggerStore, batch, leaving, histories, triggerFaults>>

(* A delivery whose trigger is gone or disabled is dropped.                *)
DropDelivery ==
  /\ Delivering
  /\ triggers[TriggerOf[Current.of]] # "enabled"
  /\ processing' = Without(processing, {Current.of})
  /\ excused' = excused \cup {Current.of}
  /\ Onward
  /\ UNCHANGED <<triggers, inbox, failed, leaving, accepted, ran, triggerFaults>>

(* An error that no turn reported (the run record cannot be written):      *)
(* the delivery is retried later.                                          *)
SubmitFails ==
  /\ Delivering /\ triggerFaults < MaxTriggerFaults
  /\ triggers[TriggerOf[Current.of]] = "enabled"
  /\ Retry(Current) /\ Onward
  /\ triggerFaults' = triggerFaults + 1
  /\ UNCHANGED <<triggers, processing, accepted, ran>>

(* A /stop cancels the submitted turn while it waits for its session's     *)
(* lock, or the task in front of it before its first step: nobody resolves *)
(* the future the runner awaits, which has no timeout.  A deferred turn    *)
(* may still be published when the session runs again, and report then.    *)
TurnFallsSilent ==
  /\ runner = "turn"
  /\ runner' = "silent"
  /\ UNCHANGED <<triggerStore, batch, leaving, histories, triggerFaults>>
Waits == runner \in {"turn", "silent"}

(* The turn reports: an answer, or AutomationTurnError.                    *)
TurnReports ==
  /\ Waits
  /\ ran' = ran \cup {Current.of}
  /\ runner' = "acking"
  /\ UNCHANGED <<triggerStore, batch, leaving, accepted, excused, triggerFaults>>
TurnReportsInTime == runner = "turn" /\ TurnReports

(* complete_delivery.                                                      *)
Ack ==
  /\ runner = "acking"
  /\ processing' = Without(processing, {Current.of})
  /\ Onward
  /\ UNCHANGED <<triggers, inbox, failed, leaving, histories, triggerFaults>>

(* Recording the answer of a turn fails: that error, too, means retry.     *)
AckFails ==
  /\ runner = "acking" /\ triggerFaults < MaxTriggerFaults
  /\ Retry(Current) /\ Onward
  /\ triggerFaults' = triggerFaults + 1
  /\ UNCHANGED <<triggers, processing, accepted, ran>>

(* The gateway shuts down.  The runner is cancelled where it awaits: in    *)
(* its sleep, or in the turn, which it then retries.                       *)
Shutdown ==
  /\ triggerFaults < MaxTriggerFaults /\ leaving = NoDelivery
  /\ triggerFaults' = triggerFaults + 1
  /\ \/ /\ runner = "polling" /\ runner' = "down"
        /\ UNCHANGED <<inbox, failed, leaving, excused>>
     \/ /\ Waits /\ runner' = "stopping"
        /\ Retry(Current)
  /\ UNCHANGED <<triggers, processing, batch, accepted, ran>>

(* The gateway dies; also, an error in a handler ends it.                  *)
GatewayDies ==
  /\ runner # "down" /\ triggerFaults < MaxTriggerFaults
  /\ runner' = "down" /\ batch' = <<>> /\ leaving' = NoDelivery
  /\ triggerFaults' = triggerFaults + 1
  /\ UNCHANGED <<triggerStore, histories>>

Runner == \/ Boot \/ Recover \/ Recovered \/ Poll \/ Claim \/ ClaimDone
          \/ Submit \/ DropDelivery \/ Ack \/ RetryUnlinks

Callers == (\E d \in Deliveries : Enqueue(d)) \/ (\E t \in Triggers : Enable(t) \/ DeleteTrigger(t))

TriggerNext == \/ Runner \/ TurnFallsSilent \/ TurnReports \/ Callers
               \/ SubmitFails \/ AckFails \/ Shutdown \/ GatewayDies

(* The gateway is restarted, the runner goes on, and every submitted turn  *)
(* reports or falls silent; one that is silent may stay so.                *)
TriggerSpec == TriggerInit /\ [][TriggerNext]_triggerVars
TriggerFairness == WF_triggerVars(Runner) /\ WF_triggerVars(TurnReportsInTime)
-----------------------------------------------------------------------------
InHand == {batch[i].of : i \in DOMAIN batch}
Files == DOMAIN inbox \cup DOMAIN processing

(* local_store.py: the file of a delivery is renamed, rewritten and        *)
(* unlinked by several processes and across crashes.  Whatever happens, no *)
(* delivery the runner holds is also waiting to be claimed, where a second *)
(* turn of it would begin; and what the runner holds is in processing/,    *)
(* where the next gateway finds it, unless its trigger was deleted.        *)
NoTwin ==
  /\ \A i, j \in DOMAIN batch : i # j => batch[i].of # batch[j].of
  /\ \A d \in InHand \ {leaving} : d \notin DOMAIN inbox
  /\ \A d \in InHand \ {leaving} :
       d \in DOMAIN processing \/ triggers[TriggerOf[d]] = "gone"

(* The inductive invariant behind NoTwin and DeliveredAtLeastOnce: where   *)
(* the runner is says what it holds; the delivery that is leaving is       *)
(* accounted for elsewhere; every file and every delivery in hand was      *)
(* accepted, and nothing is owed for a deleted trigger.                    *)
RunnerInv ==
  /\ runner \in {"down", "recovering", "polling"} => batch = <<>>
  /\ runner \in {"delivering", "turn", "silent", "acking", "stopping"} => batch # <<>>
  /\ runner = "claiming" /\ batch = <<>> => DOMAIN inbox # {}
  /\ runner \in {"down", "claiming", "turn", "silent", "acking"} => leaving = NoDelivery
  /\ runner = "acking" => Current.of \in ran
LeavingInv ==
  leaving # NoDelivery =>
    /\ leaving \in DOMAIN inbox \cup excused
    /\ runner # "stopping" => leaving \notin InHand
AttemptsInv ==
  /\ \A d \in DOMAIN processing : processing[d] < MaxAttempts
  /\ \A i \in DOMAIN batch : batch[i].attempts < MaxAttempts
OwedInv ==
  /\ Files \cup InHand \subseteq accepted
  /\ \A d \in accepted : triggers[TriggerOf[d]] = "gone" => d \in excused
(* The inductive invariant of the queue: a delivery has one file, and what *)
(* the worker holds is the claimed one (LocalTriggerStore).                *)
TriggerIInv ==
  /\ TriggerTypeOK /\ NoTwin
  /\ RunnerInv /\ LeavingInv /\ AttemptsInv /\ OwedInv

(* "Delivery is at-least-once" (docs/concepts.md): the queue implements    *)
(* AtLeastOnce.  A delivery is pending while a file of it may be claimed   *)
(* or recovered, or the runner holds it.                                   *)
Promise == INSTANCE AtLeastOnce WITH
  Messages <- Deliveries,
  pending <- Files \cup InHand

DeliveredAtLeastOnce == Promise!Spec

(* docs/automations.md: a delivery waits for the gateway and survives its  *)
(* restarts.  Every accepted delivery is settled in the end, unless the    *)
(* runner is left waiting for a turn that was stopped and never reports.   *)
EveryDeliverySettles ==
  \A d \in Deliveries :
    d \in accepted ~> (d \notin Files \cup InHand \/ runner = "silent")
=============================================================================
