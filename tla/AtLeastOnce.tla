----------------------------- MODULE AtLeastOnce -----------------------------
(***************************************************************************)
(* What a durable queue of automation deliveries promises: a message that  *)
(* was accepted stays pending until it is settled, and is settled only     *)
(* after a turn with it has ended, or for an excuse (it was withdrawn, or  *)
(* all attempts were used up).  A settled message never comes back.        *)
(***************************************************************************)
EXTENDS FiniteSets

CONSTANT Messages

VARIABLES
  accepted,  \* messages the queue said yes to
  pending,   \* those it still owes a turn
  ran,       \* messages a turn ended with, once at least
  excused    \* messages the queue owes nothing

vars == <<accepted, pending, ran, excused>>

Init == accepted = {} /\ pending = {} /\ ran = {} /\ excused = {}

Accept(m) ==
  /\ m \in Messages \ accepted
  /\ accepted' = accepted \cup {m} /\ pending' = pending \cup {m}
  /\ UNCHANGED <<ran, excused>>

(* A turn with a pending message ends; it may be one more.                 *)
Run(m) ==
  /\ m \in pending
  /\ ran' = ran \cup {m}
  /\ UNCHANGED <<accepted, pending, excused>>

(* Messages are excused, or leave the queue, or both.                      *)
Settle ==
  /\ excused \subseteq excused'
  /\ pending' \subseteq pending
  /\ pending \ pending' \subseteq ran \cup excused'
  /\ UNCHANGED <<accepted, ran>>

Next == (\E m \in Messages : Accept(m) \/ Run(m)) \/ Settle

Spec == Init /\ [][Next]_vars
=============================================================================
