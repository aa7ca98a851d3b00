---------------------------- MODULE MCModelCalls ----------------------------
(* Instances for TLC of what is asked of models: requests of turns, with   *)
(* retries and fallbacks, and the calls of Agent A that the Demon answers. *)
(* They share no state; a behavior exercises one of them, named by "part". *)
EXTENDS MCDemonWorld, ModelRequest

VARIABLE part

MCModeOf == [r \in Requests |-> IF r = "r1" THEN "segments" ELSE "progress"]

DemonPart == part = "demon" /\ UNCHANGED <<part, requestVars>>
RequestPart == part = "requests" /\ UNCHANGED <<part, vars>>

CallsInit == part \in {"demon", "requests"} /\ Init /\ RequestInit

CallsNext == \/ DemonPart /\ Next
             \/ RequestPart /\ RequestNext

(* The fairness of each part, in the behaviors that exercise it.           *)
CallsFairness ==
  /\ \A p \in Posts : /\ WF_vars(DemonPart /\ AgentStep(p))
                      /\ WF_vars(DemonPart /\ DemonStep(p))
  /\ \A r \in Requests : WF_requestVars(RequestPart /\ Progresses(r))

CallsSpec == CallsInit /\ [][CallsNext]_<<part, vars, requestVars>> /\ CallsFairness
=============================================================================
