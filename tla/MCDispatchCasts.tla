-------------------------- MODULE MCDispatchCasts --------------------------
(* The instance of SessionDispatch that covers all its kinds of messages,   *)
(* a few of them in each behavior.                                          *)
EXTENDS MCSessionDispatch

(* The messages that are sent in a behavior: chat messages of two sessions  *)
(* and a direct call; two automation turns with a chat message and a direct *)
(* call; one with two chat messages and a direct call; and one beside       *)
(* another session.                                                         *)
VARIABLE cast
Casts == {{u1, u2, u3, d1}, {u1, a1, a2, d1}, {u1, u2, a1, d1}, {u1, u3, a1}}

MCInit == cast \in Casts /\ Init
MCNext == Next /\ UNCHANGED cast /\ \A m \in Msgs \ cast : fate'[m] = "unsent"
MCSpec == MCInit /\ [][MCNext]_<<cast, vars>> /\ Fairness
=============================================================================
