---------------------------- MODULE MCDemonWorld ----------------------------
(* Instances of DemonWorld for TLC. *)
EXTENDS DemonWorld

CONSTANTS s1, s2, l1, l2, p1, p2, p3

(* Session s2 owns p3; the other posts are to s1. *)
MCSessionOf == [p \in Posts |-> IF p = p3 THEN s2 ELSE s1]
=============================================================================
