------------------------- MODULE MCSessionDispatch -------------------------
(* Instances of SessionDispatch for TLC. *)
EXTENDS SessionDispatch

CONSTANTS s1, s2, u1, u2, u3, u4, a1, a2, d1

(* Session s2 owns u3; everything else belongs to s1. *)
MCSessionOf == [m \in Msgs |-> IF m = u3 THEN s2 ELSE s1]
=============================================================================
