--------------------------- MODULE MCTurnHistory ---------------------------
(* Instances of TurnHistory for TLC.  Messages are interchangeable: the    *)
(* messages of a setting are told apart by nothing but their number.       *)
EXTENDS TurnHistory, TLC

CONSTANTS m1, m2, m3

Symmetry == Permutations(Msgs)

Plain == [msgs |-> {m1, m2}, iterations |-> 2, cycles |-> 1, faults |-> 1, goal |-> FALSE,
          stateful |-> FALSE, transient |-> FALSE, archiveFails |-> FALSE]
Stateless == {Plain}

(* A thread of the provider and injected messages; a goal and two failing  *)
(* saves; a goal and everything that can go wrong with the thread.         *)
Deployments ==
  {[Plain EXCEPT !.msgs = {m1, m2, m3}, !.iterations = 3, !.cycles = 2, !.stateful = TRUE],
   [Plain EXCEPT !.goal = TRUE, !.faults = 2],
   [Plain EXCEPT !.cycles = 0, !.goal = TRUE, !.stateful = TRUE, !.transient = TRUE,
                 !.archiveFails = TRUE]}
=============================================================================
