--------------------------- MODULE MCSessionWork ---------------------------
(* The instance for TLC of the work for a session: its turns, from prompt  *)
(* to file, and what runs beside them.  They share no state here; a        *)
(* behavior exercises one of the two, named by "part".                     *)
EXTENDS MCTurnHistory, BackgroundWork

VARIABLE part

MCParentOf == [a \in Subagents |-> IF a = "z" THEN "l" ELSE "k"]

HistoryPart == part = "history" /\ UNCHANGED <<part, backgroundVars>>
BackgroundPart == part = "background" /\ UNCHANGED <<part, vars>>

WorkInit ==
  /\ part \in {"history", "background"} /\ Init /\ BackgroundInit
  /\ part = "background" => setting.goal = FALSE

WorkNext == \/ HistoryPart /\ Next
            \/ BackgroundPart /\ BackgroundNext

WorkSpec == WorkInit /\ [][WorkNext]_<<part, vars, backgroundVars>>
=============================================================================
