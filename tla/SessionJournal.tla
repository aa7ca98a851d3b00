--------------------------- MODULE SessionJournal ---------------------------
(***************************************************************************)
(* What the record of a session promises its readers (the next turn, a     *)
(* restarted process, the history views): it grows by whole exchanges at   *)
(* its end, in the order they happened; only /new starts it afresh.        *)
(*                                                                         *)
(* The record is what the session file holds, after what the file cap has  *)
(* moved from there to the archive: such a move changes the file and not   *)
(* the record.  A row has a kind and the set of things it is about: the    *)
(* messages a user row carries, or the number of the model's reply.        *)
(***************************************************************************)
EXTENDS Naturals, SequencesExt

VARIABLES
  log,      \* the record
  renewed   \* was /new asked for since the record changed?

ReplyKinds == {"calls", "result", "interrupted", "answer", "note"}
ResultKinds == {"result", "interrupted"}

(* Tool calls and results are paired: each result row answers the calls    *)
(* row right before it, and no calls row is left without results.  A       *)
(* provider refuses a history where this fails.                            *)
ToolCallsPaired(rows) ==
  /\ \A i \in DOMAIN rows : rows[i].kind \in ResultKinds =>
       i > 1 /\ rows[i - 1] = [rows[i] EXCEPT !.kind = "calls"]
  /\ \A i \in DOMAIN rows : rows[i].kind = "calls" =>
       /\ i < Len(rows)
       /\ rows[i + 1].kind \in ResultKinds
       /\ rows[i + 1].of = rows[i].of

(* Replies stand in the order the model gave them, none of them twice.     *)
RepliesInOrder(rows) ==
  \A i, j \in DOMAIN rows :
    /\ i < j
    /\ rows[i].kind \in ReplyKinds /\ rows[j].kind \in ReplyKinds
    => /\ rows[i] # rows[j]
       /\ \A m \in rows[i].of, n \in rows[j].of : m <= n

WellFormed(rows) == ToolCallsPaired(rows) /\ RepliesInOrder(rows)

Init == log = <<>> /\ renewed = FALSE

(* The log grows, and is well formed again.                                *)
Extend == IsPrefix(log, log') /\ WellFormed(log') /\ ~renewed'

(* /new, with a save that succeeds or fails.                               *)
New == log' \in {<<>>, log} /\ renewed'

(* The first rows that are saved after /new.                               *)
StartAfresh ==
  /\ renewed /\ ~renewed'
  /\ log' = <<>> \/ Head(log') # Head(log)
  /\ WellFormed(log')

(* A restart forgets a /new that was not saved.                            *)
Restart == log' = log /\ ~renewed'

Next == Extend \/ New \/ StartAfresh \/ Restart

Spec == Init /\ [][Next]_<<log, renewed>>
=============================================================================
