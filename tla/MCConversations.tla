-------------------------- MODULE MCConversations --------------------------
(* Instances for TLC of what becomes of a conversation: the rows of a      *)
(* session in its file, in memory and in the archive; what of them the     *)
(* model is shown; and what of the answers reaches the chat.  They share   *)
(* no state here; a behavior exercises one of them, named by "part".       *)
EXTENDS SessionMemory, ConversationWindow, ChannelDelivery

VARIABLE part

MCChatOf == [s \in Talkers |-> "c"]
MCTwoOne == [s \in Talkers |-> IF s = "s" THEN 2 ELSE 1]
MCTwoTwo == [s \in Talkers |-> 2]
MCOneNone == [s \in Talkers |-> IF s = "s" THEN 1 ELSE 0]

(* The loop of find_legal_message_start, over all short conversations.     *)
LegalStartLoop(s) ==
  FoldLeftDomain(
    LAMBDA acc, i :
      IF s[i].role = "assistant" THEN [acc EXCEPT !.declared = @ \cup s[i].calls]
      ELSE IF s[i].role = "tool" /\ s[i].answers \notin acc.declared
           THEN [start |-> i, declared |-> {}] ELSE acc,
    [start |-> 0, declared |-> {}], s).start
ShortRows == {User(1), Result(1, 2), Result(1, 3)} \cup
             {Row(1, "assistant", "plain", calls) : calls \in SUBSET {2, 3}}
ASSUME LegalStartIsTheLoop ==
  \A s \in UNION {[1..n -> ShortRows] : n \in 0..5} : LegalStart(s) = LegalStartLoop(s)

MemoryPart == part = "memory" /\ UNCHANGED <<part, windowVars, deliveryVars>>
WindowPart == part = "window" /\ UNCHANGED <<part, memoryVars, deliveryVars>>
DeliveryPart == part \in {"sharing", "following"} /\ UNCHANGED <<part, memoryVars, windowVars>>

(* The delivery has two parts: two sessions stream into the chat they       *)
(* share; and the turns and follow-ups of one session follow each other.    *)
Sharing == part = "sharing" => \A s \in Talkers : turnOf'[s].stream <= 1 /\ turnOf'[s].again = 0
Following == part = "following" => turnOf'["t"] = turnOf["t"]

ConversationsInit ==
  /\ part \in {"memory", "window", "sharing", "following"}
  /\ MemoryInit /\ WindowInit /\ DeliveryInit
  /\ part # "window" => messages = <<>>

ConversationsNext ==
  \/ MemoryPart /\ MemoryNext
  \/ WindowPart /\ WindowNext
  \/ DeliveryPart /\ DeliveryNext /\ Sharing /\ Following

ConversationsSpec ==
  ConversationsInit /\ [][ConversationsNext]_<<part, memoryVars, windowVars, deliveryVars>>
=============================================================================
