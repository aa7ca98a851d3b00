------------------------- MODULE MCChannelDelivery -------------------------
(* An instance for TLC of what reaches a chat that two sessions share, as  *)
(* two topics of one group do.                                             *)
EXTENDS ChannelDelivery

SharedChat == [s \in Talkers |-> "c"]
OneStream == [s \in Talkers |-> 1]
TwoPieces == [s \in Talkers |-> 2]
NoFollowUp == [s \in Talkers |-> 0]
=============================================================================
