SPECIFICATION DeliverySpec
CONSTANTS
  Talkers = {"s", "t"}
  Chats = {"c"}
  ChatOf <- SharedChat
  LastStream <- OneStream
  LastPiece <- TwoPieces
  LastFollowUp <- NoFollowUp
  OutboundCap = 2
  SendTries = 2
  MaxSendFaults = 0
INVARIANT SharedChatsComplete
CHECK_DEADLOCK FALSE
