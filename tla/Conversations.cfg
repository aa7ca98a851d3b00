SPECIFICATION ConversationsSpec
CONSTANTS
  Objects = {"o1", "o2", "o3"}
  NoObject = "none"
  LastRow = 4
  FileCap = 3
  IdleSuffix = 1
  MaxInterrupts = 1
  RowBound = 12
  RowCap = 5
  ReplayMax = 3
  Suffix = 2
  Talkers = {"s", "t"}
  Chats = {"c"}
  ChatOf <- MCChatOf
  LastStream <- MCTwoOne
  LastPiece <- MCTwoTwo
  LastFollowUp <- MCOneNone
  OutboundCap = 2
  SendTries = 2
  MaxSendFaults = 1
INVARIANTS
  MemoryIInv
  WindowIInv
  HiddenIsArchived
  NothingForgotten
  CutIsArchived
  RequestValid
  PiecesInOrder
  StreamsComplete
  SuppressedWasSaid
PROPERTIES
  WindowHidesArchived
CHECK_DEADLOCK FALSE
