SPECIFICATION CallsSpec
CONSTANTS
  s1 = s1
  s2 = s2
  p1 = p1
  p2 = p2
  p3 = p3
  l1 = l1
  l2 = l2
  Sessions = {s1, s2}
  Posts = {p1, p2, p3}
  SessionOf <- MCSessionOf
  Laws = {l1}
  Kinds = {"read", "write"}
  MaxReply = 2
  MaxCalls = 3
  TornWrites = TRUE
  None = None
  Requests = {"r1", "r2"}
  ModeOf <- MCModeOf
  Fallbacks = 2
  Retries = 1
  Threshold = 2
  Cooldown = 1
  Images = {"r1"}
INVARIANTS
  WorldIInv
  WorldsIsolated
  Conversations
  OneVoice
PROPERTIES
  DeedsRemembered
  EveryPostReplied
  RequestEnds
CHECK_DEADLOCK FALSE
