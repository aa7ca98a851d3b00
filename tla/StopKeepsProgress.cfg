SPECIFICATION Spec
CONSTANTS
  m1 = m1
  m2 = m2
  m3 = m3
  Msgs = {m1, m2, m3}
  None = None
  Settings <- Stateless
  LastReply = 3
PROPERTIES
  StopKeepsProgress
CHECK_DEADLOCK FALSE
