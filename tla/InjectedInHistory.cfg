SPECIFICATION Spec
CONSTANTS
  m1 = m1
  m2 = m2
  m3 = m3
  Msgs = {m1, m2, m3}
  None = None
  Settings <- Stateless
  LastReply = 3
SYMMETRY Symmetry
INVARIANTS
  InjectedInHistory
CHECK_DEADLOCK FALSE
