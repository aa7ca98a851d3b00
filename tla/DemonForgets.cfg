SPECIFICATION Spec
CONSTANTS
  s1 = s1
  s2 = s2
  p1 = p1
  p2 = p2
  p3 = p3
  l1 = l1
  l2 = l2
  Sessions = {s1}
  Posts = {p1}
  SessionOf <- MCSessionOf
  Laws = {l1}
  Kinds = {"read", "write"}
  MaxReply = 2
  MaxCalls = 3
  TornWrites = FALSE
  None = None
PROPERTIES
  MatrixRemembers
CHECK_DEADLOCK FALSE
