SPECIFICATION Spec
CONSTANTS
  s1 = s1
  s2 = s2
  u1 = u1
  u2 = u2
  u3 = u3
  u4 = u4
  a1 = a1
  a2 = a2
  d1 = d1
  Sessions = {s1}
  Users = {u1, u2}
  Autos = {}
  Directs = {}
  SessionOf <- MCSessionOf
  Goals = {}
  Cap = 2
  InjectLimit = 1
  MaxCycles = 1
  MaxRounds = 1
  MaxConcurrent = 1
  MaxStops = 1
  None = None
PROPERTY StopDropsPending
CHECK_DEADLOCK FALSE
