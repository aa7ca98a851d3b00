SPECIFICATION FairSpec
CONSTANTS
  s1 = s1
  s2 = s2
  u1 = u1
  u2 = u2
  u3 = u3
  u4 = u4
  a1 = a1
  a2 = a2
  d1 = d1
  Sessions = {s1}
  Users = {u1, u2, u4}
  Autos = {}
  Directs = {}
  SessionOf <- MCSessionOf
  Goals = {u1}
  Cap = 1
  InjectLimit = 1
  MaxCycles = 1
  MaxRounds = 1
  MaxConcurrent = 1
  MaxStops = 0
  None = None
PROPERTY ContinuationIsQueued
CHECK_DEADLOCK FALSE
