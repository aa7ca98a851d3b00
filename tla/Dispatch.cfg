SPECIFICATION MCSpec
CONSTANTS
  s1 = s1
  s2 = s2
  u1 = u1
  u2 = u2
  u3 = u3
  u4 = u4
  a1 = a1
  a2 = a2
  d1 = d1
  Sessions = {s1, s2}
  Users = {u1, u2, u3}
  Autos = {a1, a2}
  Directs = {d1}
  SessionOf <- MCSessionOf
  Goals = {u1}
  Cap = 1
  InjectLimit = 1
  MaxCycles = 1
  MaxRounds = 1
  MaxConcurrent = 1
  MaxStops = 1
  None = None
INVARIANTS
  OneTurnPerSession
  PendingQueueOwned
  GateBound
  NoMessageLost
  AutomationNeverInjected
  DispatchInv
  DeferredNotStranded
PROPERTIES
  LockIsFifo
  EveryMessageSettles
  EverySubmitReturns
CHECK_DEADLOCK FALSE
