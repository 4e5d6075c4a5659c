SPECIFICATION Spec
CONSTANTS
  a = a b = b k1 = k1 k2 = k2 k3 = k3 k4 = k4
  Drafters = {a, b}
  NoDrafter = NoDrafter
  Keys = {k1, k2, k3, k4}
  MaxFence = 1
  s1 = s1 s2 = s2
  Sessions = {s1, s2}
  NoSession = NoSession
  NoCall = NoCall
  Calls <- RollbackCalls
  MaxTime = 8
PROPERTIES
  RollbackRestoresReplaced
CHECK_DEADLOCK FALSE
