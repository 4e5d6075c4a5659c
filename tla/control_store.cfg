SPECIFICATION TableSpec
CONSTANTS
  Sessions = {s1, s2}
  NoSession = NoSession
  NoCall = NoCall
  MaxCalls = 5
  Objects = {o1, o2, o3}
  Types = {experiment, bundle}
  Approvals = {x, y}
  Calls <- MCCalls
  Experiments = {e1, e2}
  EventKeys = {k1, k2}
  Commands = {x, y}
  Appends <- MCAppends
  Slots <- MCSlots
  Contents = {x, y}
  Enqueues <- MCEnqueues
  Questions = {x, y}
  Decisions = {yes, no}
  ReviewOps <- MCReviewOps
  Absent = Absent NoRow = NoRow NoReview = NoReview NoDecision = NoDecision
  d1 = d1 d2 = d2 k3 = k3
  Drafters = {d1, d2}
  NoDrafter = NoDrafter
  Keys = {k1, k2, k3}
  Stamps = {0}
  MaxFence = 2
  e1 = e1 e2 = e2 k1 = k1 k2 = k2 x = x y = y
  o1 = o1 o2 = o2 o3 = o3
  experiment = experiment bundle = bundle yes = yes no = no
INVARIANTS
  InsertAccepted
  CommandsAnnounced
  AnswersStand
  OneActive
  DecisionsStand
  ActiveIsTrusted
  ActionsFenced
  PointerLinked
PROPERTIES
  AppendsInOrder
CHECK_DEADLOCK FALSE
