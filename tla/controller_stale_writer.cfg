SPECIFICATION Spec
CONSTANTS
  p1 = p1 p2 = p2 p3 = p3 e1 = e1 e2 = e2
  d0 = d0 d1 = d1 d2 = d2
  Procs = {p1, p2}
  Experiments = {e1}
  ExperimentOf <- TwoWriters
  Offered <- PromoterAndFencer
  MaxKeys = 5
  Drafters = {d0, d1, d2}
  NoDrafter = NoDrafter
  Owners = {w}
  NoOwner = NoOwner
  Bootstraps <- SeedDrafter
  Promotions <- OneCandidate
  Resources = {}
  MaxEvents = 5
  MaxFence = 1
  Crashing = {}
  CommitAckLost = FALSE
INVARIANTS
  PromotionsAuthorized
