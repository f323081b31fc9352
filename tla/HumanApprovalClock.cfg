SPECIFICATION Spec
CONSTANTS
  b1 = b1
  b2 = b2
  k1 = k1
  k2 = k2
  k3 = k3
  k4 = k4
  u1 = u1
  u2 = u2
  Approvals <- Requests
  Revocations <- RevocationRequests
  Authorities <- BothAuthorities
  Publishers = {"ci"}
  Instants <- TwoInstants
  ClockMayStepBack = TRUE
  NoReceipt = NoReceipt
  NoCall = NoCall
  NoPermit = NoPermit
  MaxReceipts = 3
  MaxOthers = 1
INVARIANTS
  TransitionsFollowTarget
