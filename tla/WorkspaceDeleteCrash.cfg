SPECIFICATION Spec
CONSTANTS
  c1 = c1
  c2 = c2
  r1 = r1
  r2 = r2
  a1 = a1
  a2 = a2
  run1 = run1
  p1 = p1
  p2 = p2
  Clients = {c1, c2}
  Deliveries <- OwnContent
  DirectDeliveries <- OwnContentDirect
  Times <- OneTime
  NoClient = NoClient
  NoRun = NoRun
  NoLimit = NoLimit
  Absent = Absent
  NoJob = NoJob
  MaxCrashes = 1
  MaxSweeps = 0
INVARIANTS
  PayloadAccountedFor
