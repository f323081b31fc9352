SPECIFICATION MCSpec
CONSTANTS
  Focus = {"correcting"}
  p1 = p1
  p2 = p2
  a = a
  b = b
  o1 = o1
  o2 = o2
  k1 = k1
  k2 = k2
  m1 = m1
  m2 = m2
  r1 = r1
  r2 = r2
  s1 = s1
  A = A
  B = B
  n = n
  c = c
  Outside = Outside
  Publishers = {p1, p2}
  Keys = {k1, k2}
  Signed <- States
  MaxInterruptions = 1
  Signers = {a, b}
  Ids = {o1, o2}
  NoDigest = NoDigest
  NoState = NoState
  NoKey = NoKey
  NoJob = NoJob
  NoSpan = NoSpan
  NoFile = NoFile
  NoTree = NoTree
  NoRow = NoRow
  Idle = Idle
  f1 = f1
  f2 = f2
  Extra = Extra
  NoReceipt = NoReceipt
  NoCall = NoCall
  NoMark = NoMark
  NoSubject = NoSubject
  NoAnswer = NoAnswer
  NoRequest = NoRequest
  NoPost = NoPost
  NoReport = NoReport
  NoBundle = NoBundle
  NoBuild = NoBuild
  NoEvaluation = NoEvaluation
  AnyContent = AnyContent
  NoZip = NoZip
  Torn = Torn
  NoCheck = NoCheck
  Runs = {r1, r2}
  Spans = {s1}
  Capacity = 1
  FailureCapacity = 1
  JournalLimit = 2
  MaxFaults = 1
  MaxRestarts = 1
  Callers = {p1, p2}
  Names = {f1, f2}
  MaxTime = 1
  MaxRecords = 2
  MaxChanges = 3
  MaxCuts = 1
  Clients = {p1, p2}
  Subjects = {k1}
  RegisteredChains <- FiveChains
  Actors = {"host", "operator"}
  Instants = {1}
  NoWriting = NoWriting
  MaxTransitions = 3
  MaxCutShort = 1
  Workers = {p1, p2}
  PostKeys = {k1, k2}
  Authors = {a, b}
  ReviewedReports = {r1}
  MaxStatements = 2
  MaxRequests = 3
  MaxAuditCuts = 1
  Versions = {r1, r2}
  First = r1
  MaxReports = 1
  MaxReplacements = 3
  PageLimit = 2
  Asked = {"model_invocation_reconstructable.v1", "release_evidence_complete.v1",
           "release-evidence-complete"}
  Contracts <- ThreeContracts
  BundleOrder <- Bundled
  BundleSpecs <- Specifications
  BundledContents = {m1, m2, r1}
  BundledExtent <- SmallBigAndDense
  Ceilings = {0, 1}
  MaxInput = 9
  MaxMembers = 3
  MaxRatio = 10
  MaxUnpacked = 15
  MaxSourceChanges = 1
  MaxBundleExports = 2
  Roots = {A, B}
  ExportNames = {n}
  ExportContents = {c}
  MaxIdentities = 2
  MaxExports = 1
  MaxVersion = 2
  MaxStops = 1
INVARIANTS
  AuditReadable
CHECK_DEADLOCK FALSE
