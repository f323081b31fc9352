SPECIFICATION MCSpec
CONSTANTS
  Focus = {"history", "plain", "returning", "torn", "comparing", "basing", "recovering",
           "anchoring", "extending", "viewing", "reading", "governing", "incidents",
           "releasing", "deciding"}
  NoFile = NoFile
  NoRef = NoRef
  ProofPlans <- PlainPlans
  PackageExtents <- SmallOnly
  LibraryLimits <- LimitsOfLibrary
  ScriptLimits <- LimitsOfScript
  FirstFiles <- PlainFiles
  EarlierTransitions <- NoTransitions
  RewritableFiles = {"evidence", "graph"}
  MaxRewrites = 2
  MaxProofTransitions = 1
  MaxTears = 0
  p1 = p1
  p2 = p2
  i1 = i1
  i2 = i2
  r1 = r1
  NoPublication = NoPublication
  NoCheckpoint = NoCheckpoint
  k1 = k1
  k2 = k2
  m1 = m1
  NoDigest = NoDigest
  NoState = NoState
  NoKey = NoKey
  NoView = NoView
  a1 = a1
  a2 = a2
  Absent = Absent
  NoClient = NoClient
  NoRun = NoRun
  NoLimit = NoLimit
  NoReader = NoReader
  NoCall = NoCall
  Ingesters = {c1, c2}
  Deliveries <- ReportAndSource
  DirectDeliveries <- SourceDelivery
  Times = {1, 2}
  ReportPayloads = {a1}
  NamedSources = {i2}
  MaxCrashes = 1
  MaxSweeps = 0
  MaxReceipts = 1
  NoRecovery = NoRecovery
  NoWrite = NoWrite
  NoViewer = NoViewer
  b1 = b1
  b2 = b2
  f1 = f1
  f2 = f2
  Nothing = Nothing
  c1 = c1
  c2 = c2
  s1 = s1
  s2 = s2
  Clients = {c1, c2}
  Subjects = {s1, s2}
  Chains <- TwoChains
  Actors = {"host"}
  Instants <- OneTime
  Transactional = FALSE
  NoMark = NoMark
  NoSubject = NoSubject
  NoJob = NoJob
  NoAnswer = NoAnswer
  MaxTransitions = 2
  MaxInterruptions = 2
  Anchorers = {p1, p2}
  CheckpointIds = {i1, i2}
  AnchoredRecords = {r1}
  MaxAnchoredRecords = 2
  MaxAnchorTime = 1
  Publishers = {p1}
  Signers = {p2}
  Ids = {i1}
  TrustKeys = {k1, k2}
  Signed <- TwoStates
  Shown <- PageSources
  NoSigning = NoSigning
  MaxTrustCuts = 1
  Assured = {s1, s2}
  Risks = {r1}
  FirstInputs <- EveryInput
  LaterInputs <- OneInput
  MaxAssuranceTime = 1
  Incidents <- TwoIncidents
  MaxShown = 3
  MaxIncidents = 4
  MaxIncidentTime = 1
  Built = {b1, b2}
  BuiltFiles = {f1}
  External = {f2}
  Builds <- ThreeBuilds
  FirstBuild <- Build1
  ShownParts <- AllParts
  MaxIssued = 2
  MaxReleaseChanges = 7
INVARIANTS
  ChainsWellFormed
  HandedProofsHold
  VerifiersAgree
  AcknowledgedAnchored
  TrustPagesSound
  VerificationSound
  WorkspacePagesSound
  PagesComplete
  PagesOrderly
  ReleasesAsShown
PROPERTIES
  ValidRecordsKept
CHECK_DEADLOCK FALSE
