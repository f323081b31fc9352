----------------------------- MODULE Components -----------------------------
(***************************************************************************)
(* Components that share no state, side by side: native capture, the       *)
(* publication of a release, the reliability history in its SQLite store,  *)
(* the review service, release proofs, claim profiles, operational         *)
(* bundles, and the directory of a workspace with its backup.  Each is an  *)
(* instance with parameters of its own, and this module says what each of  *)
(* them promises; MCComponents checks it on small instances, and           *)
(* Components_proofs proves it for all of them.                            *)
(***************************************************************************)

CONSTANTS
  \* native capture
  Runs, Spans, Capacity, FailureCapacity, JournalLimit, NoSpan, MaxFaults, MaxRestarts,
  \* publication of a release
  Callers, Names, Extra, NoReceipt, NoCall, MaxTime, MaxRecords, MaxChanges, MaxCuts,
  \* reliability history
  Clients, Subjects, RegisteredChains, Actors, Instants, NoMark, NoSubject, NoWriting, NoAnswer,
  MaxTransitions, MaxCutShort,
  \* review service
  Workers, PostKeys, Authors, ReviewedReports, NoRequest, NoPost, MaxStatements, MaxRequests,
  MaxAuditCuts,
  \* release proofs
  Versions, First, NoReport, NoBundle, NoBuild, MaxReports, MaxReplacements,
  \* claim profiles
  Contracts, PageLimit, Asked, NoEvaluation,
  \* operational bundles
  BundleOrder, BundleSpecs, BundledContents, BundledExtent, Ceilings, MaxInput, MaxMembers,
  MaxRatio, MaxUnpacked, MaxSourceChanges, MaxBundleExports, AnyContent, NoZip, Torn, NoCheck,
  \* workspace directory
  Roots, ExportNames, Outside, ExportContents, NoFile, NoTree, NoRow, Idle,
  MaxIdentities, MaxExports, MaxVersion, MaxStops

VARIABLES
  up, results, failures, failureCount, started, completed, spanLock, capturing,
  faulted, durable, delivered, journal, faults, restarts,
  uploaded, listed, present, yankedNow, changes, clock, receipt, observations,
  call, cuts,
  transitions, openLine, torn, spoiled, pc, writing, returned, cutShort,
  audit, reviews, serving, answers, received, auditCuts,
  chainFile, attestationFile, sourceFiles, recorded, basisReport, generated,
  approved, bundleFile, build, releases, replacements,
  indexed, stored, evaluation,
  sources, output, packing, checking, replaced, written,
  tree, previous, aside, backup, doing, installed, created, numbered, rewritten, stops

captureVars == <<up, results, failures, failureCount, started, completed, spanLock,
                 capturing, faulted, durable, delivered, journal, faults, restarts>>
registryVars == <<uploaded, listed, present, yankedNow, changes, clock, receipt,
                  observations, call, cuts>>
registerVars == <<transitions, openLine, torn, spoiled, pc, writing, returned, cutShort>>
serviceVars == <<audit, reviews, serving, answers, received, auditCuts>>
proofVars == <<chainFile, attestationFile, sourceFiles, recorded, basisReport,
               generated, approved, bundleFile, build, releases, replacements>>
profileVars == <<indexed, stored, evaluation>>
bundleVars == <<sources, output, packing, checking, replaced, written>>
treeVars == <<tree, previous, aside, backup, doing, installed, created, numbered,
              rewritten, stops>>

Capture == INSTANCE NativeCapture WITH phase <- capturing

Publication == INSTANCE RegistryPublication

\* The transactional store.
Register == INSTANCE ReliabilityHistory
  WITH history <- transitions, open <- openLine, job <- writing, answer <- returned,
       interruptions <- cutShort, NoJob <- NoWriting, Transactional <- TRUE,
       Chains <- RegisteredChains, MaxInterruptions <- MaxCutShort

Reviewing == INSTANCE ReviewService
  WITH Keys <- PostKeys, Reports <- ReviewedReports, MaxCuts <- MaxAuditCuts

Releasing == INSTANCE ReleaseProof

Profiles == INSTANCE ClaimProfiles WITH Limit <- PageLimit

Bundling == INSTANCE OperationalBundles
  WITH Order <- BundleOrder, Specs <- BundleSpecs, Contents <- BundledContents, Extent <- BundledExtent,
       MaxReplacements <- MaxSourceChanges, MaxExports <- MaxBundleExports

Directory == INSTANCE WorkspaceTree
  WITH Names <- ExportNames, Contents <- ExportContents

-----------------------------------------------------------------------------
(* What the components promise.                                            *)

\* Native capture: counter and window agree with the journal, and the journal
\* never keeps a new process from starting.
FailuresMatchJournal == Capture!FailuresMatchJournal /\ Capture!JournalReplayable

\* Native capture: what was acknowledged is in the workspace, and what the
\* sink was given and could not take is journaled, unless the journal is full or
\* cannot be written; a callback that raises before it gives the sink anything
\* leaves nothing.
CapturesKept == Capture!AcknowledgedIsDurable /\ Capture!NothingLostSilently

\* Native capture: beside the runs under way, the window keeps only the starts
\* of runs whose callback raised, for good, and never that of a captured run.
StartsReleased == Capture!StartsReleased

\* Publication: what is certified was uploaded with the permitted bytes, and
\* observations are in the order of what was served.
PublicationSound ==
  Publication!PublishedBytesPermitted /\ Publication!ObservationsInOrder

\* Reliability history: what a call returned stays in the history.
AnswersInHistory == Register!AnswersInHistory

\* Reliability history: it implements the abstract register.
RegisterSpec == Register!RegisterSpec

\* Review service: the audit journal can be read back.
AuditReadable == Reviewing!AuditReadable

\* Review service: every statement was admitted on record, and keys,
\* statements and answers agree.
ReviewsAccounted == Reviewing!StatementsAudited /\ Reviewing!AnswersAgree

\* Release proofs: an approved report stands beside what was approved.
ApprovedSourcesPackaged == Releasing!ApprovedSourcesPackaged

\* Claim profiles: the contracts a profile needs are found where they are.
ContractsResolved == Profiles!ContractsResolved

\* Operational bundles: disclosure keeps to its ceiling, and what it writes
\* verifies.
DisclosureSound == Bundling!DisclosureSound

\* Workspace directory: a restore never loses the directory it replaces.
NoTreeLost == Directory!NoTreeLost

\* Workspace directory: a restored backup verifies, manifest and metadata row
\* name one identity, and exports agree with their rows and tombstones.
TreesVerify ==
  /\ Directory!RestoredBackupVerifies
  /\ Directory!RowNamesManifest
  /\ Directory!ExportsVerify
=============================================================================
