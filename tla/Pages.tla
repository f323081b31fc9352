--------------------------------- MODULE Pages ---------------------------------
(***************************************************************************)
(* What is handed out about an agent, with what it is made of, side by     *)
(* side: portable proofs, the checkpoints that anchor a history, and pages *)
(* of the read interface: the attestation trust page, requests that read   *)
(* the evidence workspace, the page of an assurance decision, the incident *)
(* pages, and the page of a release.  Each is an instance with parameters  *)
(* of its own, and this module says what each of them promises; MCRecords  *)
(* checks it on small instances, and Pages_proofs proves it for all.       *)
(***************************************************************************)

CONSTANTS
  \* portable proofs
  ProofPlans, FirstFiles, EarlierTransitions, RewritableFiles, NoFile, NoRef, PackageExtents,
  LibraryLimits, ScriptLimits, MaxRewrites, MaxProofTransitions, MaxTears,
  \* checkpoints
  Anchorers, CheckpointIds, AnchoredRecords, NoPublication, NoCheckpoint,
  MaxAnchoredRecords, MaxAnchorTime,
  \* trust page
  Publishers, Signers, Ids, TrustKeys, Signed, Shown, NoDigest, NoState, NoKey, NoSigning,
  NoView, MaxTrustCuts,
  \* requests that read the evidence workspace
  Ingesters, Deliveries, DirectDeliveries, Times, ReportPayloads, NamedSources, Absent,
  NoClient, NoRun, NoLimit, NoCall, NoReader, MaxCrashes, MaxSweeps, MaxReceipts,
  \* page of an assurance decision
  Assured, Risks, FirstInputs, LaterInputs, MaxAssuranceTime, Nothing,
  \* incident pages
  Incidents, NoRecovery, NoWrite, NoViewer, MaxShown, MaxIncidents, MaxIncidentTime,
  \* release page
  Built, BuiltFiles, External, Builds, FirstBuild, ShownParts, MaxIssued, MaxReleaseChanges

VARIABLES
  root, draft, chainFile, transitions, cut, attestationFile, signed, revoked,
  sender, bundle, rewrites, tears,
  records, now, anchored, staged, publication, acknowledged, crossed,
  states, current, publishing, ledger, signing, phase, trustCuts, view,
  artifacts, receipts, rows, runs, retention, tombstones, unrecorded, lock,
  step, calling, temps, crashes, sweeps, reader, passing, lasting,
  decisionFile, exceptionFile, loaded, decisionTime, page,
  incidentFile, incidentTime, reporting, mishaps, viewer,
  trustBundle, releaseRoot, dist, candidate, basisFile, permitFile, receiptFile,
  historyFile, approvedBases, active, issuing, registryFiles, issued, releaseChanges,
  request

bundleVars == <<root, draft, chainFile, transitions, cut, attestationFile, signed,
                revoked, sender, bundle, rewrites, tears>>
anchorVars == <<records, now, anchored, staged, publication, acknowledged, crossed>>
trustVars == <<states, current, publishing, ledger, signing, phase, trustCuts, view>>
evidenceVars == <<artifacts, receipts, rows, runs, retention, tombstones,
                  unrecorded, lock, step, calling, temps, crashes, sweeps, reader, passing, lasting>>
assuranceVars == <<decisionFile, exceptionFile, loaded, decisionTime, page>>
incidentVars == <<incidentFile, incidentTime, reporting, mishaps, viewer>>
releaseVars == <<trustBundle, releaseRoot, dist, candidate, basisFile, permitFile,
                 receiptFile, historyFile, approvedBases, active, issuing,
                 registryFiles, issued, releaseChanges, request>>

Proving == INSTANCE ProofBundle
  WITH Plans <- ProofPlans, Start <- FirstFiles, Earlier <- EarlierTransitions,
       Rewritable <- RewritableFiles, Extents <- PackageExtents,
       MaxTransitions <- MaxProofTransitions

Anchoring == INSTANCE TrustAnchors
  WITH Publishers <- Anchorers, Ids <- CheckpointIds, Records <- AnchoredRecords,
       MaxRecords <- MaxAnchoredRecords, MaxTime <- MaxAnchorTime

Viewing == INSTANCE TrustView
  WITH Keys <- TrustKeys, history <- states, job <- signing, interruptions <- trustCuts,
       NoJob <- NoSigning, Configurations <- Shown, MaxInterruptions <- MaxTrustCuts

Serving == INSTANCE WorkspaceReaders
  WITH pc <- step, job <- calling, NoJob <- NoCall, Clients <- Ingesters,
       Reports <- ReportPayloads, Sources <- NamedSources

Deciding == INSTANCE AssuranceDecisions
  WITH now <- decisionTime, Subjects <- Assured, First <- FirstInputs,
       Inputs <- LaterInputs, MaxTime <- MaxAssuranceTime

Incident == INSTANCE IncidentEvidence
  WITH file <- incidentFile, now <- incidentTime, writing <- reporting,
       Reports <- Incidents, MaxRecords <- MaxIncidents, MaxTime <- MaxIncidentTime

Release == INSTANCE ReleasePage
  WITH bundleFile <- trustBundle, root <- releaseRoot, approved <- approvedBases,
       uploaded <- registryFiles, changes <- releaseChanges, Sources <- Built,
       Artifacts <- BuiltFiles, First <- FirstBuild, Configurations <- ShownParts,
       MaxChanges <- MaxReleaseChanges

-----------------------------------------------------------------------------
(* What they promise.                                                      *)

\* Proofs: what is handed over is what its receiver accepts, within its limits.
HandedProofsHold == Proving!HandedProofsHold

\* Proofs: the library and the independent script answer alike, but for limits.
VerifiersAgree == Proving!VerifiersAgree

\* Anchors: what publish returned for stays, and a latest one can be read.
AcknowledgedAnchored == Anchoring!AcknowledgedAnchored

\* Trust and assurance pages: what is said is so, and each refusal has a reason.
TrustPagesSound ==
  Viewing!PagesSound /\ Viewing!RefusalsExplained /\ Deciding!AssuranceSound

\* Workspace: a verification reports what is so, and all that stays so.
VerificationSound == Serving!VerificationSound

\* Workspace: a page fails for deletions only, and a trace is complete.
WorkspacePagesSound == Serving!WorkspacePagesSound

\* Incidents: paging by offset leaves nothing out that did not move.
PagesComplete == Incident!PagesComplete

\* Incidents: no page is behind another, and each refusal has its reason.
PagesOrderly == Incident!PagesOrderly

\* Releases: what is shown as published is what is shown.
ReleasesAsShown == Release!ReleasesAsShown
=============================================================================
