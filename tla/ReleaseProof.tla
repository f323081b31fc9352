------------------------------ MODULE ReleaseProof ------------------------------
(***************************************************************************)
(* build_release_proof: it verifies an evidence chain, has the outcome     *)
(* that attests it verified and packaged with its sources, and writes a    *)
(* report, which a second call turns into an approved one once a human has *)
(* approved the first.  Each file is read on its own, some of them several *)
(* times and by different parts of the call, while others replace them for *)
(* the next candidate, and approvals come and go.                          *)
(*                                                                         *)
(* A candidate is a version: the chain, the attestation and the sources of *)
(* one version belong together.  An attestation names a transition of the  *)
(* append-only reliability history, and that transition its chain, so the  *)
(* identity of an attestation fixes the digest of its chain.               *)
(***************************************************************************)
EXTENDS Integers

CONSTANTS
  Versions,          \* candidates
  First,             \* the one whose files are there initially
  NoReport,
  NoBundle,
  NoBuild,
  MaxReports,        \* bound: reports, told apart by generated_at
  MaxReplacements    \* bound: files replaced

\* Fields that stay the same when a report is generated again: the digest of
\* the chain, and of the verified outcome.
Reports == [number : 1..MaxReports, candidate : Versions, outcome : Versions]

Bundles == [chain : Versions, attestation : Versions, sources : Versions]

Steps == {"load", "verify", "attestation", "chain", "outcome", "gather", "attach",
          "enclose", "stage", "open", "export", "basis", "approval", "write"}

\* A call: the versions it has read so far, in the order of its steps.
Builds ==
  [step : Steps, reconcile : BOOLEAN,
   claimed : Versions,     \* the chain the claim profile is evaluated for
   attested : Versions,    \* the attestation that is verified
   chain : Versions,       \* the chain it is verified with
   bundle : Bundles,       \* what is staged for the bundle
   basis : Reports \union {NoReport},
   active : SUBSET (1..MaxReports)]   \* reports with an approval since it began

Releases == [report : Reports, candidate : Versions, bundle : Bundles,
             active : SUBSET (1..MaxReports)]

ConstantsAssumption ==
  /\ First \in Versions
  /\ MaxReports \in Nat \ {0}
  /\ MaxReplacements \in Nat
  /\ NoReport \notin Reports
  /\ NoBundle \notin Bundles
  /\ NoBuild \notin Builds

VARIABLES
  chainFile, attestationFile, sourceFiles,
  recorded,       \* versions whose transition is in the reliability history
  basisReport,    \* the report that requires human approval
  generated,       \* reports generated
  approved,       \* the numbers of the reports with an active approval
  bundleFile,     \* NoBundle: missing, or incomplete
  build,
  releases,       \* approved reports that were written, with their bundles
  replacements

inputVars == <<chainFile, attestationFile, sourceFiles, recorded, replacements>>
proofVars == <<inputVars, basisReport, generated, approved, bundleFile, build, releases>>

TypeOK ==
  /\ {chainFile, attestationFile, sourceFiles} \subseteq Versions
  /\ recorded \subseteq Versions
  /\ basisReport \in Reports \union {NoReport}
  /\ generated \in 0..MaxReports
  /\ approved \subseteq 1..MaxReports
  /\ bundleFile \in Bundles \union {NoBundle}
  /\ build \in Builds \union {NoBuild}
  /\ releases \subseteq Releases
  /\ replacements \in 0..MaxReplacements

Init ==
  /\ chainFile = First
  /\ attestationFile = First
  /\ sourceFiles = First
  /\ recorded = {First}
  /\ basisReport = NoReport
  /\ generated = 0
  /\ approved = {}
  /\ bundleFile = NoBundle
  /\ build = NoBuild
  /\ releases = {}
  /\ replacements = 0

-----------------------------------------------------------------------------
(* What others do meanwhile.                                               *)

\* The files of another candidate are put in place, one by one.
Replace ==
  /\ replacements < MaxReplacements
  /\ replacements' = replacements + 1
  /\ \E v \in Versions :
       \/ chainFile' = v /\ UNCHANGED <<attestationFile, sourceFiles, recorded>>
       \/ attestationFile' = v /\ UNCHANGED <<chainFile, sourceFiles, recorded>>
       \/ sourceFiles' = v /\ UNCHANGED <<chainFile, attestationFile, recorded>>
       \/ /\ recorded' = recorded \union {v}
          /\ UNCHANGED <<chainFile, attestationFile, sourceFiles>>
  /\ UNCHANGED <<basisReport, generated, approved, bundleFile, build, releases>>

\* A human approves a report, or revokes that.
Approve ==
  /\ \E n \in (1..generated) \ approved :
       /\ approved' = approved \union {n}
       /\ build' = IF build = NoBuild THEN build
                   ELSE [build EXCEPT !.active = @ \union {n}]
  /\ UNCHANGED <<inputVars, basisReport, generated, bundleFile, releases>>

Revoke ==
  /\ \E n \in approved : approved' = approved \ {n}
  /\ UNCHANGED <<inputVars, basisReport, generated, bundleFile, build, releases>>

-----------------------------------------------------------------------------
(* build_release_proof                                                     *)

At(step) == build # NoBuild /\ build.step = step
others == <<inputVars, basisReport, generated, approved, releases>>

Begin(reconcile) ==
  /\ build = NoBuild
  /\ build' =
       [step |-> "load", reconcile |-> reconcile, claimed |-> First,
        attested |-> First, chain |-> First,
        bundle |-> [chain |-> First, attestation |-> First, sources |-> First],
        basis |-> NoReport, active |-> approved]
  /\ UNCHANGED <<others, bundleFile>>

\* A check fails, a file cannot be read, or the process stops; files that
\* were written stay.
Abandon ==
  /\ build # NoBuild
  /\ build' = NoBuild
  /\ UNCHANGED <<others, bundleFile>>

LoadChain ==
  /\ At("load")
  /\ build' = [build EXCEPT !.step = "verify", !.claimed = chainFile]
  /\ UNCHANGED <<others, bundleFile>>

\* verify_reliability_evidence_chain and evaluate_claim_profile
VerifyChain ==
  /\ At("verify")
  /\ sourceFiles = build.claimed
  /\ build' = [build EXCEPT !.step = "attestation"]
  /\ UNCHANGED <<others, bundleFile>>

-----------------------------------------------------------------------------
(* build_reliability_proof_bundle                                          *)

LoadAttestation ==
  /\ At("attestation")
  /\ build' = [build EXCEPT !.step = "chain", !.attested = attestationFile]
  /\ UNCHANGED <<others, bundleFile>>

LoadChainAgain ==
  /\ At("chain")
  /\ build' = [build EXCEPT !.step = "outcome", !.chain = chainFile]
  /\ UNCHANGED <<others, bundleFile>>

\* Mutation: the transition is found, and not compared with the chain.
VerifyOutcomeUnbound ==
  /\ At("outcome")
  /\ build.attested \in recorded
  /\ sourceFiles = build.chain
  /\ build' = [build EXCEPT !.step = "gather"]
  /\ UNCHANGED <<others, bundleFile>>

\* verify_reliability_outcome: the attestation and its transition in the
\* history are bound to the chain, and the sources have its digests.
VerifyOutcome ==
  /\ At("outcome")
  /\ build.attested = build.chain
  /\ build.attested \in recorded
  /\ sourceFiles = build.chain
  /\ build' = [build EXCEPT !.step = "gather"]
  /\ UNCHANGED <<others, bundleFile>>

\* The sources are read for their sizes and digests.
GatherSources ==
  /\ At("gather")
  /\ sourceFiles = build.chain
  /\ build' = [build EXCEPT !.step = "attach"]
  /\ UNCHANGED <<others, bundleFile>>

\* attestation_path.read_bytes(), evidence_chain_path.read_bytes()
Attach ==
  /\ At("attach")
  /\ build' = [build EXCEPT !.step = "enclose", !.bundle.attestation = attestationFile]
  /\ UNCHANGED <<others, bundleFile>>

Enclose ==
  /\ At("enclose")
  /\ build' = [build EXCEPT !.step = "stage", !.bundle.chain = chainFile]
  /\ UNCHANGED <<others, bundleFile>>

\* The sources are read once more; build_bundle compares them with the
\* digests that were gathered.
StageSources ==
  /\ At("stage")
  /\ sourceFiles = build.chain
  /\ build' = [build EXCEPT !.step = "open", !.bundle.sources = sourceFiles]
  /\ UNCHANGED <<others, bundleFile>>

\* Mutation: the bundle is left for after the report.
OpenBundleOnly ==
  /\ At("open")
  /\ bundleFile' = NoBundle
  /\ build' = [build EXCEPT !.step = IF build.reconcile THEN "basis" ELSE "write"]
  /\ UNCHANGED others

\* export_bundle writes in place: what was there is gone, and there is no
\* complete bundle until it ends.
OpenBundle ==
  /\ At("open")
  /\ bundleFile' = NoBundle
  /\ build' = [build EXCEPT !.step = "export"]
  /\ UNCHANGED others

ExportBundle ==
  /\ At("export")
  /\ bundleFile' = build.bundle
  /\ build' = [build EXCEPT !.step = IF build.reconcile THEN "basis" ELSE "write"]
  /\ UNCHANGED others

-----------------------------------------------------------------------------
(* The report.                                                             *)

\* The approved basis is loaded; the report that was generated just now says
\* the same about the candidate.
CompareBasis ==
  /\ At("basis")
  /\ basisReport # NoReport
  /\ basisReport.candidate = build.claimed
  /\ basisReport.outcome = build.attested
  /\ build' = [build EXCEPT !.step = "approval", !.basis = basisReport]
  /\ UNCHANGED <<others, bundleFile>>

\* lifecycle_for_target: an approval of the basis is active.
FindApproval ==
  /\ At("approval")
  /\ build.basis.number \in approved
  /\ build' = [build EXCEPT !.step = "write"]
  /\ UNCHANGED <<others, bundleFile>>

\* write_verification_report
WriteBasis ==
  /\ At("write")
  /\ ~build.reconcile
  /\ generated < MaxReports
  /\ generated' = generated + 1
  /\ basisReport' = [number |-> generated + 1, candidate |-> build.claimed,
                     outcome |-> build.attested]
  /\ build' = NoBuild
  /\ UNCHANGED <<inputVars, approved, bundleFile, releases>>

WriteApproved ==
  /\ At("write")
  /\ build.reconcile
  /\ releases' = releases \union
       {[report |-> build.basis, candidate |-> build.claimed, bundle |-> bundleFile,
         active |-> build.active]}
  /\ build' = NoBuild
  /\ UNCHANGED <<inputVars, basisReport, generated, approved, bundleFile>>

Next ==
  \/ Replace \/ Approve \/ Revoke
  \/ \E reconcile \in BOOLEAN : Begin(reconcile)
  \/ Abandon \/ LoadChain \/ VerifyChain
  \/ LoadAttestation \/ LoadChainAgain \/ VerifyOutcome \/ GatherSources
  \/ Attach \/ Enclose \/ StageSources \/ OpenBundle \/ ExportBundle
  \/ CompareBasis \/ FindApproval \/ WriteBasis \/ WriteApproved

Spec == Init /\ [][Next]_proofVars
-----------------------------------------------------------------------------
(* Properties.                                                             *)

\* "fresh release-proof verification no longer matches the approved report
\* basis" is raised whenever it should be: an approved report is about the
\* candidate of the approved basis, by an approval that was active at some
\* time since the call began, and it stands beside a bundle with the sources
\* of the outcome that the basis reports, whatever files were replaced
\* between the reads.
ApprovedSourcesPackaged ==
  \A release \in releases :
    /\ release.candidate = release.report.candidate
    /\ release.bundle.sources = release.report.outcome
    /\ release.report.number \in release.active
=============================================================================
