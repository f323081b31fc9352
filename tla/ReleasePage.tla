------------------------------- MODULE ReleasePage -------------------------------
(***************************************************************************)
(* The release-trust page: one request reads a bundle, the files it lists, *)
(* the basis of its publication, the approvals of that basis, the permit   *)
(* and the receipt, each on its own and in this order, while the scripts   *)
(* of the release pipeline write them for one build after the other.       *)
(*                                                                         *)
(* A source may be built more than once, and two builds of it need not     *)
(* have the same bytes.  A bundle describes one build, so builds stand for *)
(* bundles, for their digests and for the bytes of their files.  Approvals *)
(* are those of the expected producer; HumanApproval has their lifecycle   *)
(* and RegistryPublication what the registry does afterwards.  Here a name *)
(* is uploaded once and keeps its bytes.                                   *)
(***************************************************************************)
EXTENDS Integers

CONSTANTS
  Sources,       \* source identities: distribution, version, revision, digest
  Artifacts,     \* file names of the distribution
  External,      \* tests, SBOM, scan, provenance and signature of a bundle
  Builds,        \* [source, number, limited]
  First,         \* the build whose files are there initially
  Configurations,  \* what is configured beside the bundle
  Nothing,       \* no file, no build, no request
  MaxIssued,     \* bound: permits and receipts, told apart by their times
  MaxChanges     \* bound: steps of the pipeline

Parts == {"root", "publication", "registry", "lifecycle"}
Names == Artifacts \union External

\* ReleaseTrustBundle: every kind of evidence is there, as a file with a
\* digest or, in `limited`, as a limitation that is spelled out.
Bundles == [source : Sources, number : Nat, limited : SUBSET External]

\* ReleasePublicationBasis.  It names a bundle when it was made from one.
Bases == [source : Sources, artifacts : [Artifacts -> Builds],
          bundle : Builds \union {Nothing}]

\* PublicationExecutionPermit; it lists what its basis lists.
Permits == [basis : Bases, issued : 1..MaxIssued]
Receipts == [permit : Permits, observed : 1..MaxIssued]

Steps == {"bundle", "content", "basis", "approvals", "permit", "receipt", "lifecycle",
          "answered"}
Requests ==
  [step : Steps, configured : SUBSET Parts, bundle : Builds \union {Nothing},
   checked : SUBSET Names, failed : SUBSET Names, basis : Bases \union {Nothing},
   authorized : BOOLEAN, permit : Permits \union {Nothing},
   receipt : Receipts \union {Nothing}]

ConstantsAssumption ==
  /\ Builds \subseteq Bundles
  /\ First \in Builds
  /\ Artifacts # {}
  /\ Artifacts \intersect External = {}
  /\ \A parts \in Configurations :
       /\ parts \subseteq Parts
       /\ "registry" \in parts => "publication" \in parts
       /\ "lifecycle" \in parts => "registry" \in parts
  /\ MaxIssued \in Nat
  /\ MaxChanges \in Nat
  /\ Nothing \notin Builds \union Bases \union Permits \union Receipts \union Requests

VARIABLES
  bundleFile, root,      \* the bundle, and the directory of the files it lists
  dist, candidate,       \* the directory to publish, the evidence of its source
  basisFile, permitFile, receiptFile,
  historyFile,           \* the receipt that its observations follow
  approved, active,      \* bases ever approved, and those that are now
  issuing,               \* the basis whose files the gate has compared
  uploaded,              \* registry: the bytes of each file of each version
  issued, changes,
  request

pipelineVars == <<bundleFile, root, dist, candidate, basisFile, permitFile, receiptFile,
                  historyFile, approved, active, issuing, uploaded, issued, changes>>
releaseVars == <<pipelineVars, request>>

TypeOK ==
  /\ bundleFile \in Builds
  /\ root \in [Names -> Builds \union {Nothing}]
  /\ dist \in [Artifacts -> Builds]
  /\ candidate \in Sources
  /\ basisFile \in Bases \union {Nothing}
  /\ permitFile \in Permits \union {Nothing}
  /\ {receiptFile, historyFile} \subseteq Receipts \union {Nothing}
  /\ active \subseteq approved /\ approved \subseteq Bases
  /\ issuing \in Bases \union {Nothing}
  /\ uploaded \in [Sources -> [Artifacts -> Builds \union {Nothing}]]
  /\ issued \in 0..MaxIssued /\ changes \in 0..MaxChanges
  /\ request \in Requests \union {Nothing}

Init ==
  /\ bundleFile = First
  /\ root = [n \in Names |-> IF n \in First.limited THEN Nothing ELSE First]
  /\ dist = [n \in Artifacts |-> First]
  /\ candidate = First.source
  /\ basisFile = Nothing /\ permitFile = Nothing /\ receiptFile = Nothing
  /\ historyFile = Nothing /\ issuing = Nothing /\ request = Nothing
  /\ approved = {} /\ active = {}
  /\ uploaded = [s \in Sources |-> [n \in Artifacts |-> Nothing]]
  /\ issued = 0 /\ changes = 0

-----------------------------------------------------------------------------
(* The release pipeline.                                                   *)

\* Files of another build are put in place.
ReplaceFiles ==
  \E b \in Builds :
    /\ \/ bundleFile' = b /\ UNCHANGED <<root, dist, candidate>>
       \/ /\ \E n \in Names : root' = [root EXCEPT ![n] = b]
          /\ UNCHANGED <<bundleFile, dist, candidate>>
       \/ dist' = [n \in Artifacts |-> b] /\ UNCHANGED <<bundleFile, root, candidate>>
       \/ candidate' = b.source /\ UNCHANGED <<bundleFile, root, dist>>
    /\ UNCHANGED <<basisFile, permitFile, receiptFile, historyFile, approved, active,
                   issuing, uploaded, issued>>

\* publication_basis_from_release_trust
BoundBasis == [source |-> bundleFile.source, artifacts |-> [n \in Artifacts |-> bundleFile],
               bundle |-> bundleFile]

\* create_publication_basis: the files of the directory, and the source that
\* the candidate evidence names.
DirectoryBasis == [source |-> candidate, artifacts |-> dist, bundle |-> Nothing]

CreateBasis ==
  /\ basisFile' \in {BoundBasis, DirectoryBasis}
  /\ UNCHANGED <<bundleFile, root, dist, candidate, permitFile, receiptFile, historyFile,
                 approved, active, issuing, uploaded, issued>>

\* record_publication_authorization
Authorize ==
  /\ basisFile # Nothing
  /\ approved' = approved \union {basisFile}
  /\ active' = active \union {basisFile}
  /\ UNCHANGED <<bundleFile, root, dist, candidate, basisFile, permitFile, receiptFile,
                 historyFile, issuing, uploaded, issued>>

\* revoke_publication_authorization
Revoke ==
  /\ basisFile \in active
  /\ active' = active \ {basisFile}
  /\ UNCHANGED <<bundleFile, root, dist, candidate, basisFile, permitFile, receiptFile,
                 historyFile, approved, issuing, uploaded, issued>>

\* verify_publication_artifacts, and the digest of the candidate evidence.
\* For a basis that was made from a bundle no evidence file is given.
CompareFiles ==
  /\ basisFile # Nothing
  /\ dist = basisFile.artifacts
  /\ basisFile.bundle = Nothing => candidate = basisFile.source
  /\ issuing' = basisFile
  /\ UNCHANGED <<bundleFile, root, dist, candidate, basisFile, permitFile, receiptFile,
                 historyFile, approved, active, uploaded, issued>>

\* The rest of issue_publication_execution_permit, and the file.
IssuePermit ==
  /\ issuing # Nothing
  /\ issued < MaxIssued
  /\ issuing \in active
  /\ permitFile' = [basis |-> issuing, issued |-> issued + 1]
  /\ issued' = issued + 1
  /\ issuing' = Nothing
  /\ UNCHANGED <<bundleFile, root, dist, candidate, basisFile, receiptFile, historyFile,
                 approved, active, uploaded>>

\* The external publisher uploads one of the files as it is now.
Upload ==
  /\ permitFile # Nothing
  /\ \E n \in Artifacts :
       /\ uploaded[permitFile.basis.source][n] = Nothing
       /\ uploaded' = [uploaded EXCEPT ![permitFile.basis.source][n] = dist[n]]
  /\ UNCHANGED <<bundleFile, root, dist, candidate, basisFile, permitFile, receiptFile,
                 historyFile, approved, active, issuing, issued>>

\* Mutation: the receipt is written for whatever the registry serves.
WriteAnyReceipt ==
  /\ basisFile # Nothing /\ permitFile # Nothing
  /\ issued < MaxIssued
  /\ permitFile.basis = basisFile
  /\ \A n \in Artifacts : uploaded[basisFile.source][n] # Nothing
  /\ receiptFile' = [permit |-> permitFile, observed |-> issued + 1]
  /\ issued' = issued + 1
  /\ UNCHANGED <<bundleFile, root, dist, candidate, basisFile, permitFile, historyFile,
                 approved, active, issuing, uploaded>>

\* reconcile_registry_publication, write_registry_publication_receipt
WriteReceipt ==
  /\ basisFile # Nothing /\ permitFile # Nothing
  /\ issued < MaxIssued
  /\ permitFile.basis = basisFile
  /\ uploaded[basisFile.source] = basisFile.artifacts
  /\ receiptFile' = [permit |-> permitFile, observed |-> issued + 1]
  /\ issued' = issued + 1
  /\ UNCHANGED <<bundleFile, root, dist, candidate, basisFile, permitFile, historyFile,
                 approved, active, issuing, uploaded>>

\* verify_registry_publication_receipt, with the binding of the permit
Reconciled(receipt, basis, permit) ==
  /\ permit.basis = basis
  /\ receipt.permit = permit

\* An observation is appended behind the receipt that the script has loaded.
Observe ==
  /\ basisFile # Nothing /\ permitFile # Nothing /\ receiptFile # Nothing
  /\ Reconciled(receiptFile, basisFile, permitFile)
  /\ historyFile \in {Nothing, receiptFile}
  /\ historyFile' = receiptFile
  /\ UNCHANGED <<bundleFile, root, dist, candidate, basisFile, permitFile, receiptFile,
                 approved, active, issuing, uploaded, issued>>

PipelineMoves ==
  /\ changes < MaxChanges
  /\ changes' = changes + 1
  /\ \/ ReplaceFiles \/ CreateBasis \/ Authorize \/ Revoke \/ CompareFiles
     \/ IssuePermit \/ Upload \/ WriteReceipt \/ Observe
  /\ UNCHANGED request

-----------------------------------------------------------------------------
(* The request.                                                            *)

Reading(step) == request # Nothing /\ request.step = step
Configured(part) == part \in request.configured
Proceed(r) == request' = r /\ UNCHANGED pipelineVars

\* The files of a bundle that are looked for.
Listed(bundle) == Names \ bundle.limited

Begin ==
  /\ request = Nothing \/ Reading("answered")
  /\ \E parts \in Configurations :
       Proceed([step |-> "bundle", configured |-> parts, bundle |-> Nothing,
                checked |-> {}, failed |-> {}, basis |-> Nothing, authorized |-> FALSE,
                permit |-> Nothing, receipt |-> Nothing])

\* A file is missing, was just being written, is refused by a check, or does
\* not fit the ones before it.
Refuse ==
  /\ request # Nothing
  /\ ~Reading("answered")
  /\ Proceed(Nothing)

ReadBundle ==
  /\ Reading("bundle")
  /\ Proceed([request EXCEPT !.step = "content", !.bundle = bundleFile])

\* verify_release_trust_files reads the files one after the other; a missing
\* or different one is reported.
CheckFile ==
  /\ Reading("content")
  /\ Configured("root")
  /\ \E n \in Listed(request.bundle) \ request.checked :
       Proceed([request EXCEPT
                  !.checked = @ \union {n},
                  !.failed = IF root[n] = request.bundle THEN @ ELSE @ \union {n}])

ContentDone ==
  /\ Reading("content")
  /\ Configured("root") => request.checked = Listed(request.bundle)
  /\ Proceed([request EXCEPT
                !.step = IF Configured("publication") THEN "basis" ELSE "answered"])

\* Mutation: the basis is compared by its source alone.
SameSource(basis, bundle) == basis.source = bundle.source

\* The basis is about the source of the bundle, and about the bundle itself
\* when it names one.
Describes(basis, bundle) ==
  /\ basis.source = bundle.source
  /\ basis.bundle \in {Nothing, bundle}

ReadBasis ==
  /\ Reading("basis")
  /\ basisFile # Nothing
  /\ Describes(basisFile, request.bundle)
  /\ Proceed([request EXCEPT !.step = "approvals", !.basis = basisFile])

\* resolve_publication_authorization
Resolve ==
  /\ Reading("approvals")
  /\ Proceed([request EXCEPT
                !.authorized = request.basis \in active,
                !.step = IF Configured("registry") THEN "permit" ELSE "answered"])

ReadPermit ==
  /\ Reading("permit")
  /\ permitFile # Nothing
  /\ Proceed([request EXCEPT !.step = "receipt", !.permit = permitFile])

ReadReceipt ==
  /\ Reading("receipt")
  /\ receiptFile # Nothing
  /\ Reconciled(receiptFile, request.basis, request.permit)
  /\ Proceed([request EXCEPT
                !.receipt = receiptFile,
                !.step = IF Configured("lifecycle") THEN "lifecycle" ELSE "answered"])

\* RegistryPublicationLifecycleStore.read, with what was loaded before; a
\* history of another receipt is refused.
ReadHistory ==
  /\ Reading("lifecycle")
  /\ historyFile \in {Nothing, request.receipt}
  /\ Proceed([request EXCEPT !.step = "answered"])

RequestMoves ==
  \/ Begin \/ Refuse \/ ReadBundle \/ CheckFile \/ ContentDone \/ ReadBasis \/ Resolve
  \/ ReadPermit \/ ReadReceipt \/ ReadHistory

Next == PipelineMoves \/ RequestMoves

Spec == Init /\ [][Next]_releaseVars
-----------------------------------------------------------------------------
(* Properties.                                                             *)

\* "release_published" is shown for the bundle beside it: the registry has
\* files for that version, they have the bytes of a basis that a human had
\* approved, and when the basis names its bundle they are the files of the
\* bundle that is shown, whatever the pipeline wrote while the page was made.
ReleasesAsShown ==
  /\ Reading("answered")
  /\ Configured("registry")
  => /\ uploaded[request.bundle.source] = request.basis.artifacts
     /\ request.basis \in approved
     /\ request.basis.bundle # Nothing =>
          uploaded[request.bundle.source] = [n \in Artifacts |-> request.bundle]
=============================================================================
