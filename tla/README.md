# StateWake in TLA+

TLA+ specifications of StateWake's durable stores, of the operations that span
several of them, and of the pages and verifiers that read them; TLC
configurations that check them on small instances; and TLAPS proofs that hold
for every value of the constants. Paths below are relative to
`src/src/statewake/` unless they start with `src/`.

StateWake is a library, a set of release scripts and two small HTTP interfaces
over one local directory. It runs no cluster and sends no messages. What makes
it hard is that several processes share that directory, that each operation
touches several files and tables in turn, that a process may stop between any
two of them, that producers deliver the same event again, that an external
signer or registry is called between a read and the write that relies on it,
and that most of what a read answers is worked out anew from an immutable
history which the writers must keep readable.

## 1. The system

| Component | State it keeps | Operations | What makes it correct | Module |
|---|---|---|---|---|
| Artifacts, receipts, index (`adapters/content_store.py`, `adapters/evidence_ingestion.py`, `workspace/integration.py`) | payload files, `receipts/<id>.json`, SQLite tables | ingestion by the facade or by an adapter directly | a payload is published whole; an identity is bound to one content; a row repeats its durable receipt | `EvidenceWorkspace` |
| Retention and deletion (`workspace/lifecycle.py`) | requirements, legal holds, tombstones | `apply_retention`, `delete_expired_record` | only expired and unheld evidence goes; its history stays | `EvidenceWorkspace` |
| Workspace directory (`workspace/workspace.py`, `backup.py`, `restore.py`, `lifecycle.py`) | manifest, schema, exports, backup | create, open, upgrade, export, back up, restore | a restore never loses the directory it replaces; what it installs verifies | `WorkspaceTree` |
| Verification, sweep, trace, catalog, governance page (`workspace/verification.py`, `integrity_sweep.py`, `read_api.py`) | none | unlocked scans | what is reported was so; pages fail for deletions only | `WorkspaceReaders` |
| Reliability history (`adapters/reliability_state.py`, `services/reliability_state_service.py`) | digest-linked transitions in JSONL or SQLite | read, transition | chains follow the state machine and stay readable; answers are kept | `ReliabilityHistory` |
| Evidence chains, outcome verification, proof bundles (`services/operations_service.py`, `services/reliability_proof_bundle_service.py`) | chain, graph, attestation and bundle files | build, verify, attest, package, verify elsewhere | what the sender hands over its receiver accepts; both verifiers agree | `EvidenceChain`, `ProofBundle` |
| Human approval (`adapters/human_approval.py`) | approval and revocation receipts | `append`, `revoke`, projection | an approval ends at most once; accepted calls leave a readable history | `HumanApproval` |
| Publication authorization and release trust (`release_trust/`, `src/scripts/release/`) | bundle, basis, permit, receipt and observation files | authorize, issue, reconcile, observe | permits name effective approvals; receipts mean that the permitted bytes are served | `HumanApproval`, `ReleasePage`, `RegistryPublication` |
| Release proofs (`services/release_proof_service.py`) | report and bundle files | `build_release_proof` in two calls | an approved report stands beside what was approved | `ReleaseProof` |
| Attestation trust and outcome attestations (`adapters/attestation_trust_history.py`, `services/trust_service.py`, `services/reliability_attestation_service.py`) | chained trust states, the current-state file, chained attestations | publish, attest, verify, show | what was verifiable stays so; what `append` accepts a read accepts | `TrustHistory`, `TrustedAttestations`, `TrustView` |
| Trust anchors (`adapters/trust_anchor.py`) | checkpoint files | publish, read the latest | what publish returned for stays, and there is a latest | `TrustAnchors` |
| Review service (`review_api.py`, `adapters/review_statement.py`, `security_audit.py`, `deployment_security.py`) | audit journal, statement store | authenticated writes with idempotency keys | every statement is audited; a key names one statement | `ReviewService` |
| Native capture (`integrations/native_*.py`) | window, failure window, counter, failure journal | callbacks, drain, restart | what the sink was given is persisted or journaled | `NativeCapture` |
| Incidents (`adapters/incident_evidence.py`, `presentation/incident_investigation.py`) | JSONL store | append, portfolio by offset | nothing that did not move is left out; no page is behind another | `IncidentEvidence` |
| AI contracts and claim profiles (`services/reliability_claim_profile_service.py`, `integrations/base.py`) | index rows and payloads | evaluate a chain against a profile | a persisted contract is found where it is | `ClaimProfiles` |
| Operational bundles (`services/operations_service.py`, `domain/operations.py`) | bundle files | build, export to a ceiling, verify | disclosure keeps its ceiling and what it writes verifies | `OperationalBundles` |
| Assurance decisions (`domain/assurance_operations.py`, `services/assurance_decision_service.py`) | decision and exception files | evaluate, replay, except, show | what the policy decided replays; refusals have a reason | `AssuranceDecisions` |
| Other services, CLI, reports, validation study | none of their own | assessments, projections, routing | pure functions of the stores | - |

How they interact. The workspace facade holds
`locks/workspace.operations.lock` over an ingestion, a retention change, a
deletion, opening and backup. The SDK client, first-party adapters, native
capture and the approval store write artifacts and receipts *without* that
lock; so do all readers. The publication gate compares files without a lock
and then asks for the approvals. A reliability transition reads the state in
one locked call and appends in another. Trust states are appended under a lock
and replace the current-state file outside it; a signer is handed that file,
reads the tip of the attestations, calls an external signer, and appends. The
verifier of a proof reads the same files in up to three places. The
release page reads seven sources one after the other.

The hard behaviours, each with its line, are the `hazards` of `PROJECT.json`.

## 2. What is modelled

Each module has one action per step that another process can observe; what the
code holds a lock over, or does in one SQLite transaction, is one action. A
value that the code tells apart only by equality is a model value or a small
record, and a digest is what it is taken of. History variables and fields that
no guard reads are commented as such where they are declared.

### 2.1 Evidence workspace: `EvidenceLedger`, `EvidenceWorkspace`, `WorkspaceReaders`, `WorkspaceTree`

`EvidenceLedger` is the promise without files: an identity is bound once
(`Admit`), a row projects admitted content and never changes (`Index`), a
tombstone is written once for an indexed record (`Retire`).

| State of `EvidenceWorkspace` | Code | Actions | Code |
|---|---|---|---|
| `artifacts` | files under `artifacts/` | `BeginIngest` / `BeginDirectIngest` | `StateWakeWorkspace.ingest` / `LocalEvidenceIngestionAdapter.ingest_bytes` |
| `receipts` | `receipts/<id>.json` | `FindArtifact`, `StageArtifact`, `LinkArtifact` | `ContentAddressedArtifactStore.put`: exists, temporary, `os.link` |
| `rows`, `runs` | tables `records`, `runs` | `CheckArtifact` | `_assert_existing_artifact` |
| `retention` | table of requirements | `FindReceipt`, `StageReceipt`, `LinkReceipt` | `JsonEvidenceReceiptStore.put` |
| `tombstones` | table of deletions | `IndexRecord`, `IngestFails` | `index_record`; the exceptions on the way |
| `lock` | `WorkspaceOperationLock` | `ApplyRetention` | `apply_retention` |
| `temps` | `*.tmp` files not yet linked | `BeginDelete`, `UnlinkArtifact`, `RecordDeletion` | `delete_expired_record` |
| `pc`, `job` | a call of a client | `Recover`, `Crash` | `recover()`; the end of a process |

A delivery is a record of what the code's decisions depend on: identity,
payload, instant captured, run, producer authority, sensitivity.
`RecordDeletion` comes after the unlink and has two outcomes: the tombstone is
written, or building or inserting it raises (a blank reason, an error of the
database, a second tombstone), with the payload gone. The history variable
`unrecorded` holds the records whose deletion ended there, by such an exception
or by a stop.

`WorkspaceReaders` extends it with one request that takes no lock (`reader`):
the claim catalog (`BeginCatalog`, `ListReceipts`, `ReadClaim`), the evidence
trace (`BeginTrace`, `AdmitSource`, `Hydrate`), the governance page
(`BeginGovernance`, `ReadRecord`, `ReadRetention`, `ReadTombstone`), an index
query, `verify()` (`SelectRetention`, `SelectDeletions`, `VerifyRecord`) and
the sweep (`FindPayload`, `OpenPayload`). `passing` and `lasting` are history
variables: what a verification at one instant would have found at some and at
every instant of the request.

`WorkspaceTree` is the directory as a whole: creation and opening step by
step (`OpenManifest`, `OpenTables`, `StampVersion`, `OpenMetadata`), exports
with their retention and deletion, `BackUp`, and a restore in its renames
(`MoveAside`, `MoveIn` or `MoveBack`, `RemovePrevious`, `VerifyRestored`), any
of which `Stop` may follow; `Upgrade` installs another package version.

### 2.2 Reliability history: `ReliabilityRegister`, `ReliabilityHistory`

`ReliabilityRegister` is one current state per subject that moves along
`ALLOWED_TRANSITIONS`. `ReliabilityHistory` has a call of
`transition_reliability_state` in its two locked halves: `Request`, then
`Reread` (the shortcut for a chain that already produced the current state) or
one of `AppendFinds`, `AppendRefused`, `AppendWrites`. `Transactional` chooses
the SQLite or the JSONL store. On the JSONL store an interrupted write leaves
an incomplete line (`TearLine`) or a complete record without its newline
(`LeaveLineOpen`), and every read repairs the tail first (`ReadStore`). A
digest is a `Mark`: position and content. Only the last line is ever lost, so
marks are equal exactly if digests are.

### 2.3 Proofs: `EvidenceChain`, `ProofBundle`, `ReleaseProof`

`EvidenceChain` has the pure part, translated from `operations_service.py` and
the domain types: what a chain refers to, which references a plan of evidence
requires, how comparison, reconciliation, binding, receipt and basis are
derived from files, and what `verify` compares (with the walk along provenance,
a recursive function). `ProofBundle` is the life of one proof: `StartChain` and
`FinishChain` are the two readings of a build (`chain_id` covers the first
one, the references the second), `Transit` records the transition, `Attest` the outcome,
`Load`, `Verify`, `Trace`, `Gather`, `Package` and `Hand` are the sender's
readings, and `LibraryAccepts` and `ScriptAccepts` are the receiver's two
programs (`verify_proof_bundle` and
`src/scripts/security/verify_reliability_proof_portability.py`). Files are
rewritten, withdrawn and torn in between. Each receiver first measures the
archive (`Within`): the library admits a file of 64 MiB that unpacks to
128 MiB, with at most 256 members, compressed at most 100 times; the script
admits a file of 1 MiB that unpacks to 16 MiB, and bounds the bytes, nodes,
depth and strings of its JSON documents as well, and refuses repeated keys. The
sender has none of these limits, so a package may have any of `Extents`.

`ReleaseProof` is `build_release_proof` for two candidates whose files are
replaced between any two of its readings, first without an approval
(`WriteBasis`) and then with one (`CompareBasis`, `FindApproval`,
`WriteApproved`).

### 2.4 Approvals and publication: `ApprovalLifecycle`, `HumanApproval`, `ReleasePage`, `RegistryPublication`

`ApprovalLifecycle` is one status per approval: it becomes active once and
ends at most once, by revocation or by a replacement that becomes active in the
same step. `HumanApproval` keeps only the immutable receipts; `Approve` and
`Revoke` are one step each, since the code holds `.human-approval.lock` over
reading, deciding and writing. What the writers check (`Ends`, `Duplicate`,
`KeyUnused`) and what every projection checks (`ValidSupersession`,
`ValidRevocation`) are translated from their own lines; that the first keep the
second true is a theorem. Every call and every projection first counts the
receipts in the directory (`Scannable`) and raises above `max_receipts`; that is
before the write, so a call that is accepted at the limit goes one past it, and
from then on nothing `Answers`. The gate is `CallGate` and `IssuePermit` or
`GateRaises`.

`ReleasePage` follows the files of a release from bundle and directory over
basis (made from a bundle, `BoundBasis`, or from a directory,
`DirectoryBasis`), approvals, the comparison of files, permit, upload, receipt
and observations, for one build after the other, while the release-trust page
reads them in its order. `RegistryPublication` is what comes after the permit:
the script that reads the registry back until it serves the permitted files
(`ReadIndex`, `Download`, `Retry`, `WriteReceipt`) and the one that appends
observations of its later state, several callers at a time, while files are
uploaded, deleted and yanked.

### 2.5 Attestation trust: `KeyLifecycle`, `TrustHistory`, `TrustedAttestations`, `TrustView`, `TrustAnchors`

`KeyLifecycle` is what is promised about keys: a revoked key stays revoked, a
superseded one stays superseded by the same key, material never changes.
`TrustHistory` is the append under its lock (`Appendable`) and the replacement
of the current-state file after it; `Readable` is what the reader checks.
`TrustedAttestations` composes it with signers: `StartSigned` loads the state
and the tip, `Build` follows the external signer's answer, `Record` appends
outcome and binding in one write. `TrustView` composes both with the
attestation trust page, which reads its sources in turn. `TrustAnchors` are
checkpoints of a history: `Prepare`, `Sign`, `Check`, `Stage`, `Replace`.

The JSONL stores without tail repair share `LineFile`: a file is the sequence
of its complete records and how it ends (after a newline, open, or spoiled).

### 2.6 Review service: `ReviewService`

A request is admitted with an audit record (`Admit`), looks for an earlier
statement under its key (`Replay`), is rejected with or without an audit
record, or appends its statement; answers may be lost, appends cut off, and
requests are served side by side. Digest chains are positions.

### 2.7 Native capture: `NativeCapture`

The callbacks of runs (`AdmitStart` ... `Finish`) and spans (`EndSpan` ...
`LeaveSpan`). What a callback hands to the sink is accepted, refused with an
error that its handler names, or never built, since an exception that no handler
names escaped (`AddResult`, phase "escaped"). Then the sink that persists before
it acknowledges, its bounded windows and counter, the journal and its size
limit, `Drain`, `Crash` and `Restart`, which replays the journal.

### 2.8 Incidents, claim profiles, operational bundles, assurance decisions

`IncidentEvidence`: reporters append under the store's lock; a viewer pages by
offset over readings of the whole file (`ReadPage`). `ClaimProfiles`:
the built-in profiles, the structural conditions on a chain, and an evaluation
whose pages are a `CountRows` and a `SelectPage` each. `OperationalBundles`:
building from files, disclosure up to a ceiling, and verification in four
steps, each with the file as it is then (`MeasureBundle`, `ReadManifest`,
`BuildGraph`, `CompareDigest`), while sources and the file itself are replaced.
The limits of the verifier (`SmallEnough`, `WithinEnvelope`) depend on how large
what is bundled is packed and unpacked (`Extent`). `AssuranceDecisions`: the policy's
rules, the replay that `load_assurance_decision` does, exceptions bound to a
decision, and the page that reads both files.

## 3. What the runs check

Components that share no state are checked in one run each side by side: the
initial state chooses a *focus*, one instance of one module, and the other
variables never change. `Components` and `Pages` compose the components: each is
an instance with variables and parameters of its own, and they say what it
promises. `MCComponents` and `MCRecords` give the parameters values, and a focus
restricts the instance's next-state relation where its values would make it too
large. `MCRecords` has further instances of `ProofBundle`, with the same
variables and other parameters, one for each kind of proof.

Passing runs:

| Run | Shows |
|---|---|
| `workspace_own_content` | rows repeat durable receipts (`RowsMatchReceipts`), runs have one authority (`RunsHaveOneProducer`), a missing payload is explained by a tombstone, by a deletion under way, or by one that raised or stopped after the unlink (`PayloadAccountedUnlessInterrupted`), holds are kept (`HeldEvidenceKept`), removals follow the requirement in force when they happen (`DeletionFollowsPolicy`), and the workspace implements `EvidenceLedger` |
| `workspace_liveness` | the operation lock is always released (`LockReleased`); redelivery completes an ingestion that stopped after its receipt (`RedeliveryCompletesIngest`); with one producer, so that the refusal of a run of another authority is not met here but in the run above |
| `approvals` | a projection raises only once the directory holds more than `max_receipts`, and accepted calls go at most one past it (`ThreadsProjectable`), actors approve once (`OneActivePerActor`), permits name no approval that had ended at the call (`PermitsNameEffective`), the store implements `ApprovalLifecycle` |
| `components` | sixteen instances, next table |
| `records` | fifteen instances, the table after it |

Instances of the first three: `workspace_own_content` has 2 clients, 4
deliveries of 2 identities (a redelivery with another instant, one with another
sensitivity, a second producer in the same run), 2 of them also by the unlocked
route, 2 instants, 1 crash and 1 sweep. `workspace_liveness` has 2 clients, one
event and its later redelivery by either route, 1 crash and 1 sweep.
`approvals` has 4 keys, 2 bases, 2 actors, 2 authorities, a limit of 3
receipts, 1 unrelated receipt, 1 publisher and a clock of 2 instants.

`components`:

| Focus | Instance | Properties |
|---|---|---|
| `publishing` | 2 publishers race through 10 signed trust states, some of which may not follow the state they name, one signer follows, 1 interrupted write | `HistoryReadable`, `KeyLifecycleSpec`, `BindingsVerify`, `VerifiedStaysVerifiable` |
| `signing` | 2 signers race for 2 outcomes while their key is revoked | `LedgerSound`, `BindingsVerify`, `VerifiedStaysVerifiable` |
| `callbacks`, `processes` | 2 runs, windows of 1 and a journal of 2 lines; a run and a span with a failing journal write and a restart | `CapturesKept`, `FailuresMatchJournal`, `StartsReleased` |
| `exports`, `stops`, `restores` | one workspace with an export, its backup and restore; with an upgrade and a stop; two workspaces restored over each other | `TreesVerify`, `NoTreeLost` |
| `observers`, `downloads` | 2 callers and 1 file; 1 caller, 2 files, a clock and an append that is cut off | `PublicationSound` |
| `register` | SQLite store, 2 clients, 2 actors, 5 chains, 3 transitions, 1 interruption | `AnswersInHistory`, `RegisterSpec` |
| `reviewing`, `interrupting`, `correcting` | 2 of 3 requests side by side under one key; 2 with a cut; 3 in a row from 2 authors under 2 keys | `ReviewsAccounted` |
| `releasing` | 2 candidates, 3 replacements of files | `ApprovedSourcesPackaged` |
| `profiles` | 3 contracts, pages of 2, 3 profile identities | `ContractsResolved` |
| `bundling` | 3 artifacts, one with the name of the bundle's own node, every provenance between two of them, contents that are small, big and dense, 2 ceilings, 1 replacement, 2 exports | `DisclosureSound` |

`records`:

| Focus | Instance | Properties |
|---|---|---|
| `history` | JSONL store, 2 clients, 2 subjects, 2 chains, 2 transitions, 2 interruptions | `ChainsWellFormed`, `ValidRecordsKept` |
| `plain`, `returning`, `torn`, `comparing`, `basing`, `recovering` | one proof each: of a review, of a review whose integrity report is exchanged and brought back (3 rewrites), over a torn history, with a comparison and binding, with a prepared basis, of a recovery after a failure; 1 or 2 rewrites; the packages of `comparing` also beyond the script's limits (packed, or in their JSON) and beyond the library's | `HandedProofsHold`, `VerifiersAgree` |
| `anchoring`, `extending` | 2 publishers on one history; 1 publisher on a history that is extended and truncated | `AcknowledgedAnchored` |
| `viewing` | 1 publisher, 1 signer, 2 trust states, 4 configurations of sources, 1 interruption | `TrustPagesSound` |
| `reading`, `governing` | a report and its source, one client that delivers and one that deletes, 1 crash; one report whose retention is applied anew | `VerificationSound`, `WorkspacePagesSound` |
| `incidents` | reports of 2 incidents, 4 records, 1 mishap | `PagesComplete`, `PagesOrderly` |
| `releasing` | 3 builds of 2 sources, 2 issued bases or permits, 7 changes | `ReleasesAsShown` |
| `deciding` | every input of the policy, then one of two others; 1 request | `TrustPagesSound` (its part `AssuranceSound`) |

Runs in which TLC finds what the code does against what the repository says
(`findings` in `PROJECT.json` gives the lines):

| Run | Said | Done |
|---|---|---|
| `workspace_held_shared` | a legal hold prevents deletion of held evidence (`src/docs/operations/OPERATIONS_STATE_RECOVERY.md:73`) | holds are per record, payloads are shared by content: deleting an expired record removes the payload of a held one with the same bytes |
| `workspace_delete_crash` | deleted payloads retain their deletion history, and interrupted operations can be retried (`src/docs/operations/workspace-production-operations.md:60`) | the payload is unlinked before the tombstone is built; a blank reason, an error of the database or a stop in between leaves neither, and the retry raises `FileNotFoundError` |
| `workspace_redelivered_after_deletion` | a payload beside its tombstone is an error (`workspace/verification.py:333`) | redelivering a deleted event puts the payload back |
| `reliability_open_line` | a valid record is preserved by tail recovery (`src/docs/releases/v0.1.0/validation/EXTREME_VALIDATION_REPORT_0.1.0.md:45`) | it is kept without its newline; the next append continues its line, and every later read raises |
| `approval_clock` | transition timestamps cannot precede the targeted approval (`src/docs/architecture/human-approval-lifecycle.md:13`) | `append` and `revoke` do not compare them, only the projection does; after the clock was set back an accepted replacement makes the basis unreadable |
| `removed_key_returns` | the store rejects a key that disappears and reappears (`src/docs/user-guide/attestation-trust-key-lifecycle.md:25`) | `append` compares with the last state only; the reader, which compares all of them, then rejects the history for good |
| `audit_unreadable` | operation values are within the persisted vocabulary (`src/docs/user-guide/security-audit-deployment-assurance-investigation.md:60`) | the boundary audits `approval:revoke` and `approval:supersede`, which the journal's reader does not know; every later read and append raises |

### Where a property has an exception

An exception in a property is a behaviour of the code that a reader should know:

- Deletion (`PayloadAccountedUnlessInterrupted`): the caller's reason is
  checked by the tombstone, which is built after the unlink. With a blank one
  `delete_expired_record` raises, as it does when the database refuses the row:
  the payload is gone, there is no tombstone, no process has stopped, and the
  retry raises `FileNotFoundError`.
- Approvals (`ThreadsProjectable`): the receipt limit is checked before the
  write and admits a directory that holds exactly `max_receipts`. The call it
  then accepts is the last one: every later read, append, revoke and gate raises
  `OverflowError`, on every basis.
- Native capture (`CapturesKept`, `StartsReleased`): an exception other than
  `ValueError` and `TypeError` from building a contract leaves the callback
  before the sink has heard of the observation: nothing is persisted or
  journaled, `_finish` is skipped, and the start narrows the window for good. So
  does the start of a run whose error handler raised on a full journal or a
  failed journal write.
- Proofs (`HandedProofsHold`, `VerifiersAgree`): the sender packages and hands
  over what is beyond the library's limits, and the library refuses it; what lies
  between the limits of script and library is accepted by the one and refused by
  the other. A chain or attestation that is
  replaced between two readings of it leaves a bundle that its receiver
  refuses, although building it returned. A provenance graph that names a file
  outside the chain's references passes the sender and fails the receiver; so
  does one that gives a referenced file another digest than the chain, if the
  file was exchanged and brought back so that the sender traced the graph over
  one content and compared the chain with the other. On a
  torn history line the library repairs its own copy and the script answers
  `INVALID`. `export` truncates an earlier bundle in place. An identity that
  was once recorded with another digest can never be attested again.
- Anchors (`AcknowledgedAnchored`): two publishers of one identity that cross
  may overwrite each other's checkpoint. An unchanged history that is anchored
  twice within one instant of the clock makes `latest` raise from then on.
- Verification (`VerificationSound`): `integrity_snapshot` is documented as a
  consistent read-only snapshot and consists of separate selects, so rows of a
  record that was indexed in between are reported dangling. A record that was
  delivered again and deleted again may be reported `ARTIFACT_MISSING`.
- Workspace pages (`WorkspacePagesSound`): one report whose payload was deleted
  makes the whole catalog and overview answer 404. The sweep raises
  `FileNotFoundError` when a payload goes between `is_file` and `open`. A
  governance page is refused when retention was applied again after a
  deletion.
- Incidents: `append` does not compare a record with earlier ones of its
  incident, so racing reporters may write an order that every page refuses
  from then on (`INVALID_REPORT`). An incident that is reported on while a
  viewer pages moves to the front and may be missed.
- Claim profiles: a contract that is persisted between the count and the select
  of a last page that is exactly full ends paging early and another one is
  missed. Policy and evaluator contracts are not found under the built-in
  profiles' reference types. An evaluation that is not satisfied, of a profile
  that admits caveats, answers `accepted_with_limitations`.
- Operational bundles: building and exporting accept circular provenance, an
  artifact called `bundle`, and, since they are held against no limit, more
  members, a larger file, more unpacked bytes and a denser compression than
  `verify` does: such a file is exported and never verifies. The verified answer
  describes the first reading of the file, its digest the later ones.
- Release page: `create_publication_basis.py` leaves the bundle's digest out,
  and the page then compares basis and bundle by their source only: it may show
  `release_published` beside the bundle of another build of that source. A
  permit that is issued again after publication makes the page refuse until
  there is a new receipt.
- Assurance: an exception created by this release is bound to one evaluation;
  evaluating again, at another instant with the same input, makes the page
  refuse it until it is created anew. An older one without a digest is shown
  beside any later decision of the same subject, references and outcome.

### Bounds, and why they are enough

- Two clients, publishers, signers, callers or workers are enough for every
  race: each step reads and writes one shared file, row or tip, and a third
  one can only repeat what the second did between two steps of the first.
- One crash, stop, cut or interruption reaches every point of every call, since
  it is enabled at all of them; two interruptions of the JSONL history reach a
  torn line after an open one.
- Four deliveries hold one of each kind that the code's decisions tell apart:
  equal, same identity with other content, same content with another row, and
  another producer in the same run. Two instants put a deadline ahead of a
  deletion, at it or behind it; there may also be none (`NoLimit`).
- Three transitions walk the state machine through failure, recovery and
  degradation; the chains include one that claims a recovery it cannot show and
  one whose decision does not go with its state.
- What is packaged is small, beyond the script's limits on the file, beyond its
  limits on JSON, or beyond the library's; what is bundled is small, big, or
  compressed further than the verifier allows, and two big ones or three
  artifacts together are beyond a limit that each alone is not. Sizes are in
  units in which the limits compare as those of the code do.
- A limit of three receipts holds an approval, its replacement and the end of
  that replacement; unrelated evidence pushes the directory over the limit.
- The trust states include a key that is replaced, removed and listed again, a
  revoked one that comes back, a changed material, and a wrong predecessor.
- The windows and the journal of native capture are smaller than the number of
  captures, so that each overflows.
- The plans of `ProofBundle` cover every kind of reference; each is rewritten
  before, between and after the readings of it.
- `MCRecords` narrows instances further by the conjuncts `OnlyEvidence`,
  `OnlyGovernance`, `OnlyIncidents`, `OnlyRelease`, `OnlyAssurance`, `OnlyAnchors`
  and `BasingNext`, each of which says what is left out: other deliveries, requests
  that another focus makes, a second or a late mishap, a stop besides a deletion that
  raised, a revoked key while a basis is prepared, files that change before anything
  reads them, a second request after the first was answered. `MCComponents`
  does so in the definitions named after the foci (`PublishingNext`, `StopsNext`
  and so on), and `Specifications` binds an artifact to a content only where the
  first two are not derived from each other. Between them the foci leave no action out.
- The proofs have none of these bounds; where they exist the runs only have to
  be large enough to show that the properties are not empty.

`components`, `records` and the violation runs on their modules turn deadlock
checking off. Their systems really stop: a spoiled JSONL file refuses every
call, a request is answered, a release is published, and the bounded counters
are used up.

### Fairness

Only `workspace_liveness` assumes any. Weak fairness of `Advance(c)`: a running
process executes the call it is in to its end (a process that stops is `Crash`,
which ends the call). Strong fairness of `BeginIngest` for each delivery, by
any client: a producer that got no answer delivers again. `FileLock` polls for
up to 30 seconds and raises `TimeoutError`, and the producer then repeats its
call, so it is not passed over forever while the lock is free again and again.
Without redelivery the receipt of a stopped ingestion stays unindexed for good:
`recover()` sweeps temporary files and does not rebuild rows.

## 4. What is proved

All theorems are `Spec => ...` for every value of the constants that satisfies
`ConstantsAssumption` (`AttestationsAssumption`, `BundlesAssumption`,
`ProfilesAssumption`) of the
module: constants are disjoint where the code tells values apart, and bounds are
numbers. TLC evaluates these assumptions for the values of every run. Each
module of proofs shows that an inductive invariant holds initially and is
preserved by every action, one lemma per action or group of actions, and derives
its theorems from it. The theorems on the components of `Components` and
`Pages` are about the very definitions that the runs `components` and `records`
check; the runs cover only the steps of their foci, the theorems all.

### EvidenceWorkspace_proofs

`IInv` adds to `TypeOK`, `RowsMatchReceipts` and `RunsHaveOneProducer` what each
step of a call relies on (`StepInv`): the job fits the step; the steps that
write the index or unlink a payload own the lock; a receipt about to be indexed
is durable; a deletion under way is still allowed by the requirement in force.
The last is why retention changes must take the lock.

- `TypeCorrect`, `IndexNeverAhead`, `OneProducerPerRun`: parts of `IInv`.
- `DeletionsFollowPolicy`: only `UnlinkArtifact` removes a payload, and `StepInv`
  says its requirement still allows it.
- `HoldKeepsEvidence`: under `OneReceiptPerPayload` (equal payloads have equal
  identities). Without that assumption it is false, as
  `workspace_held_shared` shows.
- `DeletionHistoryComplete`: with `IngestHoldsPayload`, that a locked
  ingestion about to index still has its payload, a missing payload is explained
  by a tombstone, a deletion under way or one that ended after its unlink, in
  every state, with stops, sweeps, shared payloads and unlocked writers.
- `ImplementsLedger`: `LinkReceipt` is `Admit`, `IndexRecord` is `Index`,
  `RecordDeletion` is `Retire`, each or a stutter, and all others stutter.

The module extends `WorkspaceReaders` and proves the requests as well. A
request reads several times without the lock, so its invariant says what each
of its readings still guarantees after any number of other steps. `WorkInv`
gives what is needed of the workspace: receipts, rows, retention rows and
tombstones are never withdrawn (`RecordsStay`), and from the step that reads a
payload back it is `Accounted` for: there, or removed by a deletion (on record, under way or `unrecorded`). Without
that, a page could fail for a payload that was never put. `ReadingInv` is
`WorkInv` with one part for each kind of request:

- `CatalogInv`, `QueryInv`, `SweepInv`: what is left to read was listed, hence
  durable, and a refusal is for a payload that was removed.
- `TraceInv`: every source that was there when the trace began has a row or is
  yet to be read.
- `GovernanceInv`: as long as the retention row has not changed since the
  request began, a tombstone is no older than the deadline of that row.
- `VerifyInv`: what `verify()` found or is yet to find, against the history
  variables `passing` and `lasting`. The case that is easy to miss is a record
  that was deleted after the deletions were read: it was without its payload
  before, or is so afterwards, and therefore passed either way.

From these follow `VerificationsHold` and `WorkspacePagesHold`.

### ReliabilityHistory_proofs

`IInv` is `TypeOK`, `ChainsWellFormed` and `PendingFits`: a pending append was
decided from the state it carries, and carries "unknown" if it read nothing. The
second part is needed because `append` compares `from_state` only when
there is a previous transition.

- `ChainsAlwaysWellFormed`, `TypeCorrect`, `OnlyMalformedTailCut`: on either
  store.
- `AnswersKept` and `ImplementsRegister` assume `Transactional`; on the JSONL
  store a torn line may take a record with it, and the first is false
  (`reliability_open_line`).

### HumanApproval_proofs

`IInv` is `TypeOK`, `UniqueIds` (the idempotency keys make receipt identities
unique), `OneActivePerActor`, `EndedStaysEnded` (what had ended when a gate was
called has still ended) and `PermitsNameEffective`. The lemma `InactiveStays`
carries most of it: receipts are only added, and an approval that ended stays
ended.

- `TypeCorrect`, `ActorsApproveOnce`, `PermitsAreFresh`, `ImplementsLifecycle`:
  whatever the clock does.
- `AcceptedCallsStayReadable`: `ThreadsProjectable` on a clock that is never set
  back, with the further invariant `NotFuture`: but for the receipt limit every
  basis projects, and accepted calls exceed the limit by one at most. The assumption is needed
  (`approval_clock`).

### LineFile_proofs

What an append does to a file of JSON lines, whole or interrupted
(`ExtendedOne`, `InterruptedOne`, `AppendedLines`, `GrowsByNew`): its complete
lines are the former ones and at most the new one. The proofs of
`TrustedAttestations`, `ReviewService` and of `Components` and `Pages` cite these
lemmas.

### TrustedAttestations_proofs

About the stores, then about the trust page (`TrustView`) over them.

`IInv` is `TypeOK`, `TrustInv` (the states that were appended are linked, and the
current-state file and all that publishers hold were appended), `LedgerInv`
(the complete attestations are a chain that a reader accepts, and as long as no
append was cut the file ends with a newline and each signed outcome is followed by its
binding) and `Backed`: the state of every recorded binding, and the one a signer
has loaded, is in the history and its key is active there. `LedgerInv` rests on
lemmas about what an append at the tip keeps of `ChainAccepted`: `Record`
appends one line or two, and refuses when the tip has moved. The history only
grows (`Grows`), which gives the action property.

- `AcceptedHistoryReads`, `RecordedBindingsVerify`, `LedgerStaysReadable`,
  `VerifiabilityIsKept`, `HistoryImplementsLifecycle`, `TypeCorrect`. The first
  has its premise in the property: no removed key was listed again
  (`removed_key_returns`).

`PageInv` is what a request may rely on between its three reads: the lines and
states it has read are in the files still (`LinesHold`, `StatesHold`), a
history that was read after the attestations lists every state they name
(`HistoryCovers`), and a page during which nothing was published has read what
there is (`Undisturbed`). `HistoryCovers` is what the order of the readings is
for; read the other way round it is false.

- `TrustPageSound`: `PagesSound` and `RefusalsExplained`.

### ReviewService_proofs

`IInv` adds to both properties `Serves(w)` for each worker: its request was
admitted on record, and once it is being answered, the answer names its own
statement. What it had found in the store before does not enter: the append
looks again under the lock, which is what the proof rests on.

- `EveryStatementAudited`, `RetriesAgree`, `TypeCorrect`.

### Components_proofs, Pages_proofs

What `Components` and `Pages` promise. `ReviewService`, the transactional
`ReliabilityHistory`, `TrustView` and `WorkspaceReaders` are proved in modules
of their own; `ReviewsStayAccounted`, `RegisteredTransitionsKept`,
`StoreIsARegister`, `VerificationsReportWhatIs`, `PagesFailForDeletions` and the
first half of `TrustPagesAnswerSoundly` carry their theorems over to the
instances, whose definitions are shown to be the proved ones (`SameReviewing`,
`SameRegister`, `SameView`, `SameServing`). The others have their invariants here:

| Component | Inductive invariant | Why it is needed | Theorems |
|---|---|---|---|
| `NativeCapture` | `CaptureInv`: `ResultsInv` (what was acknowledged is durable), `JournalInv` (unless a write failed, the journal ends with a newline and replays to counter and window), `CallbacksInv` (what each callback has left behind at its phase) | counter and window are right only together with the journal they were read from; that a run is accounted for at its end rests on the phase before, and the window of starts is right because a start leaves it in the step that ends the callback, unless the callback raises | `FailuresReplay`, `NothingCapturedIsLost`, `StartsAreReleased` |
| `RegistryPublication` | `RegistryInv`: types, the property, and for each call `ReadSoundly` (what it has read and compared was uploaded with the permitted bytes) and `TipFollowed` (the tip it appends to was recorded before its release record was read) | the registry changes between the downloads; a name is uploaded once, and the history only grows | `ReleasesObservedSoundly`, `PublicationTypeCorrect` |
| `ReleaseProof` | `ReleaseInv`: types, `StepsBound`, the property | `StepsBound` is what a build has compared so far, as facts about what it carries and not about the files, which may have been replaced | `ReleaseTypeCorrect`, `ApprovedReportsBacked` |
| `AssuranceDecisions` | `AssuranceInv`: what is loaded or excepted replays, and an exception is of a decision that allows one | a refused page was to show an exception; it is stale only because the file once was accepted | second half of `TrustPagesAnswerSoundly` |
| `TrustAnchors` | `AnchorInv`: as long as no two publications crossed, only one is past its comparison, what it compared still holds, and some checkpoint is not before another | `publish` has no lock: the comparison is worth something at the replacement only if nobody replaced in between; that there is a latest needs the maximum to be carried along, since there is no induction over the directory | `AcknowledgedStayAnchored` |
| `ReleasePage` | `PipelineInv` (a receipt is of a permit for an approved basis whose files are served; a basis that names a bundle lists its files) and `PageBound` (what a request has read fits together at its step) | each file is replaced while the page reads on; a name that was uploaded keeps its bytes, so a receipt that was read stays true | `PublishedAsShown` |
| `WorkspaceTree` | `PlacesInv`: which directory stands at the root, beside it and in the backup at each step, and that the backup as it was verified is what opening finds; `ExportsInv`: while no operation stopped, ids and paths of rows, files and tombstones agree at every place, but for the one export under way | a restore loses nothing only because what was taken away is held until the other is in; a restored backup verifies because every step of opening it finds its work done; a tombstone is of one row because ids are unique | `DirectoryTypeCorrect`, `RestoredTreesVerify`, `RestoreLosesNoTree` |
| `ClaimProfiles` | `ProfilesInv`: what is left to be listed has a position at or behind the offset, what was resolved was indexed, and what was looked up without success was not there all the time | paging by offset over a count and a select is right only if no row came in between the two | `ClaimsResolve` |
| `IncidentEvidence` | `IncidentInv`: `StoreInv` (every incident has a latest report, reverified reports are continuous, and without a mishap the lines are in the order of the clock) and `ViewerBound` (an incident that was neither shown nor moved has its place at or behind the offset; what was shown is in order) | the place of an incident is its rank by latest report; it changes with every append, and the lemma that it moves back by one when another incident comes to the front is what paging rests on | `NoIncidentSkipped`, `NoPageGoesBack` |
| `OperationalBundles` | `BundlesInv`: what was built inherits its sensitivity along every step of provenance; what the verifier read was replaced, or has the digest it compares; what it refused is replaced, torn, circular or beyond a limit | the ancestors of an artifact are the least set closed under provenance, and the artifacts no more sensitive than it are such a set: no induction along the way is needed | `DisclosureKeepsCeiling` |
| `ProofBundle` | `ProofsInv`: of the chain and attestation that the sender has read once it keeps what each later reading has shown, as "there was a directory of which it was so" (`OutcomeSeen`, `LineageSeen`, `SourcesSeen`), and that chains are built over a graph whose comparison and basis lie at their own paths | the directory changes between any two readings, so nothing about it as it is now can be kept; what the receiver unpacks is the directory the sources were gathered from, cut down to the references. That the other readings found the same comparison and basis there is the lemma `LineagePins`, and without it the inputs of a comparison, which are found through the file and not through the chain, could differ | `HandedProofsAccepted`, `VerifiersAnswerAlike` |

The proofs about `ProofBundle` hold for any number of rewrites, and the attempt
showed that both properties were once stated too widely: with a third rewrite a
file may be exchanged and brought back between the readings. The exception
(`SelfContained`) now compares digests, and the focus `returning` reaches the case.
What the walk along provenance computes does not enter: sender and receiver
walk the same graph. That what is beyond the library's limits is beyond the
script's too, and so is refused by both, is `ScriptIsStricter`. Its parameters say, besides numbers and names, that the
files there are at first and the graphs among them are of the form the agent
writes (`Written`), and that the history there is at first is numbered.

`AcknowledgedStayAnchored` assumes besides that the value for "no checkpoint" is
not itself a checkpoint (`NoCheckpointIsNone`): checkpoints name their
predecessor, so no set of all of them is at hand to say so in the module. In the
same way the theorems on `ProofBundle` assume that "no reference" is not one of
the references (`NoRefIsNone`).

### Model-checked only

- `LockReleased` and `RedeliveryCompletesIngest`: liveness under fairness, like
  `ENABLED`, is out of TLAPS's reach here. They are the only properties of a
  passing run that no theorem states.

## 5. What is not modelled, and why

- Damaged bytes. Files and rows do not rot; checks that compare digests on read
  are there only where a file is legally replaced. SQLite's own recovery, and
  readers that open the database as immutable beside a write-ahead log, are
  taken as the isolation they ask for.
- Cryptography and key files (`adapters/key_management.py`,
  `domain/cryptographic_trust.py`): a signature is that its signer made it.
- Redaction before admission is part of the delivery: it changes which payload
  is admitted and not what happens to it.
- Routing, query strings, ETags, body limits and rate limits of the HTTP
  interfaces; the pages of a single reading, whose answer is a function of one
  file; projections that copy fields.
- Containment limits other than those of the proof and bundle verifiers, and
  the governance, privacy and access-control
  assessments other than the data governance page: pure checks of one record.
- The commands of the CLI, reports and the validation study: they call what is
  modelled, one operation after the other, and format it.
- The SQLAlchemy repository has the same transactions as the SQLite one and is
  not instantiated separately; of the SDK client only its writes into the workspace.
- A second call of `build_release_proof` on the same output beside the first:
  `ReleaseProof` has one build at a time.
- Generic JSONL stores that nothing else reads: their append is that of
  `LineFile`.

## 6. Plan

1. The reading instances with a stopped deletion, so that `verify()` and
   a trace are checked against a payload without row and tombstone at a time.
2. Liveness of publication: that `Retry` ends with a receipt if the registry
   settles; fairness is that of the script's loop, which has a bound.
3. The trust page over a signer that is cut off between outcome and binding,
   with two signers.
4. The CLI's multi-step commands that leave files behind when a later step
   fails.
