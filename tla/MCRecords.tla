------------------------------- MODULE MCRecords -------------------------------
(***************************************************************************)
(* Model checking of the reliability history in its JSONL store, and of    *)
(* Pages.  Each behaviour exercises one component, or some of what it can  *)
(* do, which is chosen in the initial state; the others stay as they are.  *)
(* Portable proofs are made under more than one set of parameters.         *)
(***************************************************************************)
EXTENDS ReliabilityHistory, Pages

CONSTANTS
  Focus,                  \* what is to be checked
  c1, c2, s1, s2,         \* clients, subjects
  p1, p2, i1, i2, r1,     \* publishers, identities of checkpoints, a record
  k1, k2, m1,             \* signing keys, key material
  a1, a2,                 \* payloads
  b1, b2, f1, f2          \* sources and files of a release

VARIABLE focus

mcVars == <<focus, vars, bundleVars, anchorVars, trustVars, evidenceVars, incidentVars,
            releaseVars, assuranceVars>>

-----------------------------------------------------------------------------
(* The history: one chain fails a subject and the other degrades it.       *)

Chain(id, state, decision, recovered) ==
  [id |-> id, state |-> state, decision |-> decision, recovered |-> recovered]

TwoChains ==
  {Chain(1, "unreliable", "reject", FALSE),
   Chain(3, "degraded", "review", FALSE)}

OneTime == {1}

-----------------------------------------------------------------------------
(* The files that proofs are about, and what chains are built over.        *)

Evidence == INSTANCE EvidenceChain

Review == Evidence!Outcome("degraded", "review", "verified")
Recovery == Evidence!Outcome("recovered", "accept", "recovered")
Rejection == Evidence!Outcome("unreliable", "reject", "verified")

Plan(names, outcome) ==
  [given |-> Evidence!Mandatory \union names, outcome |-> outcome]

PlainPlan == Plan({}, Review)
ReceiptPlan == Plan({"receipt"}, Review)
BasisPlan == Plan({"receipt", "basis"}, Review)
ComparedPlan == Plan({"comparison", "reconciliation", "binding"}, Review)
RecoveredPlan == Plan({"reconciliation", "recovery", "attestation"}, Recovery)

\* The files of a plan, and those that they are derived from.
Files(names) ==
  LET raw == [n \in Evidence!Sources |->
                CASE n \notin names \union {"before", "after", "notes"} -> NoFile
                  [] n = "reconciliation" ->
                       [bundle |-> NoRef, reconciliation |-> 1, status |-> "recovered"]
                  [] n = "recovery" -> [id |-> 1, source |-> 1, status |-> "applied"]
                  [] OTHER -> Evidence!Raw(n, 1)]
      receipted == [raw EXCEPT !["receipt"] =
                      IF "receipt" \in names
                      THEN [id |-> 1, artifact |-> raw["evidence"], graph |-> NoRef,
                            run |-> Evidence!Identity("run", raw["run"])]
                      ELSE NoFile]
      compared == [receipted EXCEPT !["comparison"] =
                     IF "comparison" \in names
                     THEN Evidence!Compared(receipted, "before", "after") ELSE NoFile]
      bound == [compared EXCEPT
                  !["binding"] = IF "binding" \in names THEN Evidence!Bound(compared) ELSE NoFile,
                  !["basis"] = NoFile] IN
  [bound EXCEPT !["graph"] = Evidence!GraphOver(bound, names)]

\* The transition that a recovery starts from.
Failure ==
  LET files == Files(Evidence!Mandatory)
      draft0 == Evidence!Draft(files, Evidence!Mandatory, Rejection) IN
  [number |-> 1, chain |-> Evidence!Chain(draft0, files)]

-----------------------------------------------------------------------------
(* How large packages are: small, too large for the script, packed or as   *)
(* JSON, and too large for either.                                         *)

LimitsOfScript == [packed |-> 1, members |-> 1, unpacked |-> 1, ratio |-> 1, json |-> 1]
LimitsOfLibrary == [packed |-> 2, members |-> 1, unpacked |-> 2, ratio |-> 1]

Small == LimitsOfScript
SmallOnly == {Small}
FourExtents ==
  {Small, [Small EXCEPT !.packed = 2, !.unpacked = 2], [Small EXCEPT !.json = 2],
   [Small EXCEPT !.packed = 3]}

-----------------------------------------------------------------------------
(* Trust states that a page is asked for: the second replaces the key.     *)

Anchor(status, replacement) == [material |-> m1, status |-> status, by |-> replacement]

TwoStates ==
  {[version |-> 1, issued |-> 1, previous |-> NoDigest, digest |-> "s1",
    anchors |-> [k \in {k1} |-> Anchor("active", NoKey)]],
   [version |-> 2, issued |-> 2, previous |-> "s1", digest |-> "s2",
    anchors |-> [k \in {k1, k2} |-> IF k = k1 THEN Anchor("superseded", k2)
                                    ELSE Anchor("active", NoKey)]]}

\* All sources; without the state file; without the history; no authority.
PageSources ==
  {{"attestations", "state", "history", "authority"},
   {"attestations", "history", "authority"},
   {"attestations", "state", "authority"},
   {"attestations", "history"}}

-----------------------------------------------------------------------------
(* Evidence of one report and of the source that it names.                 *)

Evidenced(id, payload) ==
  [receipt |-> id, artifact |-> payload, captured |-> 1, run |-> NoRun,
   producer |-> p1, sensitivity |-> "internal"]

SourceDelivery == {Evidenced(i2, a2)}
ReportAndSource == {Evidenced(i1, a1)} \union SourceDelivery

-----------------------------------------------------------------------------
(* Reports of two incidents.  The first is reverified, once over evidence  *)
(* that was not preserved with it; the second brings the other's recovery. *)

Recovery1 == [of |-> 1, status |-> "applied", kept |-> TRUE]

Reported(incident, status, recovery, verification) ==
  [incident |-> incident, status |-> status, recovery |-> recovery,
   verification |-> verification]

TwoIncidents ==
  {Reported(1, "detected", NoRecovery, NoRecovery),
   Reported(2, "detected", NoRecovery, NoRecovery),
   Reported(2, "recovered", Recovery1, NoRecovery)}
  \union {Reported(1, "reverified", Recovery1, [status |-> "verified", kept |-> kept])
           : kept \in BOOLEAN}

-----------------------------------------------------------------------------
(* The instances.                                                          *)

\* Of the instance of Pages, evidence and graph are rewritten or withdrawn at
\* any time.
PlainPlans == {PlainPlan}
PlainFiles == Files(PlainPlan.given)
NoTransitions == <<>>

\* The integrity report is exchanged and comes back.
Returning == INSTANCE ProofBundle
  WITH Plans <- PlainPlans, Start <- PlainFiles, Earlier <- <<>>,
       Extents <- {Small}, Rewritable <- {"integrity"}, MaxRewrites <- 3, MaxTransitions <- 1,
       MaxTears <- 0

\* The history is torn, and extended, while a proof of it is made.
Torn == INSTANCE ProofBundle
  WITH Plans <- {PlainPlan}, Start <- Files(PlainPlan.given), Earlier <- <<Failure>>,
       Extents <- {Small}, Rewritable <- {"evidence"}, MaxRewrites <- 1, MaxTransitions <- 3,
       MaxTears <- 1

\* A comparison, the states it compares, and its reconciliation; packages of
\* every extent.
Comparing == INSTANCE ProofBundle
  WITH Plans <- {ComparedPlan}, Start <- Files(ComparedPlan.given), Earlier <- <<>>,
       Extents <- FourExtents, Rewritable <- {"after", "comparison", "binding"}, MaxRewrites <- 1,
       MaxTransitions <- 1, MaxTears <- 0

\* A basis is prepared for a chain, and a chain built over the basis.
Basing == INSTANCE ProofBundle
  WITH Plans <- {ReceiptPlan, BasisPlan}, Start <- Files(ReceiptPlan.given),
       Earlier <- <<>>, Extents <- {Small}, Rewritable <- {"basis", "graph", "receipt"}, MaxRewrites <- 1,
       MaxTransitions <- 1, MaxTears <- 0

\* A recovery after a failure.
Recovering == INSTANCE ProofBundle
  WITH Plans <- {RecoveredPlan}, Start <- Files(RecoveredPlan.given),
       Earlier <- <<Failure>>, Extents <- {Small}, Rewritable <- {"recovery", "attestation"},
       MaxRewrites <- 1, MaxTransitions <- 2, MaxTears <- 1

\* One source is built twice, the second time without a signature, and
\* another one once.
Build(source, number, limited) == [source |-> source, number |-> number, limited |-> limited]

Build1 == Build(b1, 1, {})
ThreeBuilds == {Build1, Build(b1, 2, {f2}), Build(b2, 1, {})}
AllParts == {{"root", "publication", "registry", "lifecycle"}}

\* All that the policy may be evaluated for, and what comes next.
EveryInput ==
  [subject : {s1}, state : {"unknown", "reliable", "degraded", "unreliable", "recovered"},
   verification : {"verified", "verified_with_limitations", "unverified", "invalid",
                   "tampered", "incomplete", "trust_anchor_unavailable"},
   trust : {"trusted", "revoked"}, recovery : BOOLEAN, risk : {r1, Nothing}]

OneInput ==
  [subject : {s1, s2}, state : {"degraded"}, verification : {"verified"},
   trust : {"trusted"}, recovery : {FALSE}, risk : {Nothing}]

-----------------------------------------------------------------------------
(* What is exercised of Pages.                                             *)

\* No key is revoked meanwhile.
BasingNext == Basing!Next /\ revoked' = revoked

\* Two publishers anchor one history, one after the other.
AnchoringNext == Anchoring!Next /\ Len(records') <= 1 /\ now' = 0

\* One publisher anchors a history that is extended and truncated.
ExtendingNext == Anchoring!Next /\ publication'[p2] = NoPublication

ASSUME Proving!ConstantsAssumption
ASSUME Returning!ConstantsAssumption
ASSUME Torn!ConstantsAssumption
ASSUME Comparing!ConstantsAssumption
ASSUME Basing!ConstantsAssumption
ASSUME Recovering!ConstantsAssumption
ASSUME Anchoring!ConstantsAssumption
ASSUME Viewing!AttestationsAssumption
ASSUME Serving!ConstantsAssumption
ASSUME Incident!ConstantsAssumption
ASSUME Release!ConstantsAssumption
ASSUME Deciding!ConstantsAssumption

\* The report has been ingested, and may be deleted.
ReportIngested ==
  LET report == Evidenced(i1, a1)
      OfReport(there) == [i \in {i1, i2} |-> IF i = i1 THEN there ELSE Absent] IN
  /\ artifacts = {a1}
  /\ receipts = OfReport(Serving!ReceiptOf(report))
  /\ rows = OfReport(Serving!RowOf(report))
  /\ runs = <<>>
  /\ retention = OfReport([until |-> 1, hold |-> FALSE])
  /\ tombstones = OfReport(Absent)
  /\ lock = NoClient
  /\ step = [c \in {c1, c2} |-> "idle"]
  /\ calling = [c \in {c1, c2} |-> NoCall]
  /\ temps = {}
  /\ unrecorded = {}
  /\ crashes = 0
  /\ sweeps = 0

MCInit ==
  /\ focus \in Focus
  /\ Init
  /\ CASE focus = "torn" -> Torn!Init
       [] focus = "comparing" -> Comparing!Init
       [] focus = "basing" -> Basing!Init
       [] focus = "recovering" -> Recovering!Init
       [] OTHER -> Proving!Init
  /\ Anchoring!Init
  /\ Viewing!Init
  /\ Viewing!ViewInit
  /\ ReportIngested
  /\ Serving!ReaderInit
  /\ Incident!Init
  /\ Release!Init
  /\ Deciding!Init

OnlyHistory ==
  UNCHANGED <<bundleVars, anchorVars, trustVars, evidenceVars, incidentVars,
    releaseVars, assuranceVars>>
OnlyBundle == UNCHANGED <<vars, anchorVars, trustVars, evidenceVars, incidentVars,
    releaseVars, assuranceVars>>
OnlyView == UNCHANGED <<vars, bundleVars, anchorVars, evidenceVars, incidentVars,
    releaseVars, assuranceVars>>

\* Nothing is said of publications that crossed.
OnlyAnchors ==
  /\ ~crossed'
  /\ UNCHANGED <<vars, bundleVars, trustVars, evidenceVars, incidentVars,
    releaseVars, assuranceVars>>

\* One client delivers the source, and the other deletes what is due; one call
\* stops, or one deletion raises after the unlink, which leaves the same there.
OnlyEvidence ==
  /\ reader' # NoReader => reader'.kind # "governance"
  /\ crashes' + Cardinality(unrecorded') <= 1
  /\ UNCHANGED <<vars, bundleVars, anchorVars, trustVars, incidentVars,
    releaseVars, assuranceVars>>
  /\ step[c1] = "idle" => calling'[c1] \in SourceDelivery \union {NoCall}
  /\ calling'[c2] \in [receipt : {i1, i2}, at : {1}] \union {NoCall}
  /\ \A i \in {i1, i2} : retention'[i] \in {Absent, [until |-> 1, hold |-> FALSE]}

\* The report's retention is applied anew, and it is deleted or comes in again,
\* while its governance page is read.
OnlyGovernance ==
  /\ UNCHANGED <<vars, bundleVars, anchorVars, trustVars, incidentVars,
    releaseVars, assuranceVars>>
  /\ reader' # NoReader => reader'.kind = "governance" /\ reader'.subject = i1
  /\ step'[c1] = "idle"
  /\ calling'[c2] \notin SourceDelivery

\* One mishap, before there are three records; the third one comes in while a
\* viewer pages, and the fourth after its first page.
OnlyIncidents ==
  /\ UNCHANGED <<vars, bundleVars, anchorVars, trustVars, evidenceVars, releaseVars,
    assuranceVars>>
  /\ mishaps' \in {{}, {"cut"}, {"set_back"}}
  /\ mishaps' # mishaps => Len(incidentFile.lines) <= 2
  /\ LET n == Len(incidentFile.lines) IN
     Len(incidentFile'.lines) > n =>
       /\ n > 1 => viewer # NoViewer
       /\ n > 2 => viewer.offset = 1 /\ mishaps = {}

\* The directory to publish changes before there is a basis or between permit
\* and upload, and a request comes once there is a permit.
OnlyRelease ==
  /\ UNCHANGED <<vars, bundleVars, anchorVars, trustVars, evidenceVars, incidentVars,
    assuranceVars>>
  /\ dist' # dist => basisFile = Nothing \/ (permitFile # Nothing /\ request = Nothing)
  /\ candidate' # candidate => basisFile = Nothing
  /\ releaseRoot' # releaseRoot => request # Nothing /\ request.checked # {}
  /\ active' \subseteq active => active' = active \/ request # Nothing
  /\ request' # Nothing => permitFile # Nothing
  /\ request # Nothing => request.step # "answered"

\* Once there is a request, the policy is evaluated again, once, the exception
\* is withdrawn and time passes; there is one request.
OnlyAssurance ==
  /\ UNCHANGED <<vars, bundleVars, anchorVars, trustVars, evidenceVars, incidentVars,
       releaseVars>>
  /\ decisionFile' # decisionFile =>
       decisionFile = Nothing \/ (page # Nothing /\ decisionFile = page.decision)
  /\ exceptionFile' = Nothing \/ decisionTime' # decisionTime =>
       exceptionFile = exceptionFile' \/ page # Nothing
  /\ page # Nothing => page.step = "exception"

MCNext ==
  /\ UNCHANGED focus
  /\ \/ focus = "history" /\ Next /\ OnlyHistory
     \/ focus = "plain" /\ Proving!Next /\ OnlyBundle
     \/ focus = "returning" /\ Returning!Next /\ OnlyBundle
     \/ focus = "torn" /\ Torn!Next /\ OnlyBundle
     \/ focus = "comparing" /\ Comparing!Next /\ OnlyBundle
     \/ focus = "basing" /\ BasingNext /\ OnlyBundle
     \/ focus = "recovering" /\ Recovering!Next /\ OnlyBundle
     \/ focus = "anchoring" /\ AnchoringNext /\ OnlyAnchors
     \/ focus = "extending" /\ ExtendingNext /\ OnlyAnchors
     \/ focus = "viewing" /\ Viewing!ViewNext /\ OnlyView
     \/ focus = "reading" /\ Serving!ReadersNext /\ OnlyEvidence
     \/ focus = "governing" /\ Serving!ReadersNext /\ OnlyGovernance
     \/ focus = "incidents" /\ Incident!Next /\ OnlyIncidents
     \/ focus = "releasing" /\ Release!Next /\ OnlyRelease
     \/ focus = "deciding" /\ Deciding!Next /\ OnlyAssurance

MCSpec == MCInit /\ [][MCNext]_mcVars

=============================================================================
