------------------------------ MODULE ProofBundle ------------------------------
(***************************************************************************)
(* Portable reliability proofs: a producer builds an evidence chain over   *)
(* the files of a directory, records the state transition that it proves   *)
(* and attests the outcome; a sender verifies all of it and packages it as *)
(* one bundle; a receiver, who has nothing but the bundle, verifies it with*)
(* the library or with the script that does not import it.                 *)
(*                                                                         *)
(* No step holds a lock against the others, and the sender reads most      *)
(* files more than once: what it verified need not be what it packages.    *)
(***************************************************************************)
EXTENDS EvidenceChain, Sequences, SequencesExt

CONSTANTS
  Plans,            \* what chains are built over: [given, outcome]
  Start,            \* the files there are at first
  Earlier,          \* the transitions there are at first
  Rewritable,       \* the files the agent writes anew
  Extents,          \* how large packages are, by what a verifier measures
  LibraryLimits,    \* what the library accepts, by what it measures
  ScriptLimits,     \* what the script accepts
  MaxRewrites,      \* bound on rewritten and removed files
  MaxTransitions,   \* bound on the length of the history
  MaxTears          \* bound on appends to the history that are interrupted

\* The nodes of comparison and basis lie at the paths of these files.
Placed(graph) ==
  \A node \in graph.nodes :
    node.identity[1] \in {"comparison", "basis"} => node.path = node.identity[1]

\* Files as the agent writes them: a comparison is of files in the directory.
Written(files) ==
  /\ DOMAIN files = Sources
  /\ files["comparison"] # NoFile =>
       \A input \in InputsOf(files["comparison"]) : input.source \in Sources
  /\ files["graph"] # NoFile => Placed(files["graph"])

ConstantsAssumption ==
  /\ NoRef \notin Sources
  /\ Written(Start)
  /\ Earlier \in Seq(Range(Earlier))
  /\ \A i \in 1..Len(Earlier) : Earlier[i].number = i
  /\ \A plan \in Plans : Mandatory \subseteq plan.given /\ plan.given \subseteq Names
  /\ Rewritable \subseteq Sources
  /\ DOMAIN LibraryLimits \subseteq DOMAIN ScriptLimits
  /\ \A m \in DOMAIN LibraryLimits : ScriptLimits[m] <= LibraryLimits[m]
  /\ Extents \union {ScriptLimits} \subseteq [DOMAIN ScriptLimits -> Nat]
  /\ LibraryLimits \in [DOMAIN LibraryLimits -> Nat]
  /\ {MaxRewrites, MaxTransitions, MaxTears} \subseteq Nat

VARIABLES
  root,             \* the directory of evidence: name -> content
  draft,            \* the chain being built, between its two readings
  chainFile,        \* the evidence chain
  transitions,      \* the complete lines of the state history
  cut,              \* whether a torn line follows them
  attestationFile,  \* the attestation that was written last
  signed,           \* the attestations of the signed store
  revoked,          \* whether the current trust state revokes the signing key
  sender,           \* what the sender has read so far
  bundle,           \* the file that is handed over
  rewrites, tears

vars == <<root, draft, chainFile, transitions, cut, attestationFile, signed, revoked,
          sender, bundle, rewrites, tears>>

evidenceVars == <<root, rewrites>>
historyVars == <<transitions, cut, tears>>
producerVars == <<draft, chainFile, attestationFile, signed, revoked>>
packagingVars == <<sender, bundle>>

Partial == [partial |-> TRUE]

Resting == [pc |-> "resting"]

Complete(file) == file \notin {NoFile, Partial}

Init ==
  /\ root = Start
  /\ draft = NoFile
  /\ chainFile = NoFile
  /\ transitions = Earlier
  /\ cut = FALSE
  /\ attestationFile = NoFile
  /\ signed = {}
  /\ revoked = FALSE
  /\ sender = Resting
  /\ bundle = NoFile
  /\ rewrites = 0
  /\ tears = 0

-----------------------------------------------------------------------------
(* The agent's files.                                                      *)

\* A file is produced anew: with other content if nothing derives it, from the
\* present files if something does.  An earlier content may come back.
Anew(name) ==
  CASE name \in {"run", "state", "evidence", "integrity", "before", "after", "notes"} ->
         {Raw(name, 1), Raw(name, 2)}
    [] name = "graph" ->
         {GraphOver(root, plan.given \union extra) :
            plan \in Plans, extra \in SUBSET {"notes"}}
    [] name = "comparison" ->
         IF NoFile \in {root["before"], root["after"]} THEN {}
         ELSE {Compared(root, "before", "after")}
    [] name = "binding" ->
         IF NoFile \in {root["comparison"], root["reconciliation"]} THEN {}
         ELSE IF Successful(root["reconciliation"]) /\ Discrepant(root["comparison"])
              THEN {Bound(root)} ELSE {}
    [] name = "receipt" ->
         {[id |-> 1, artifact |-> root["evidence"], run |-> Identity("run", root["run"]),
           graph |-> g] : g \in {NoRef, root["graph"]}}
    [] OTHER -> {}

Rewrite(name) ==
  /\ rewrites < MaxRewrites
  /\ \E content \in Anew(name) \ {root[name]} : root' = [root EXCEPT ![name] = content]
  /\ rewrites' = rewrites + 1
  /\ UNCHANGED <<historyVars, producerVars, packagingVars>>

Withdraw(name) ==
  /\ rewrites < MaxRewrites
  /\ root[name] # NoFile
  /\ root' = [root EXCEPT ![name] = NoFile]
  /\ rewrites' = rewrites + 1
  /\ UNCHANGED <<historyVars, producerVars, packagingVars>>

-----------------------------------------------------------------------------
(* The producer.                                                           *)

\* build_reliability_evidence_chain, up to the chain's identity.
StartChain(plan) ==
  /\ draft = NoFile
  /\ DraftAccepted(root, plan.given, plan.outcome)
  /\ draft' = Draft(root, plan.given, plan.outcome)
  /\ UNCHANGED <<evidenceVars, historyVars, packagingVars, chainFile, attestationFile,
                 signed, revoked>>

\* Its second reading, and the chain is written; it fails on a missing file.
FinishChain ==
  /\ draft # NoFile
  /\ draft' = NoFile
  /\ chainFile' =
       IF /\ \A n \in draft.given \ Early : root[n] # NoFile
          /\ OutcomeAdmissible(draft.outcome)
       THEN Chain(draft, root) ELSE chainFile
  /\ UNCHANGED <<evidenceVars, historyVars, packagingVars, attestationFile, signed, revoked>>

\* prepare_reliability_decision_basis: the basis is written, the chain bound to it.
PrepareBasis ==
  /\ "basis" \in Rewritable
  /\ chainFile # NoFile
  /\ root' = [root EXCEPT !["basis"] = BasisFor(chainFile)]
  /\ chainFile' = WithBasis(chainFile, BasisFor(chainFile))
  /\ UNCHANGED <<historyVars, packagingVars, rewrites, draft, attestationFile, signed,
                 revoked>>

CurrentState == IF transitions = <<>> THEN "unknown" ELSE Last(transitions).chain.outcome.state

Follows ==
  [unknown |-> {"reliable", "degraded", "unreliable"},
   reliable |-> {"degraded", "unreliable"},
   degraded |-> {"reliable", "unreliable"},
   unreliable |-> {"recovered", "reliable", "degraded"},
   recovered |-> {"reliable", "degraded", "unreliable"}]

DecisionFor(state) ==
  CASE state \in {"reliable", "recovered"} -> "accept"
    [] state = "degraded" -> "review"
    [] state = "unreliable" -> "reject"

\* A transition back to the same state by the same chain records nothing new.
AlreadyThere(chain) ==
  /\ transitions # <<>>
  /\ CurrentState = chain.outcome.state
  /\ Last(transitions).chain.id = chain.id

\* transition_reliability_state_from_file; the append repairs a torn line.
Transit ==
  /\ chainFile # NoFile
  /\ ChainVerifies(chainFile, root)
  /\ ~AlreadyThere(chainFile)
  /\ chainFile.outcome.state \in Follows[CurrentState]
  /\ chainFile.outcome.decision = DecisionFor(chainFile.outcome.state)
  /\ chainFile.outcome.state = "recovered" =>
       /\ CurrentState = "unreliable"
       /\ Has(chainFile, "recovery")
       /\ chainFile.outcome.reconciliation = "recovered"
  /\ Len(transitions) < MaxTransitions
  /\ transitions' = Append(transitions, [number |-> Len(transitions) + 1, chain |-> chainFile])
  /\ cut' = FALSE
  /\ UNCHANGED <<evidenceVars, producerVars, packagingVars, tears>>

\* reliability-attest: the last transition of the chain by its identity, which
\* must also carry the chain's digest.
Attested ==
  LET mine == {i \in 1..Len(transitions) : transitions[i].chain.id = chainFile.id}
      last == transitions[CHOOSE i \in mine : \A j \in mine : j <= i] IN
  IF mine = {} THEN {}
  ELSE IF last.chain # chainFile THEN {}
  ELSE {[transition |-> last, chain |-> chainFile]}

Attest(signing) ==
  /\ chainFile # NoFile
  /\ signing => ~revoked
  /\ \E attestation \in Attested :
       /\ attestationFile' = attestation
       /\ signed' = signed \union IF signing THEN {attestation} ELSE {}
       /\ <<attestationFile', signed'>> # <<attestationFile, signed>>
  /\ cut' = FALSE
  /\ UNCHANGED <<evidenceVars, packagingVars, transitions, tears, draft, chainFile, revoked>>

Revoke ==
  /\ signed # {} /\ ~revoked
  /\ revoked' = TRUE
  /\ UNCHANGED <<evidenceVars, historyVars, packagingVars, draft, chainFile,
                 attestationFile, signed>>

\* An append to the history is interrupted within its line.
Tear ==
  /\ tears < MaxTears
  /\ ~cut
  /\ cut' = TRUE
  /\ tears' = tears + 1
  /\ UNCHANGED <<evidenceVars, producerVars, packagingVars, transitions>>

-----------------------------------------------------------------------------
(* What the sender and the receiver verify alike.                          *)

\* verify_reliability_outcome, over any directory and any history.
OutcomeVerifies(attestation, chain, lines, files) ==
  /\ attestation.chain = chain
  /\ ChainVerifies(chain, files)
  /\ attestation.transition \in Range(lines)
  /\ attestation.transition.chain = chain
  /\ chain.outcome.decision = DecisionFor(chain.outcome.state)
  /\ chain.outcome.state = "recovered" => RecoveryVerifies(chain, files)

\* The references whose files are packaged.
Referenced(chain, files) ==
  ReferencesOf(chain, Names) \union ComparedInputs(chain, files)

Keys(references) == {r.key : r \in references}

-----------------------------------------------------------------------------
(* The sender: build_reliability_proof_bundle.                             *)

Sending(pc) ==
  /\ sender.pc = pc
  /\ UNCHANGED <<evidenceVars, producerVars, transitions, tears>>

GiveUp == sender' = Resting

Load ==
  /\ Sending("resting")
  /\ NoFile \notin {attestationFile, chainFile}
  /\ sender' = [pc |-> "loaded", attestation |-> attestationFile, chain |-> chainFile]
  /\ UNCHANGED <<bundle, cut>>

\* Reading the history repairs a torn line.
Verify ==
  /\ Sending("loaded")
  /\ cut' = FALSE
  /\ IF OutcomeVerifies(sender.attestation, sender.chain, transitions, root)
     THEN sender' = [sender EXCEPT !.pc = "verified"]
     ELSE GiveUp
  /\ UNCHANGED bundle

\* Without trust context; with the binding of the signed store and the trust
\* state it was signed under, which takes the trust history once that state is
\* no longer current; or with an envelope and the current trust state.
Contexts(retained) ==
  {NoRef} \union
  {[attestation |-> s] : s \in {t \in signed : /\ t = sender.attestation
                                               /\ retained \/ ~revoked}}

Trace ==
  /\ Sending("verified")
  /\ \/ /\ LineageHolds(sender.chain, root)
        /\ \E retained \in BOOLEAN : \E context \in Contexts(retained) :
             sender' = [pc |-> "traced", attestation |-> sender.attestation,
                        chain |-> sender.chain, context |-> context,
                        closure |-> Closure(sender.chain, root)]
     \/ /\ ~LineageHolds(sender.chain, root)
        /\ GiveUp
  /\ UNCHANGED <<bundle, cut>>

\* Mutation: the sources are not compared with the references' digests.
UnmatchedSources(references) == Cardinality(Keys(references)) = Cardinality(references)

SourcesGathered(references) ==
  /\ \A r \in references : root[r.source] = r.digest
  /\ Cardinality(Keys(references)) = Cardinality(references)

\* The bytes of the history, torn or not, and the files of the references.
Gather ==
  /\ Sending("traced")
  /\ LET references == Referenced(sender.chain, root) IN
     IF SourcesGathered(references)
     THEN sender' = [pc |-> "gathered", attestation |-> sender.attestation,
                     chain |-> sender.chain, context |-> sender.context,
                     closure |-> sender.closure, lines |-> transitions, cut |-> cut,
                     sources |-> {[key |-> r.key, source |-> r.source,
                                   content |-> root[r.source]] : r \in references}]
     ELSE GiveUp
  /\ UNCHANGED <<bundle, cut>>

\* Mutation: build_bundle takes what it reads.
SourcesReadAgain == \A s \in sender.sources : root[s.source] # NoFile

SourcesUnchanged == \A s \in sender.sources : root[s.source] = s.content

\* All is read once more; the archive replaces the one there was, in place.
\* The sender has no limits: what there is to package may be of any extent.
Package ==
  /\ Sending("gathered")
  /\ IF /\ NoFile \notin {attestationFile, chainFile}
        /\ Keys(Referenced(sender.chain, root)) = Keys(sender.sources)
        /\ SourcesUnchanged
     THEN /\ \E extent \in Extents :
               sender' = [pc |-> "writing",
                          archive |-> [attestation |-> attestationFile, chain |-> chainFile,
                                       descriptor |-> [attestation |-> sender.attestation,
                                                       chain |-> sender.chain],
                                       lines |-> sender.lines, cut |-> sender.cut,
                                       sources |-> {[s EXCEPT !.content = root[s.source]] :
                                                      s \in sender.sources},
                                       closure |-> sender.closure,
                                       context |-> sender.context,
                                       extent |-> extent]]
          /\ bundle' = Partial
     ELSE GiveUp /\ UNCHANGED bundle
  /\ UNCHANGED cut

Hand ==
  /\ Sending("writing")
  /\ bundle' = sender.archive
  /\ GiveUp
  /\ UNCHANGED cut

\* The sender's process stops, perhaps within the archive.
Stop ==
  /\ sender.pc # "resting"
  /\ Sending(sender.pc)
  /\ GiveUp
  /\ UNCHANGED <<bundle, cut>>

-----------------------------------------------------------------------------
(* The receiver.                                                           *)

Unpacked(archive) ==
  [n \in Sources |->
    IF \E s \in archive.sources : s.source = n
    THEN (CHOOSE s \in archive.sources : s.source = n).content ELSE NoFile]

\* The sources are those of the chain's references: the manifest of what a
\* proof must contain.
SourcesComplete(archive, files) ==
  Keys(archive.sources) = Keys(Referenced(archive.chain, files))

\* Each verifier measures the archive: the size of the file, the number of its
\* members, what they come to unpacked, and how far they were compressed.  The
\* script allows less of the first and of the third, and measures the JSON in
\* it as well: bytes, nodes, depth and strings of a document, repeated keys,
\* and the number of transitions.
Within(archive, limits) == \A m \in DOMAIN limits : archive.extent[m] <= limits[m]

\* What the descriptor states of the files beside it.
Described(archive) ==
  archive.descriptor = [attestation |-> archive.attestation, chain |-> archive.chain]

\* verify_reliability_proof_bundle.  A torn line is repaired in the copy; the
\* envelope is verified against the context that is packaged with it.
LibraryAccepts(archive) ==
  LET files == Unpacked(archive) IN
  /\ Within(archive, LibraryLimits)
  /\ SourcesComplete(archive, files)
  /\ OutcomeVerifies(archive.attestation, archive.chain, archive.lines, files)
  /\ Described(archive)
  /\ LineageHolds(archive.chain, files)
  /\ archive.closure = Closure(archive.chain, files)

\* verify_package, without the library: what the descriptor binds together.
DescriptorHolds(archive) ==
  /\ archive.attestation = archive.descriptor.attestation
  /\ archive.chain = archive.descriptor.chain
  /\ Cardinality(Keys(archive.sources)) = Cardinality(archive.sources)

\* Every line of the history must parse, and one of them is the transition.
TransitionFound(archive) ==
  LET transition == archive.descriptor.attestation.transition IN
  /\ ~archive.cut
  /\ Cardinality({i \in 1..Len(archive.lines) :
                    archive.lines[i].number = transition.number}) = 1
  /\ transition \in Range(archive.lines)
  /\ transition.chain = archive.descriptor.chain

\* With the trust root that signed the packaged trust state.
AttestationHolds(archive) ==
  archive.context # NoRef => archive.context.attestation = archive.attestation

ScriptAccepts(archive) ==
  /\ Within(archive, ScriptLimits)
  /\ DescriptorHolds(archive)
  /\ archive.attestation.chain = archive.descriptor.chain
  /\ TransitionFound(archive)
  /\ AttestationHolds(archive)

-----------------------------------------------------------------------------
Next ==
  \/ \E name \in Rewritable : Rewrite(name) \/ Withdraw(name)
  \/ \E plan \in Plans : StartChain(plan)
  \/ FinishChain \/ PrepareBasis
  \/ Transit \/ Revoke \/ Tear
  \/ \E signing \in BOOLEAN : Attest(signing)
  \/ Load \/ Verify \/ Trace \/ Gather \/ Package \/ Hand \/ Stop

Spec == Init /\ [][Next]_vars

-----------------------------------------------------------------------------
(* Properties.                                                             *)

\* The provenance graph names no file but those that the chain refers to, and
\* each with the same digest.
SelfContained(archive) ==
  \A node \in archive.closure.graph.nodes :
    node.path # NoRef =>
      \E r \in Referenced(archive.chain, Unpacked(archive)) :
        r.source = node.path /\ r.digest = node.digest

\* Once the archive is written, its receiver accepts it, whatever happened to
\* the files while it was made: unless the chain or the attestation was
\* replaced meanwhile, or the graph names a file that no reference leads to,
\* or leads to with another content, or the archive is beyond the library's
\* limits, which the sender does not look at.  Nor does it see the third of
\* these if the file was as the graph says while the lineage was traced, and
\* as the chain says before and afterwards.
HandedProofsHold ==
  Complete(bundle) =>
    \/ LibraryAccepts(bundle)
    \/ bundle.descriptor # [attestation |-> bundle.attestation, chain |-> bundle.chain]
    \/ ~SelfContained(bundle)
    \/ ~Within(bundle, LibraryLimits)

\* Library and script answer alike, except where the history is torn or the
\* graph names files that are not packaged as it says, which only one of them
\* looks at: what the script accepts the library accepts, and what the library
\* accepts the script refuses only for its tighter limits.
VerifiersAgree ==
  Complete(bundle) /\ ~bundle.cut /\ SelfContained(bundle) =>
    /\ ScriptAccepts(bundle) => LibraryAccepts(bundle)
    /\ LibraryAccepts(bundle) => ScriptAccepts(bundle) \/ ~Within(bundle, ScriptLimits)
=============================================================================
