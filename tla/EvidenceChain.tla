---------------------------- MODULE EvidenceChain ----------------------------
(***************************************************************************)
(* The evidence behind a reliability decision, as it lies in a directory:  *)
(* how a chain of references is built over it, and what it means that a    *)
(* chain, its recovery, its decision basis and its lineage verify against  *)
(* a root.  A root is any directory: that of the producer, or the one a    *)
(* receiver unpacks a bundle into.                                         *)
(*                                                                         *)
(* Digests are collision free, so a digest is the content it is taken of.  *)
(* Of a content only what decisions depend on is kept.  References always  *)
(* name a file of the root by its name, as those do that the builder makes.*)
(***************************************************************************)
EXTENDS FiniteSets, Naturals

CONSTANTS NoFile, NoRef

\* The files a chain may refer to.  "evidence" is one artifact, "receipt" the
\* receipt bound to it, "graph" the provenance of the whole.
Names == {"run", "state", "evidence", "receipt", "graph", "integrity", "attestation",
          "comparison", "reconciliation", "binding", "recovery", "basis"}

Mandatory == {"run", "state", "evidence", "graph", "integrity"}

\* Files that chains reach only through others: the states compared, and a
\* file that nothing but a provenance graph names.
Sources == Names \union {"before", "after", "notes"}

Outcome(state, decision, reconciliation) ==
  [state |-> state, decision |-> decision, reconciliation |-> reconciliation]

\* The part of an outcome that a decision basis states.
Decided(outcome) == <<outcome.state, outcome.decision>>

-----------------------------------------------------------------------------
(* What the artifacts say.                                                 *)

\* The identity by which the builder refers to a content: what the content
\* records of itself, and failing that the name of its file.
Identity(name, content) ==
  CASE name \in {"receipt", "recovery"} -> <<name, content.id>>
    [] name = "reconciliation" ->
         <<name, IF content.reconciliation # NoRef THEN content.reconciliation
                 ELSE content.bundle>>
    [] name \in {"state", "before", "after"} -> <<"state", content>>
    [] name \in {"comparison", "binding"} -> <<name, content>>
    [] OTHER -> <<name, NoRef>>

\* The same artifact as the recovery verifier reads it.
RecoveredIdentity(reconciliation) ==
  <<"reconciliation", IF reconciliation.bundle # NoRef THEN reconciliation.bundle
                      ELSE reconciliation.reconciliation>>

Compared(root, before, after) ==
  [before |-> [source |-> before, digest |-> root[before]],
   after |-> [source |-> after, digest |-> root[after]]]

InputsOf(comparison) == {comparison.before, comparison.after}

Discrepant(comparison) == comparison.before.digest # comparison.after.digest

Successful(reconciliation) == reconciliation.status \in {"verified", "recovered"}

\* A binding of a comparison to the reconciliation that resolves it.
Bound(root) ==
  [comparison |-> root["comparison"],
   identity |-> Identity("reconciliation", root["reconciliation"]),
   digest |-> root["reconciliation"],
   status |-> root["reconciliation"].status]

BindingMatches(binding, comparison, reconciliation) ==
  /\ binding.comparison = comparison
  /\ binding.digest = reconciliation
  /\ Successful(reconciliation)
  /\ Identity("reconciliation", reconciliation) = binding.identity
  /\ reconciliation.status = binding.status

-----------------------------------------------------------------------------
(* The files of an agent.                                                  *)

\* What nothing derives is told apart by a version.
Raw(name, version) == [raw |-> <<name, version>>]

\* A provenance graph over some of the files and the states that are compared,
\* with an edge that it requires.  Everything derives from the run, a basis from
\* all the rest.
GraphOver(files, names) ==
  LET inputs == IF "comparison" \in names THEN {"before", "after"} ELSE {}
      present == {n \in (names \ {"graph", "receipt"}) \union inputs : files[n] # NoFile}
      IdentityOf(n) == IF n = "evidence" /\ "receipt" \in names /\ files["receipt"] # NoFile
                       THEN Identity("receipt", files["receipt"])
                       ELSE Identity(n, files[n]) IN
  [nodes |-> {[id |-> n, identity |-> IdentityOf(n), digest |-> files[n],
               parents |-> CASE n = "run" -> {}
                             [] n = "basis" -> present \ {"basis"}
                             [] OTHER -> present \intersect {"run"},
               path |-> n] : n \in present},
   required |-> {<<"state", "run">>} \intersect (present \X present)]

-----------------------------------------------------------------------------
(* Building a chain.  Its identity is taken over files that are read once,  *)
(* some of its references over a second reading of the same files.          *)

Ref(root, name) == [identity |-> Identity(name, root[name]), digest |-> root[name]]

ReceiptFits(root, graph) ==
  LET receipt == root["receipt"] IN
  /\ receipt.artifact = root["evidence"]
  /\ receipt.graph \in {NoRef, graph}
  /\ receipt.run \in {NoRef, Identity("run", root["run"])}

\* The references that are kept from the first reading.
Early == {"evidence", "receipt", "comparison", "binding", "basis"}

\* The files whose digests the chain's identity covers.
Identified == Early \union {"run", "state", "graph", "integrity"}

Draft(root, given, outcome) ==
  [id |-> [n \in given \intersect Identified |-> root[n]],
   refs |-> [n \in given \intersect Early |->
              IF n = "evidence" /\ "receipt" \in given
              THEN [Ref(root, n) EXCEPT !.identity = Identity("receipt", root["receipt"])]
              ELSE Ref(root, n)],
   given |-> given,
   outcome |-> outcome]

DraftAccepted(root, given, outcome) ==
  /\ \A n \in given \intersect Identified : root[n] # NoFile
  /\ "receipt" \in given => ReceiptFits(root, root["graph"])
  /\ "binding" \in given =>
       /\ {"comparison", "reconciliation"} \subseteq given
       /\ root["reconciliation"] # NoFile
       /\ BindingMatches(root["binding"], root["comparison"], root["reconciliation"])
  /\ "basis" \in given => root["basis"].decided = Decided(outcome)

Chain(draft, root) ==
  [id |-> draft.id,
   refs |-> [n \in Names |->
              IF n \notin draft.given THEN NoRef
              ELSE IF n \in Early THEN draft.refs[n] ELSE Ref(root, n)],
   outcome |-> draft.outcome]

Has(chain, name) == chain.refs[name] # NoRef

\* What ReliabilityEvidenceChain itself demands of an outcome.
OutcomeAdmissible(outcome) ==
  /\ outcome.decision = "accept" =>
       /\ outcome.reconciliation \in {"verified", "recovered"}
       /\ outcome.state \in {"reliable", "recovered"}
  /\ outcome.decision = "reject" => outcome.state \in {"unreliable", "degraded"}

\* The decision basis that is prepared for a chain, and the chain bound to it.
BasisFor(chain) ==
  [decided |-> Decided(chain.outcome),
   inputs |-> {chain.refs[n].digest : n \in {"run", "state", "evidence"} \union
                {m \in {"comparison", "reconciliation", "recovery"} : Has(chain, m)}}]

WithBasis(chain, basis) ==
  [chain EXCEPT !.refs["basis"] = [identity |-> Identity("basis", basis), digest |-> basis]]

-----------------------------------------------------------------------------
(* Verifying a chain against a root.                                       *)

\* The references whose files are compared with their digests up front.
Direct == Names \ {"receipt", "binding", "basis"}

SourcesMatch(chain, root) ==
  \A n \in Direct : Has(chain, n) => root[n] = chain.refs[n].digest

ReceiptVerifies(chain, root) ==
  LET receipt == root["receipt"]
      evidence == chain.refs["evidence"] IN
  /\ receipt # NoFile
  /\ receipt = chain.refs["receipt"].digest
  /\ evidence.identity = Identity("receipt", receipt)
  /\ evidence.digest = receipt.artifact
  /\ root["evidence"] = receipt.artifact
  /\ receipt.run \in {NoRef, chain.refs["run"].identity}
  /\ receipt.graph \in {NoRef, chain.refs["graph"].digest}

ComparisonVerifies(chain, root) ==
  LET comparison == root["comparison"] IN
  /\ Identity("comparison", comparison) = chain.refs["comparison"].identity
  /\ \A input \in InputsOf(comparison) : root[input.source] = input.digest

BindingVerifies(chain, root) ==
  /\ Has(chain, "comparison") /\ Has(chain, "reconciliation")
  /\ root["binding"] = chain.refs["binding"].digest
  /\ BindingMatches(root["binding"], root["comparison"], root["reconciliation"])
  /\ root["binding"].comparison = chain.refs["comparison"].digest
  /\ root["binding"].identity = chain.refs["reconciliation"].identity
  /\ root["binding"].digest = chain.refs["reconciliation"].digest

\* Everything but the receipt, the binding and the basis may be an input of one.
BasisVerifies(chain, root) ==
  LET basis == root["basis"] IN
  /\ basis = chain.refs["basis"].digest
  /\ basis.decided = Decided(chain.outcome)
  /\ basis.inputs \subseteq {chain.refs[n].digest : n \in {m \in Direct : Has(chain, m)}}

ChainVerifies(chain, root) ==
  /\ SourcesMatch(chain, root)
  /\ Has(chain, "receipt") => ReceiptVerifies(chain, root)
  /\ Has(chain, "comparison") => ComparisonVerifies(chain, root)
  /\ Has(chain, "binding") => BindingVerifies(chain, root)
  /\ Has(chain, "basis") => BasisVerifies(chain, root)

RecoveryVerifies(chain, root) ==
  LET recovery == root["recovery"]
      reconciliation == root["reconciliation"] IN
  /\ Has(chain, "recovery") /\ Has(chain, "reconciliation")
  /\ recovery = chain.refs["recovery"].digest
  /\ reconciliation = chain.refs["reconciliation"].digest
  /\ Identity("recovery", recovery) = chain.refs["recovery"].identity
  /\ recovery.status = "applied"
  /\ RecoveredIdentity(reconciliation) = chain.refs["reconciliation"].identity
  /\ Successful(reconciliation)
  /\ recovery.source = RecoveredIdentity(reconciliation)[2]
  /\ chain.outcome.reconciliation = "recovered"

-----------------------------------------------------------------------------
(* Lineage: every material reference is one node of the provenance graph,  *)
(* and each of them derives from the run.                                  *)

Edges(graph) == UNION {{<<n.id, p>> : p \in n.parents} : n \in graph.nodes}

\* As many steps along the edges as there are nodes reach all that is reached.
AncestorsFrom(graph, ids) ==
  LET edges == Edges(graph)
      seen[k \in Nat] ==
        IF k = 0 THEN ids
        ELSE LET before == seen[k - 1] IN
             before \union {e[2] : e \in {f \in edges : f[1] \in before}} IN
  seen[Cardinality(graph.nodes)]

Reaches(graph, id, target) == target \in AncestorsFrom(graph, {id})

Acyclic(graph) == \A n \in graph.nodes : n.id \notin AncestorsFrom(graph, n.parents)

GraphVerifies(graph, root) ==
  /\ \A n \in graph.nodes : n.path # NoRef => root[n.path] = n.digest
  /\ Acyclic(graph)
  /\ graph.required \subseteq Edges(graph)

\* The comparison whose inputs count is the one that lies in the root.
ComparedInputs(chain, root) ==
  IF Has(chain, "comparison") /\ root["comparison"] # NoFile
  THEN {[key |-> <<"input", i.digest>>, identity |-> Identity("state", i.digest),
         digest |-> i.digest, source |-> i.source] : i \in InputsOf(root["comparison"])}
  ELSE {}

ReferencesOf(chain, names) ==
  {[key |-> <<n, NoRef>>, identity |-> chain.refs[n].identity, digest |-> chain.refs[n].digest,
    source |-> n] : n \in {m \in names : Has(chain, m)}}

Material(chain, root) ==
  ReferencesOf(chain, {"run", "state", "evidence", "basis", "comparison",
                       "reconciliation", "recovery"})
    \union ComparedInputs(chain, root)

NodesFor(graph, item) ==
  {n \in graph.nodes : n.identity = item.identity /\ n.digest = item.digest}

NodeOf(graph, item) == CHOOSE n \in NodesFor(graph, item) : TRUE

\* The witness that is packaged: which node stands for which reference.
Closure(chain, root) ==
  [graph |-> root["graph"],
   nodes |-> {<<item.key, NodeOf(root["graph"], item).id>> : item \in Material(chain, root)}]

\* What a basis may be derived from, and what it may cite besides.
LineageDigests(chain) ==
  {chain.refs[n].digest : n \in {m \in {"run", "state", "evidence", "comparison",
                                         "reconciliation", "recovery"} : Has(chain, m)}}

ContextDigests(chain) ==
  {chain.refs[n].digest : n \in {m \in {"graph", "integrity", "attestation"} : Has(chain, m)}}

BasisDerives(chain, root) ==
  LET graph == root["graph"]
      basis == CHOOSE item \in Material(chain, root) : item.key[1] = "basis" IN
  /\ root["basis"] # NoFile
  /\ \A digest \in root["basis"].inputs \ ContextDigests(chain) :
       /\ digest \in LineageDigests(chain)
       /\ \E item \in Material(chain, root) :
            /\ item.digest = digest
            /\ Reaches(graph, NodeOf(graph, basis).id, NodeOf(graph, item).id)

LineageHolds(chain, root) ==
  LET graph == root["graph"]
      material == Material(chain, root)
      run == CHOOSE item \in material : item.key[1] = "run"
  IN
  /\ graph # NoFile
  /\ graph = chain.refs["graph"].digest
  /\ GraphVerifies(graph, root)
  /\ \A item \in material : Cardinality(NodesFor(graph, item)) = 1
  /\ \A i, j \in material :
       i # j => i.key # j.key /\ NodeOf(graph, i) # NodeOf(graph, j)
  /\ \A item \in material : Reaches(graph, NodeOf(graph, item).id, NodeOf(graph, run).id)
  /\ Has(chain, "basis") => BasisDerives(chain, root)
=============================================================================
