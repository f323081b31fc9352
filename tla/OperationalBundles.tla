-------------------------- MODULE OperationalBundles --------------------------
(***************************************************************************)
(* Operational bundles: a package of artifacts, built from the files that  *)
(* a specification names, exported whole or up to a ceiling of             *)
(* sensitivity, and verified, while the files are replaced, an export may  *)
(* stop halfway and another may be written over it.  An artifact's content *)
(* stands for its digest; how large it is, packed and unpacked, is of      *)
(* interest because only the verifier has limits, which are given here as  *)
(* what they leave to the artifacts beside the manifest.  The order of the *)
(* artifacts is that of the specification.                                 *)
(***************************************************************************)
EXTENDS Naturals, Sequences, FiniteSets, FiniteSetsExt

CONSTANTS
  Order,            \* the artifacts of every specification, in their order
  Specs,            \* specifications: [level, from, expected] by artifact
  Contents,         \* what is in the artifacts' files
  Ceilings,         \* sensitivities an export may be limited to
  Extent,           \* how large each content is: [packed, unpacked]
  MaxInput,         \* DEFAULT_MAX_INPUT_BYTES, of the file
  MaxMembers,       \* max_archive_members, the manifest among them
  MaxRatio,         \* max_archive_compression_ratio, of a member
  MaxUnpacked,      \* max_archive_uncompressed_bytes, of all members
  MaxReplacements, MaxExports,
  AnyContent, NoZip, Torn, NoCheck

Named == {Order[i] : i \in 1..Len(Order)}

BundlesAssumption ==
  /\ Specs \subseteq [Named -> [level : Nat, from : SUBSET Named,
                              expected : Contents \union {AnyContent}]]
  /\ Ceilings \subseteq Nat
  /\ Extent \in [Contents -> [packed : Nat, unpacked : Nat]]
  /\ {MaxInput, MaxMembers, MaxRatio, MaxUnpacked} \subseteq Nat
  /\ MaxReplacements \in Nat
  /\ MaxExports \in Nat

VARIABLES
  sources,          \* the content of every artifact's file
  output,           \* the file that bundles are exported to
  packing,          \* the builder's work
  checking,         \* the verifier's work
  replaced, written \* how often files were replaced, and bundles exported

bundleVars == <<sources, output, packing, checking, replaced, written>>

-----------------------------------------------------------------------------
(* Bundles: artifacts with their content, sensitivity and provenance.      *)

\* At least what inherit_sensitivity returns, the highest of the sources.
Inherits(artifacts, x) ==
  \A s \in artifacts[x].from : artifacts[s].level <= artifacts[x].level

\* Mutation: only the artifact's own sensitivity is looked at.
ValidAlone(artifacts) ==
  \A x \in DOMAIN artifacts : artifacts[x].from \subseteq DOMAIN artifacts

\* OperationalBundle.__post_init__
ValidBundle(artifacts) ==
  \A x \in DOMAIN artifacts :
    /\ artifacts[x].from \subseteq DOMAIN artifacts
    /\ Inherits(artifacts, x)

\* With an artifact, what it is derived from is there as well.
Closed(artifacts, some) ==
  \A x \in some : artifacts[x].from \intersect DOMAIN artifacts \subseteq some

\* What an artifact goes back to: what no closed set with its sources lacks.
Ancestors(artifacts, x) ==
  {y \in DOMAIN artifacts :
    \A some \in SUBSET DOMAIN artifacts :
      /\ artifacts[x].from \intersect DOMAIN artifacts \subseteq some
      /\ Closed(artifacts, some)
      => y \in some}

\* ProvenanceGraph with the bundle as a node of its own: identifiers are
\* unique, and validate_acyclic
Provable(artifacts) ==
  /\ "bundle" \notin DOMAIN artifacts
  /\ \A x \in DOMAIN artifacts : x \notin Ancestors(artifacts, x)

\* filter_disclosable_ids and export_disclosed_bundle
Disclosed(artifacts, ceiling) ==
  [x \in {y \in DOMAIN artifacts : artifacts[y].level <= ceiling} |-> artifacts[x]]

Total(artifacts, measure) ==
  MapThenSumSet(LAMBDA x : Extent[artifacts[x].content][measure], DOMAIN artifacts)

\* The first check of verify_bundle
SmallEnough(artifacts) == Total(artifacts, "packed") <= MaxInput

\* validate_archive_envelope, and validate_archive_metadata of every member
WithinEnvelope(artifacts) ==
  /\ Cardinality(DOMAIN artifacts) + 1 <= MaxMembers
  /\ \A x \in DOMAIN artifacts :
       LET extent == Extent[artifacts[x].content] IN
       extent.unpacked <= MaxRatio * (IF extent.packed = 0 THEN 1 ELSE extent.packed)
  /\ Total(artifacts, "unpacked") <= MaxUnpacked

\* assess_retention: what is too sensitive is set aside before what is too old.
Assess(artifacts, ceiling, old) ==
  CASE artifacts = <<>> -> "retain"
    [] \E x \in DOMAIN artifacts : artifacts[x].level > ceiling -> "quarantine"
    [] artifacts # <<>> /\ old -> "expired"
    [] OTHER -> "retain"

-----------------------------------------------------------------------------
At(step) == [step |-> step, spec |-> <<>>, artifacts |-> <<>>, ceiling |-> 0]

Init ==
  /\ \E content \in Contents : sources = [x \in Named |-> content]
  /\ output = NoZip
  /\ packing = At("idle")
  /\ checking = NoCheck
  /\ replaced = 0
  /\ written = 0

\* A producer replaces a file.
ReplaceSource(x, content) ==
  /\ replaced < MaxReplacements
  /\ sources[x] # content
  /\ sources' = [sources EXCEPT ![x] = content]
  /\ replaced' = replaced + 1
  /\ UNCHANGED <<output, packing, checking, written>>

-----------------------------------------------------------------------------
(* The builder.                                                            *)

Pack(work) ==
  /\ packing' = work
  /\ UNCHANGED <<sources, checking, replaced>>

\* One bundle is built, and exported any number of times.
BeginBuild(spec) ==
  /\ packing.step = "idle"
  /\ Pack([At("reading") EXCEPT !.spec = spec])
  /\ UNCHANGED <<output, written>>

\* The file is read once, for its digest and for the bundle; a digest that
\* was expected is compared, and the bundle is validated after the last one.
ReadSource ==
  /\ packing.step = "reading"
  /\ LET x == Order[Cardinality(DOMAIN packing.artifacts) + 1]
         spec == packing.spec[x]
         artifacts == [y \in DOMAIN packing.artifacts \union {x} |->
                         IF y = x THEN [level |-> spec.level, from |-> spec.from,
                                        content |-> sources[x]]
                         ELSE packing.artifacts[y]] IN
     IF spec.expected \notin {AnyContent, sources[x]} THEN Pack(At("stopped"))
     ELSE CASE DOMAIN artifacts # Named -> Pack([packing EXCEPT !.artifacts = artifacts])
            [] DOMAIN artifacts = Named /\ ValidBundle(artifacts) ->
                 Pack([At("built") EXCEPT !.artifacts = artifacts])
            [] OTHER -> Pack(At("stopped"))
  /\ UNCHANGED <<output, written>>

\* The constructor of the disclosed bundle may refuse; the file is truncated
\* before anything is written to it.
BeginExport(ceiling) ==
  /\ packing.step = "built"
  /\ written < MaxExports
  /\ IF ValidBundle(Disclosed(packing.artifacts, ceiling))
     THEN /\ output' = Torn
          /\ written' = written + 1
          /\ Pack([packing EXCEPT !.step = "writing", !.ceiling = ceiling])
     ELSE /\ Pack([packing EXCEPT !.step = "refused", !.ceiling = ceiling])
          /\ UNCHANGED <<output, written>>

FinishExport ==
  /\ packing.step = "writing"
  /\ output' = Disclosed(packing.artifacts, packing.ceiling)
  /\ Pack([packing EXCEPT !.step = "built"])
  /\ UNCHANGED written

\* The builder is done, or stops in the middle of what it does.
LeaveBuild ==
  /\ packing.step \in {"built", "writing"}
  /\ Pack(At("stopped"))
  /\ UNCHANGED <<output, written>>

-----------------------------------------------------------------------------
(* The verifier asks for the size of the file, and reads it for its        *)
(* members, for the digest of the node that stands for it, and once more   *)
(* to compare that digest.  Exports are held against none of its limits.   *)

Check(work) ==
  /\ checking' = work
  /\ UNCHANGED <<sources, output, packing, replaced, written>>

CheckAt(step) == [step |-> step, read |-> output, digest |-> output, disturbed |-> FALSE]

MeasureBundle ==
  /\ checking = NoCheck
  /\ output # NoZip
  /\ Check(CheckAt(IF output # Torn /\ ~SmallEnough(output) THEN "refused" ELSE "manifest"))

\* _read_manifest: a file that is not a whole archive has no manifest.
ReadManifest ==
  /\ checking # NoCheck
  /\ checking.step = "manifest"
  /\ Check(CheckAt(IF output = Torn \/ ~WithinEnvelope(output) THEN "refused" ELSE "graph"))

\* build_provenance_graph_for_bundle and build_integrity_proof
BuildGraph ==
  /\ checking # NoCheck
  /\ checking.step = "graph"
  /\ Check([checking EXCEPT
              !.step = IF Provable(checking.read) THEN "compare" ELSE "refused",
              !.digest = output,
              !.disturbed = output # checking.read])

CompareDigest ==
  /\ checking # NoCheck
  /\ checking.step = "compare"
  /\ Check([checking EXCEPT
              !.step = IF output = checking.digest THEN "verified" ELSE "refused",
              !.disturbed = @ \/ output # checking.read])

LeaveCheck ==
  /\ checking # NoCheck
  /\ checking.step \in {"verified", "refused"}
  /\ Check(NoCheck)

Next ==
  \/ \E x \in Named, content \in Contents : ReplaceSource(x, content)
  \/ \E spec \in Specs : BeginBuild(spec)
  \/ ReadSource
  \/ \E ceiling \in Ceilings : BeginExport(ceiling)
  \/ FinishExport
  \/ LeaveBuild
  \/ MeasureBundle \/ ReadManifest \/ BuildGraph \/ CompareDigest
  \/ LeaveCheck

-----------------------------------------------------------------------------
\* Disclosure never fails on a bundle that was built, although it drops what
\* other artifacts may be derived from; what it discloses goes back to nothing
\* above its ceiling, so a policy with that ceiling sets nothing aside; and a
\* whole file that stays verifies, whatever was replaced while it was built,
\* unless its provenance is circular or it is beyond a limit of the verifier:
\* the size of the file, the number of members, how far one of them was
\* compressed, and what they come to unpacked.  The exports are not held
\* against these limits, so such a file is written and never verifies.
DisclosureSound ==
  /\ packing.step # "refused"
  /\ packing.step = "writing" =>
       LET disclosed == Disclosed(packing.artifacts, packing.ceiling) IN
       /\ \A x \in DOMAIN disclosed : \A y \in Ancestors(packing.artifacts, x) :
            packing.artifacts[y].level <= packing.ceiling
       /\ \A old \in BOOLEAN : Assess(disclosed, packing.ceiling, old) # "quarantine"
  /\ checking # NoCheck /\ checking.step = "refused" =>
       \/ checking.disturbed
       \/ checking.read = Torn
       \/ ~Provable(checking.read)
       \/ ~SmallEnough(checking.read)
       \/ ~WithinEnvelope(checking.read)
=============================================================================
