------------------------------ MODULE MCComponents ------------------------------
(***************************************************************************)
(* Model checking of TrustedAttestations and of Components.  Each          *)
(* behaviour exercises one component, or some of what it can do, which is  *)
(* chosen in the initial state; the others stay as they are.               *)
(***************************************************************************)
EXTENDS TrustedAttestations, Components

CONSTANTS
  Focus,                                \* what is to be checked
  p1, p2, a, b, o1, o2, k1, k2, m1, m2, \* publishers, signers, outcomes, keys
  r1, r2, s1, A, B, n, c,               \* runs, a span, roots, a file name
  f1, f2                                \* files of a release

VARIABLE focus

mcVars == <<focus, vars, captureVars, treeVars, registryVars, registerVars,
            serviceVars, proofVars, profileVars, bundleVars>>

-----------------------------------------------------------------------------
(* Signed trust states.  "s4" lists k1 again after "s3" removed it; the    *)
(* states with an x, y or z may not follow the state they name.            *)

Active(m) == [material |-> m, status |-> "active", by |-> NoKey]
Revoked(m) == [material |-> m, status |-> "revoked", by |-> NoKey]
Superseded(m, k) == [material |-> m, status |-> "superseded", by |-> k]
OnlyK1(anchor) == [k \in {k1} |-> anchor]
OnlyK2(anchor) == [k \in {k2} |-> anchor]
Both(anchor1, anchor2) == [k \in {k1, k2} |-> IF k = k1 THEN anchor1 ELSE anchor2]
State(name, version, issued, before, anchors) ==
  [version |-> version, issued |-> issued, previous |-> before,
   anchors |-> anchors, digest |-> name]

Revocation == {
  State("s1", 1, 1, NoDigest, OnlyK1(Active(m1))),
  State("r2", 2, 2, "s1", OnlyK1(Revoked(m1)))}

States == Revocation \union {
  State("s2", 2, 2, "s1", Both(Superseded(m1, k2), Active(m1))),
  State("s3", 3, 3, "s2", OnlyK2(Active(m1))),
  State("s4", 4, 4, "s3", Both(Active(m1), Active(m1))),
  State("r3", 3, 3, "r2", Both(Revoked(m1), Active(m1))),
  State("x2", 2, 1, "s1", OnlyK1(Revoked(m1))),
  State("x3", 3, 3, "s2", Both(Active(m1), Active(m1))),
  State("y3", 3, 3, "s1", OnlyK2(Revoked(m1))),
  State("z3", 3, 3, "r2", Both(Revoked(m2), Active(m1)))}

\* A subject can fail, recover, degrade and be reliable again; one chain
\* declares a recovery it cannot show, and one a decision that does not go
\* with its state.
Chain(id, state, decision, recovered) ==
  [id |-> id, state |-> state, decision |-> decision, recovered |-> recovered]

FiveChains ==
  {Chain(1, "unreliable", "reject", FALSE),
   Chain(2, "recovered", "accept", TRUE),
   Chain(3, "degraded", "review", FALSE),
   Chain(4, "recovered", "accept", FALSE),
   Chain(5, "degraded", "reject", FALSE)}

\* Two contracts that one profile asks for fill a page, a third one is for
\* another profile.
ThreeContracts ==
  {[type |-> "runtime_trace", at |-> 1],
   [type |-> "model_invocation", at |-> 2],
   [type |-> "policy", at |-> 3]}

-----------------------------------------------------------------------------
(* What is exercised of each.                                              *)

\* Two publishers race through the states, one signer follows them.
PublishingNext ==
  /\ Next
  /\ phase'[b] = "idle"
  /\ job'[a] # NoJob => job'[a].id = o1

\* Two signers race for two outcomes while their key is revoked.
SigningNext ==
  /\ Next
  /\ \A i \in 1..Len(history'.lines) : history'.lines[i] \in Revocation
  /\ publishing'[p2] = NoState
  /\ interruptions' = 0

\* Two model runs share a window and a journal that are too small for both.
CallbacksNext ==
  /\ Capture!Next
  /\ capturing'[s1] = "new"
  /\ up' /\ faults' = 0

\* A run and a span, a journal write that fails in the first process, and a
\* new process with the span only; a process drains its window once.
ProcessesNext ==
  /\ Capture!Next
  /\ capturing'[r2] = "new"
  /\ faults' # faults => restarts = 0
  /\ restarts = 1 => capturing'[r1] = capturing[r1]
  /\ up' /\ delivered' # delivered => delivered = {}

\* One of two files has been uploaded; two callers publish and observe them
\* while files come and go, and read that file last and as it was uploaded.
ObserversInit ==
  /\ uploaded = [name \in Publication!AllNames |-> IF name = f2 THEN "permitted" ELSE "none"]
  /\ listed = {f2}
  /\ present = TRUE
  /\ yankedNow = FALSE
  /\ changes = 1
  /\ clock = 0
  /\ receipt = NoReceipt
  /\ observations = Publication!EmptyFile
  /\ call = [p \in Callers |-> NoCall]
  /\ cuts = 0

ObserversNext ==
  /\ Publication!Next
  /\ clock' = 0 /\ cuts' = 0 /\ ~yankedNow'
  /\ (f2 \in listed) = (f2 \in listed') \/ ~present'
  /\ \A p \in Callers :
       call'[p] # NoCall /\ call'[p].got[f2] # "none" =>
         /\ call'[p].got[f2] = "permitted"
         /\ f1 \in call'[p].index.files => call'[p].got[f1] # "none"

\* One caller reads two files, with a clock and an append that is cut.
DownloadsNext == Publication!Next /\ call'[p2] = NoCall

\* Two of three requests are served side by side, under one key.
ReviewingNext ==
  /\ Reviewing!Next
  /\ auditCuts' = 0
  /\ Len(reviews'.lines) <= 1
  /\ \A w \in Workers :
       serving'[w] # NoRequest /\ serving'[w].post # NoPost =>
         serving'[w].post.key = k1 /\ serving'[w].post.corrects <= 1

\* Two requests side by side, one of which may be cut off.
InterruptingNext ==
  /\ Reviewing!Next
  /\ received' <= 2
  /\ Len(reviews'.lines) <= 1
  /\ \A w \in Workers :
       serving'[w] # NoRequest /\ serving'[w].post # NoPost =>
         serving'[w].post.key = k1 /\ serving'[w].post.corrects <= 1

\* One request after the other, from two authors.
CorrectingNext ==
  /\ Reviewing!Next
  /\ serving'[p2] = NoRequest
  /\ received' # received => serving[p1] = NoRequest

\* Exports of one workspace, its backup and restore.
ExportsNext ==
  /\ Directory!Next
  /\ tree'[B] = NoTree
  /\ installed' = 1 /\ stops' = 0

\* Exports of one workspace, with an operation that stops, or an upgrade and
\* then one that stops.
StopsNext ==
  /\ Directory!Next
  /\ tree'[B] = NoTree
  /\ numbered' = 0
  /\ installed' # installed => stops = 0

\* Two workspaces, restored over each other, with an upgrade and a stop.
RestoresNext ==
  /\ Directory!Next
  /\ doing' # Idle => doing'.kind # "export"

-----------------------------------------------------------------------------
(* Operational bundles.                                                    *)

\* Two artifacts may be derived from each other, a third one has the name of
\* the bundle's own node.  The first may be bound to a content if neither is
\* derived from the other.
Bundled == <<f1, f2, "bundle">>

Specifications ==
  LET Any ==
      {[x \in {f1, f2, "bundle"} |->
          [level |-> CASE x = f1 -> l1 [] x = f2 -> l2 [] OTHER -> 1,
           from |-> CASE x = f1 -> d1 [] x = f2 -> d2 [] OTHER -> d3,
           expected |-> IF x = f1 THEN e ELSE AnyContent]] :
         l1 \in 0..1, l2 \in 0..1, d1 \in {{}, {f2}}, d2 \in {{}, {f1}},
         d3 \in {{}, {f2}}, e \in {AnyContent, m1}} IN
  {spec \in Any :
     spec[f1].expected = AnyContent \/ spec[f1].from \union spec[f2].from = {}}

\* Two small artifacts verify, three have too many members, three that are
\* twice as large are too large packed, two of those unpacked; the last
\* content is compressed too far.
SmallBigAndDense ==
  [content \in {m1, m2, r1} |->
     CASE content = m1 -> [packed |-> 2, unpacked |-> 4]
       [] content = m2 -> [packed |-> 4, unpacked |-> 8]
       [] OTHER -> [packed |-> 1, unpacked |-> 12]]

ASSUME AttestationsAssumption
ASSUME Capture!ConstantsAssumption
ASSUME Directory!ConstantsAssumption
ASSUME Publication!ConstantsAssumption
ASSUME Register!ConstantsAssumption
ASSUME Reviewing!ConstantsAssumption
ASSUME Releasing!ConstantsAssumption
ASSUME Profiles!ProfilesAssumption
ASSUME Bundling!BundlesAssumption

MCInit ==
  /\ focus \in Focus
  /\ Init
  /\ Capture!Init
  /\ Directory!Init
  /\ IF focus = "observers" THEN ObserversInit ELSE Publication!Init
  /\ Register!Init
  /\ Reviewing!Init
  /\ Releasing!Init
  /\ Profiles!Init
  /\ Bundling!Init
  /\ sources["bundle"] = m1
  /\ focus # "bundling" => sources[f1] = m1 /\ sources[f2] = m1

OnlyTrust == UNCHANGED <<captureVars, treeVars, registryVars, registerVars, serviceVars,
  proofVars, profileVars, bundleVars>>
OnlyCapture == UNCHANGED <<vars, treeVars, registryVars, registerVars, serviceVars,
  proofVars, profileVars, bundleVars>>
OnlyTree == UNCHANGED <<vars, captureVars, registryVars, registerVars, serviceVars,
  proofVars, profileVars, bundleVars>>
OnlyRegistry == UNCHANGED <<vars, captureVars, treeVars, registerVars, serviceVars,
  proofVars, profileVars, bundleVars>>
OnlyRegister == UNCHANGED <<vars, captureVars, treeVars, registryVars, serviceVars,
  proofVars, profileVars, bundleVars>>
OnlyService == UNCHANGED <<vars, captureVars, treeVars, registryVars, registerVars,
  proofVars, profileVars, bundleVars>>
OnlyProof == UNCHANGED <<vars, captureVars, treeVars, registryVars, registerVars,
  serviceVars, profileVars, bundleVars>>
OnlyProfiles == UNCHANGED <<vars, captureVars, treeVars, registryVars, registerVars,
  serviceVars, proofVars, bundleVars>>
OnlyBundles == UNCHANGED <<vars, captureVars, treeVars, registryVars, registerVars,
  serviceVars, proofVars, profileVars>>

MCNext ==
  /\ UNCHANGED focus
  /\ \/ focus = "publishing" /\ PublishingNext /\ OnlyTrust
     \/ focus = "signing" /\ SigningNext /\ OnlyTrust
     \/ focus = "callbacks" /\ CallbacksNext /\ OnlyCapture
     \/ focus = "processes" /\ ProcessesNext /\ OnlyCapture
     \/ focus = "exports" /\ ExportsNext /\ OnlyTree
     \/ focus = "stops" /\ StopsNext /\ OnlyTree
     \/ focus = "restores" /\ RestoresNext /\ OnlyTree
     \/ focus = "observers" /\ ObserversNext /\ OnlyRegistry
     \/ focus = "downloads" /\ DownloadsNext /\ OnlyRegistry
     \/ focus = "register" /\ Register!Next /\ OnlyRegister
     \/ focus = "reviewing" /\ ReviewingNext /\ OnlyService
     \/ focus = "interrupting" /\ InterruptingNext /\ OnlyService
     \/ focus = "correcting" /\ CorrectingNext /\ OnlyService
     \/ focus = "releasing" /\ Releasing!Next /\ OnlyProof
     \/ focus = "profiles" /\ Profiles!Next /\ OnlyProfiles
     \/ focus = "bundling" /\ Bundling!Next /\ OnlyBundles

MCSpec == MCInit /\ [][MCNext]_mcVars

=============================================================================
