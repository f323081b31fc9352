----------------------------- MODULE ClaimProfiles -----------------------------
(***************************************************************************)
(* Claim profiles: what evidence a decision about a chain needs, and the   *)
(* evaluation that looks the AI contracts a chain refers to up in the      *)
(* workspace, page by page, while contracts are persisted and their        *)
(* payloads deleted.  A kind of reference is the name of its type, and an  *)
(* identity the name in its prefix with the contract it belongs to.        *)
(***************************************************************************)
EXTENDS Naturals, FiniteSets

CONSTANTS
  Contracts,      \* what producers capture: [type, at]; pages are ordered by `at`
  Limit,          \* rows of a page
  Asked,          \* the profiles that are asked for
  NoEvaluation

ProfilesAssumption ==
  /\ Limit \in Nat \ {0}
  /\ \A p, q \in Contracts : p.at \in Nat /\ (p.at = q.at => p = q)

VARIABLES
  indexed,        \* the contracts with a row and a receipt
  stored,         \* those whose payload is in the store
  evaluation

profileVars == <<indexed, stored, evaluation>>

-----------------------------------------------------------------------------
(* Profiles.                                                               *)

Core == {"run", "state", "provenance", "integrity"}
Standard == {"chain_verified", "reconciliation_verified", "decision_rationale_present"}

\* _profile, with its defaults
Builtin(contracts) ==
  [contracts |-> contracts, kinds |-> Core, conditions |-> Standard,
   decisions |-> {"accept", "review", "reject"},
   reconciliation |-> {"verified", "recovered"},
   reliability |-> {"reliable", "recovered"}, caveats |-> FALSE]

\* BUILTIN_CLAIM_PROFILES
BuiltinProfiles(id) ==
  CASE id = "rag_answer_verified.v1" ->
         Builtin({"prompt_evidence", "model_invocation", "retrieval_evidence"})
    [] id = "tool_action_authorized.v1" -> Builtin({"tool_call", "policy_evidence"})
    [] id = "model_invocation_reconstructable.v1" ->
         Builtin({"model_invocation", "runtime_trace"})
    [] id = "human_approval_recorded.v1" -> Builtin({"human_approval"})
    [] id = "incident_recovery_verified.v1" ->
         [Builtin({"runtime_trace"}) EXCEPT
            !.conditions = @ \union {"recovery_present"}, !.kinds = @ \union {"recovery"}]
    [] id = "release_evidence_complete.v1" ->
         [Builtin({"policy_evidence", "human_approval"}) EXCEPT !.caveats = TRUE]
    [] id = "ai_decision_with_limitations.v1" ->
         [Builtin({"policy_evidence", "evaluator_evidence"}) EXCEPT
            !.decisions = {"review"}, !.caveats = TRUE]
    [] id = "policy_reverification_required.v1" ->
         [Builtin({"policy_evidence"}) EXCEPT
            !.decisions = {"review", "reject"}, !.caveats = TRUE,
            !.reconciliation = {"stale", "invalid", "missing"},
            !.reliability = {"degraded", "unreliable"}]

\* get_builtin_claim_profile: the profiles of older callers ask for no contract.
Profile(id) ==
  CASE id \in {"release-evidence-complete", "compliance-handoff-ready"} ->
         [Builtin({}) EXCEPT !.caveats = TRUE]
    [] id = "model-prompt-change-review" ->
         [BuiltinProfiles("policy_reverification_required.v1") EXCEPT
            !.contracts = {}, !.conditions = {"chain_verified"},
            !.reconciliation = {}, !.reliability = {}]
    [] id = "incident-recovery-verified" -> BuiltinProfiles("incident_recovery_verified.v1")
    [] OTHER -> BuiltinProfiles(id)

\* The policy profile by either of its names.
Reverifies(id) == id \in {"policy_reverification_required.v1", "model-prompt-change-review"}

-----------------------------------------------------------------------------
(* References and chains.                                                  *)

Alias(type) ==
  CASE type = "prompt_evidence" -> "prompt"
    [] type = "retrieval_evidence" -> "retrieval"
    [] type = "policy_evidence" -> "policy"
    [] OTHER -> type

\* profile_evidence_reference: two of the types get the name profiles know.
ProfileKind(type) ==
  CASE type = "prompt" -> "prompt_evidence"
    [] type = "retrieval" -> "retrieval_evidence"
    [] OTHER -> type

ReferenceTo(ct, kind) == [kind |-> kind, name |-> ct.type, contract |-> ct]

\* _reference_matches_ai_contract
Matches(ref, type) ==
  /\ ref.kind \in {"evidence", type}
  /\ ref.name \in {type, Alias(type)}

\* A host's chain, over references to some contracts.
Chain(references, decision) ==
  [kinds |-> Core, references |-> references, verified |-> TRUE,
   reconciliation |-> "verified", reliability |-> "reliable",
   decision |-> decision, recovery |-> FALSE, rationale |-> TRUE]

\* release_claim_chain_from_bundle: references to a scan and to an approval,
\* which are contracts in name only.
ReleaseChain(approved) ==
  LET Named(name, at) == ReferenceTo([type |-> name, at |-> at], "evidence") IN
  Chain({Named("policy_evidence", 0)}
          \union (IF approved THEN {Named("human_approval", 0)} ELSE {}),
        IF approved THEN "accept" ELSE "review")

Chains ==
  {ReleaseChain(approved) : approved \in BOOLEAN}
  \union {Chain({ReferenceTo(ct, ProfileKind(ct.type)) : ct \in cts}, "accept") :
            cts \in SUBSET Contracts}

-----------------------------------------------------------------------------
(* The structural evaluation.                                              *)

Holds(chain, condition) ==
  CASE condition = "chain_verified" -> chain.verified
    [] condition = "reconciliation_verified" -> chain.reconciliation = "verified"
    [] condition = "recovery_present" -> chain.recovery
    [] condition = "decision_rationale_present" -> chain.rationale
    [] OTHER -> FALSE

\* evaluate_claim_profile: its failed conditions
Failed(chain, profile) ==
  (profile.kinds \ chain.kinds)
  \union {type \in profile.contracts : \A ref \in chain.references : ~Matches(ref, type)}
  \union {condition \in profile.conditions : ~Holds(chain, condition)}
  \union {s \in {chain.reconciliation} :
            profile.reconciliation # {} /\ s \notin profile.reconciliation}
  \union {s \in {chain.reliability} :
            profile.reliability # {} /\ s \notin profile.reliability}
  \union (IF chain.rationale THEN {} ELSE {"rationale-present"})
  \union {d \in {chain.decision} : d \notin profile.decisions}

\* _decision_for
DecisionFor(id, failed) ==
  CASE failed = {} /\ id = "ai_decision_with_limitations.v1" -> "accepted_with_limitations"
    [] failed = {} -> "accepted"
    [] failed # {} /\ Reverifies(id) -> "requires_reverification"
    [] failed # {} /\ "review" \in Profile(id).decisions /\ Profile(id).caveats ->
         "accepted_with_limitations"
    [] OTHER -> "rejected"

-----------------------------------------------------------------------------
(* What producers and hosts do.                                            *)

Init ==
  /\ indexed = {}
  /\ stored = {}
  /\ evaluation = NoEvaluation

\* ContractCaptureResult.persist: the payload, then the row; a payload that
\* was deleted comes back.
Persist(ct) ==
  /\ ct \notin stored
  /\ indexed' = indexed \union {ct}
  /\ stored' = stored \union {ct}
  /\ UNCHANGED evaluation

\* delete_evidence leaves the row.
DeletePayload(ct) ==
  /\ ct \in stored
  /\ stored' = stored \ {ct}
  /\ evaluation' = IF evaluation = NoEvaluation THEN evaluation
                   ELSE [evaluation EXCEPT !.lasting = @ \ {ct}]
  /\ UNCHANGED indexed

-----------------------------------------------------------------------------
(* evaluate_claim_profile_with_workspace.                                  *)

At(step) == evaluation # NoEvaluation /\ evaluation.step = step

Go(changed) ==
  /\ evaluation' = changed
  /\ UNCHANGED <<indexed, stored>>

\* `lasting` and `shifted` are for the property: the contracts that were there
\* all the time, and whether the rows changed between the reads of a page.
Begin(id, chain) ==
  /\ evaluation = NoEvaluation
  /\ Go([profile |-> id, chain |-> chain,
         step |-> IF Profile(id).contracts = {} THEN "answered" ELSE "count",
         total |-> 0, offset |-> 0, records |-> {}, todo |-> Profile(id).contracts,
         unresolved |-> {}, lasting |-> stored, shifted |-> FALSE])

\* SELECT COUNT(*)
CountRows ==
  /\ At("count")
  /\ Go([evaluation EXCEPT !.step = "select", !.total = Cardinality(indexed)])

Position(ct) == Cardinality({other \in indexed : other.at > ct.at})
Page(offset) == {ct \in indexed : Position(ct) \in offset..(offset + Limit - 1)}

\* Mutation: what the first page does not hold is not looked for.
HasMoreFirst(last) == FALSE

HasMore(last) == last < evaluation.total

\* SELECT ... LIMIT ? OFFSET ?, a read of its own
SelectPage ==
  /\ At("select")
  /\ LET page == Page(evaluation.offset)
         last == evaluation.offset + Cardinality(page) IN
     Go([evaluation EXCEPT
           !.records = @ \union page, !.offset = last,
           !.step = IF HasMore(last) THEN "count" ELSE "resolve",
           !.shifted = @ \/ Cardinality(indexed) # evaluation.total])

\* The reference that is there, of a contract that was listed, whose payload
\* can be read.
Resolves(ref, type) ==
  /\ Matches(ref, type)
  /\ ref.contract \in evaluation.records \intersect stored

Resolve(type) ==
  /\ At("resolve")
  /\ type \in evaluation.todo
  /\ LET found == \E ref \in evaluation.chain.references : Resolves(ref, type)
         left == evaluation.todo \ {type} IN
     Go([evaluation EXCEPT
           !.todo = left,
           !.unresolved = IF found THEN @ ELSE @ \union {type},
           !.step = IF left = {} THEN "answered" ELSE @])

Leave == At("answered") /\ Go(NoEvaluation)

Next ==
  \/ \E ct \in Contracts : Persist(ct) \/ DeletePayload(ct)
  \/ \E id \in Asked, chain \in Chains : Begin(id, chain)
  \/ CountRows \/ SelectPage
  \/ \E type \in UNION {Profile(id).contracts : id \in Asked} : Resolve(type)
  \/ Leave

Spec == Init /\ [][Next]_profileVars

-----------------------------------------------------------------------------
(* The answer, and what it means.                                          *)

Structural == Failed(evaluation.chain, Profile(evaluation.profile))
Failures == Structural \union evaluation.unresolved
Decision == DecisionFor(evaluation.profile, Failures)

\* A claim is accepted only if every contract it needs was persisted, which
\* no reference of a release bundle can stand for, and a contract whose payload
\* was there all the time is found on whichever page it is, unless a row came
\* in between the two reads of a page.
ContractsResolved ==
  At("answered") =>
    LET profile == Profile(evaluation.profile)
        References(type) == {ref \in evaluation.chain.references : Matches(ref, type)} IN
    /\ Decision = "accepted" =>
         \A type \in profile.contracts :
           \E ref \in References(type) : ref.contract \in indexed
    /\ evaluation.shifted \/
         \A type \in evaluation.unresolved :
           \A ref \in References(type) : ref.contract \notin evaluation.lasting
=============================================================================
