--------------------------- MODULE AssuranceDecisions ---------------------------
(***************************************************************************)
(* Assurance decisions and the operational exceptions from them.  A host   *)
(* evaluates the policy and replaces the decision file; it loads a         *)
(* decision, which replays the policy, creates an exception from it and    *)
(* replaces the exception file, while the decision may be evaluated again. *)
(* The page reads the two files, or only the first when it is configured   *)
(* so, and refuses an exception that is not bound to the decision.         *)
(*                                                                         *)
(* Identities, rationale and evidence are told apart by the decision they  *)
(* are part of, a digest by what it covers.                                *)
(***************************************************************************)
EXTENDS Integers

CONSTANTS
  Subjects,      \* with their evidence references and verification results
  Risks,         \* residual risk a caller may state
  First, Inputs, \* what is evaluated first, and again
  Nothing,       \* no file, no risk stated, no decision named, no request
  MaxTime        \* bound: values of the clock

ReliabilityStates == {"unknown", "reliable", "degraded", "unreliable", "recovered"}
Verifications == {"verified", "verified_with_limitations", "unverified", "invalid",
                  "tampered", "incomplete", "trust_anchor_unavailable"}
Moments == 0..MaxTime

\* AssuranceDecisionInput.  Any trust status but "revoked" is like the others.
AllInputs ==
  [subject : Subjects, state : ReliabilityStates, verification : Verifications,
   trust : {"trusted", "revoked"}, recovery : BOOLEAN, risk : Risks \union {Nothing}]

\* The rules of the policy, the first that applies decides.
Rules ==
  <<[name |-> "trust-authority-revoked", decision |-> "REVOKE_TRUST"],
    [name |-> "recovery-required", decision |-> "RECOVERY_REQUIRED"],
    [name |-> "portable-evidence-tampered", decision |-> "QUARANTINE"],
    [name |-> "evidence-invalid-or-incomplete", decision |-> "REJECT"],
    [name |-> "verification-not-established", decision |-> "REQUIRE_REVERIFICATION"],
    [name |-> "reliability-unacceptable", decision |-> "REJECT"],
    [name |-> "reliability-degraded", decision |-> "ALLOW_WITH_LIMITATIONS"],
    [name |-> "verification-limitations-present", decision |-> "ALLOW_WITH_LIMITATIONS"],
    [name |-> "verified-reliability-state", decision |-> "ALLOW"],
    [name |-> "state-not-sufficiently-established", decision |-> "REQUIRE_REVERIFICATION"]>>

RuleNames == {Rules[k].name : k \in DOMAIN Rules}

\* AssuranceDecision; rule, state, verification and trust are its rationale.
Decisions ==
  [subject : Subjects, decision : {Rules[k].decision : k \in DOMAIN Rules},
   rule : RuleNames, state : ReliabilityStates, verification : Verifications,
   trust : {"trusted", "revoked"}, risk : Risks \union RuleNames \union {Nothing},
   at : Moments]

\* AssuranceException, from the decision `of`, whose digest older ones lack.
Exceptions == [of : Decisions, digested : BOOLEAN, created : Moments, expires : Moments]

\* `with`: an exception file is configured.
Requests ==
  [step : {"exception", "answered", "refused"}, with : BOOLEAN, decision : Decisions,
   exception : Exceptions \union {Nothing}, status : {Nothing, "active", "expired"}]

ConstantsAssumption ==
  /\ First \union Inputs \subseteq AllInputs
  /\ MaxTime \in Nat
  /\ Nothing \notin Decisions \union Exceptions \union Requests \union Risks \union RuleNames

VARIABLES
  decisionFile, exceptionFile,
  loaded,       \* the decision an exception is being created from
  now,
  page          \* the request

assuranceVars == <<decisionFile, exceptionFile, loaded, now, page>>

TypeOK ==
  /\ decisionFile \in Decisions \union {Nothing}
  /\ exceptionFile \in Exceptions \union {Nothing}
  /\ loaded \in Decisions \union {Nothing}
  /\ now \in Moments
  /\ page \in Requests \union {Nothing}

Init ==
  /\ decisionFile = Nothing
  /\ exceptionFile = Nothing
  /\ loaded = Nothing
  /\ now = 0
  /\ page = Nothing

-----------------------------------------------------------------------------
(* The policy.                                                             *)

Applies(i) ==
  <<i.trust = "revoked",
    i.recovery,
    i.verification = "tampered",
    i.verification \in {"invalid", "incomplete"},
    i.verification \in {"unverified", "trust_anchor_unavailable"},
    i.state = "unreliable",
    i.state = "degraded",
    i.verification = "verified_with_limitations",
    i.state \in {"reliable", "recovered"},
    TRUE>>

RuleFor(i) ==
  Rules[CHOOSE k \in DOMAIN Rules : Applies(i)[k] /\ \A j \in 1..(k - 1) : ~Applies(i)[j]]

\* evaluate_assurance_decision.  The rule stands for a risk that is not
\* stated, unless the decision is a clear one.
Evaluate(i, at) ==
  LET rule == RuleFor(i) IN
  [subject |-> i.subject, decision |-> rule.decision, rule |-> rule.name,
   state |-> i.state, verification |-> i.verification, trust |-> i.trust,
   risk |-> IF i.risk # Nothing THEN i.risk
            ELSE IF rule.decision = "ALLOW" THEN Nothing ELSE rule.name,
   at |-> at]

\* Mutation: whether recovery was required is not replayed.
ReplaysAtRest(d) ==
  d = Evaluate([subject |-> d.subject, state |-> d.state, verification |-> d.verification,
                trust |-> d.trust, recovery |-> FALSE, risk |-> d.risk], d.at)

\* verify_assurance_decision_semantics: evaluated again from the decision,
\* with recovery required when that was the rule, it is the same.
Replays(d) ==
  d = Evaluate([subject |-> d.subject, state |-> d.state, verification |-> d.verification,
                trust |-> d.trust, recovery |-> d.rule = "recovery-required",
                risk |-> d.risk], d.at)

-----------------------------------------------------------------------------
(* The host.                                                               *)

Decide ==
  /\ \E i \in IF decisionFile = Nothing THEN First ELSE Inputs :
       decisionFile' = Evaluate(i, now)
  /\ UNCHANGED <<exceptionFile, loaded, now, page>>

LoadDecision ==
  /\ decisionFile # Nothing
  /\ Replays(decisionFile)
  /\ loaded' = decisionFile
  /\ UNCHANGED <<decisionFile, exceptionFile, now, page>>

Excepted(d) == d.decision \in {"ALLOW_WITH_LIMITATIONS", "REQUIRE_REVERIFICATION"}

\* create_assurance_exception, by this release or by one that did not record
\* the decision's digest.
CreateException ==
  /\ loaded # Nothing
  /\ Excepted(loaded)
  /\ \E expires \in Moments, digested \in BOOLEAN :
       /\ expires > now
       /\ exceptionFile' = [of |-> loaded, digested |-> digested, created |-> now,
                            expires |-> expires]
  /\ loaded' = Nothing
  /\ UNCHANGED <<decisionFile, now, page>>

WithdrawException ==
  /\ exceptionFile # Nothing
  /\ exceptionFile' = Nothing
  /\ UNCHANGED <<decisionFile, loaded, now, page>>

Tick ==
  /\ now < MaxTime
  /\ now' = now + 1
  /\ UNCHANGED <<decisionFile, exceptionFile, loaded, page>>

-----------------------------------------------------------------------------
(* The page.                                                               *)

Reads == page # Nothing /\ page.step = "exception"

\* load_assurance_decision; without a file there is no page.
ReadDecision ==
  /\ ~Reads
  /\ decisionFile # Nothing
  /\ \E with \in BOOLEAN :
       page' = [step |-> IF ~Replays(decisionFile) THEN "refused"
                         ELSE IF with THEN "exception" ELSE "answered",
                with |-> with, decision |-> decisionFile, exception |-> Nothing,
                status |-> Nothing]
  /\ UNCHANGED <<decisionFile, exceptionFile, loaded, now>>

\* verify_assurance_exception_binding
BindsTo(e, d) ==
  /\ Excepted(d)
  /\ e.of.subject = d.subject
  /\ e.of.decision = d.decision
  /\ e.digested => e.of = d

\* A configured file that is missing is refused like one that is not bound.
ReadException ==
  /\ Reads
  /\ LET bound == exceptionFile # Nothing /\ BindsTo(exceptionFile, page.decision) IN
     page' = [page EXCEPT
                !.step = IF bound THEN "answered" ELSE "refused",
                !.exception = exceptionFile,
                !.status = IF ~bound THEN Nothing
                           ELSE IF now < exceptionFile.expires THEN "active" ELSE "expired"]
  /\ UNCHANGED <<decisionFile, exceptionFile, loaded, now>>

Next ==
  \/ Decide \/ LoadDecision \/ CreateException \/ WithdrawException \/ Tick
  \/ ReadDecision \/ ReadException

Spec == Init /\ [][Next]_assuranceVars
-----------------------------------------------------------------------------
(* Properties.                                                             *)

\* Whatever the policy decided, from any input, its replay accepts: nothing it
\* needs is missing from what a decision records, also when the residual risk
\* was the rule's own, and when recovery was required of evidence that would
\* otherwise have been rejected (verify_assurance_decision_semantics).
DecisionsReplay == decisionFile # Nothing => Replays(decisionFile)

\* The page refuses for these reasons only: the exception it is to show is
\* missing, or was created from another evaluation than the one it read, by a
\* race or because the policy was evaluated again (InvalidAssuranceDecisionSourceError).
RefusalsAreStale ==
  page # Nothing /\ page.step = "refused" =>
    page.with /\ (page.exception = Nothing \/ page.exception.of # page.decision)

AssuranceSound == DecisionsReplay /\ RefusalsAreStale
=============================================================================
