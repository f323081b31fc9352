---------------------------- MODULE HumanApproval ----------------------------
(***************************************************************************)
(* Human approvals of exact report bases, their revocation and             *)
(* supersession, and the publication gate that depends on them.            *)
(*                                                                         *)
(* An approval or a revocation is one immutable receipt among the others   *)
(* of the workspace.  append and revoke read every receipt, decide and     *)
(* write theirs under .human-approval.lock, so each is one step here; what *)
(* an approval's state is, is worked out anew from the receipts by every   *)
(* read, which checks the whole history again and fails closed.  A refused *)
(* call and the exact retry of an earlier one change nothing and are not   *)
(* steps.  The publication gate reads the lifecycle in one locked call and *)
(* checks files before it, without the lock.                               *)
(*                                                                         *)
(* Candidate and profile come from the report, so they follow from the     *)
(* basis.  Receipts are immutable and their files do not rot, so the       *)
(* digest that accompanies every reference to a receipt always matches.    *)
(***************************************************************************)
EXTENDS Integers, FiniteSets

CONSTANTS
  Approvals,         \* approval requests, see below
  Revocations,       \* revocation requests
  Authorities,       \* [producer, duty]; a duty is an action with its scope
  Publishers,        \* callers of the publication gate
  Instants,          \* values of the wall clock
  ClockMayStepBack,  \* the wall clock may be set back between calls
  NoReceipt,         \* the request supersedes nothing
  NoCall,
  NoPermit,
  MaxReceipts,       \* max_receipts
  MaxOthers          \* bound: receipts of other evidence in the workspace

\* A request is everything its fingerprint covers, with its idempotency key.
\* The receipt of an approval is identified by producer and key.
Id(request) == [producer |-> request.authority.producer, key |-> request.key]
ApprovalIds == {Id(i) : i \in Approvals}
Bases == {i.basis : i \in Approvals}

Permits == [named : SUBSET ApprovalIds, ended : SUBSET ApprovalIds]
Calls == [basis : Bases, authority : Authorities, ended : SUBSET ApprovalIds]

ASSUME ConstantsAssumption ==
  /\ \A i \in Approvals : i.authority \in Authorities
  /\ \A i \in Approvals : i.predecessor \in ApprovalIds \union {NoReceipt}
  /\ \A r \in Revocations : r.target \in ApprovalIds
  /\ NoReceipt \notin ApprovalIds
  /\ NoCall \notin Calls
  /\ NoPermit \notin Permits
  /\ Instants \subseteq Int
  /\ Instants # {}
  /\ ClockMayStepBack \in BOOLEAN
  /\ MaxReceipts \in Nat \ {0}
  /\ MaxOthers \in Nat

VARIABLES
  approvals,       \* approval receipts: the request and captured_at
  revocations,     \* revocation receipts
  others,          \* receipts of other evidence in the same directory
  clock,           \* what datetime.now(UTC) returns
  gate,            \* the call each publisher has in progress
  permit           \* the last permit each publisher was issued

vars == <<approvals, revocations, others, clock, gate, permit>>

TypeOK ==
  /\ approvals \in SUBSET [request : Approvals, at : Instants]
  /\ revocations \in SUBSET [request : Revocations, at : Instants]
  /\ others \in 0..MaxOthers
  /\ clock \in Instants
  /\ gate \in [Publishers -> Calls \union {NoCall}]
  /\ permit \in [Publishers -> Permits \union {NoPermit}]

Init ==
  /\ approvals = {}
  /\ revocations = {}
  /\ others = 0
  /\ clock \in Instants
  /\ gate = [p \in Publishers |-> NoCall]
  /\ permit = [p \in Publishers |-> NoPermit]

-----------------------------------------------------------------------------
(* Reading the history.                                                    *)

\* _approvals_for_target, and the revocations of the same basis.
Selected(b) == {a \in approvals : a.request.basis = b}
SelectedRevocations(b) == {r \in revocations : r.request.basis = b}

Superseded(a) ==
  \E s \in Selected(a.request.basis) : s.request.predecessor = Id(a.request)

Revoked(a) ==
  \E r \in SelectedRevocations(a.request.basis) : r.request.target = Id(a.request)

Active(a) == ~Superseded(a) /\ ~Revoked(a)

\* Whether _lifecycle_unlocked accepts a supersession.
ValidSupersession(s) ==
  \E a \in Selected(s.request.basis) :
    /\ Id(a.request) = s.request.predecessor
    /\ a # s
    /\ a.request.authority = s.request.authority
    /\ s.at >= a.at

\* Whether _lifecycle_unlocked accepts a revocation.
ValidRevocation(r) ==
  \E a \in Selected(r.request.basis) :
    /\ Id(a.request) = r.request.target
    /\ a.request.authority = r.request.authority
    /\ r.at >= a.at
    /\ ~Superseded(a)

\* _lifecycle_unlocked returns a projection of this basis and does not raise.
Projectable(b) ==
  /\ \A s \in Selected(b) :
       s.request.predecessor # NoReceipt =>
         /\ ValidSupersession(s)
         /\ \A other \in Selected(b) :
              other.request.predecessor = s.request.predecessor => other = s
  /\ \A r \in SelectedRevocations(b) :
       /\ ValidRevocation(r)
       /\ \A other \in SelectedRevocations(b) :
            other.request.target = r.request.target => other = r

HumanReceipts == Cardinality(approvals) + Cardinality(revocations)

\* _records_unlocked scans every receipt of the workspace, and raises
\* OverflowError when there are more than max_receipts.
Scannable == HumanReceipts + others <= MaxReceipts

\* A lifecycle projection of this basis returns: every read, append, revoke
\* and permit begins with one.
Answers(b) == Scannable /\ Projectable(b)

\* _find_idempotent_retry finds no record with this key, on any basis and of
\* either operation.
KeyUnused(key) ==
  /\ \A a \in approvals : a.request.key # key
  /\ \A r \in revocations : r.request.key # key

-----------------------------------------------------------------------------
(* Writing it.                                                             *)

\* Mutation: the state of the approval is not considered.
EndsAnyApproval(a, request, id) ==
  /\ a.request.basis = request.basis
  /\ Id(a.request) = id
  /\ a.request.authority = request.authority

\* Mutation: the authority of the approval is not compared.
EndsAnyAuthority(a, request, id) ==
  /\ a.request.basis = request.basis
  /\ Id(a.request) = id
  /\ Active(a)

\* The approval a transition ends is part of the basis, active, and of the
\* same authority.
Ends(a, request, id) ==
  /\ a.request.basis = request.basis
  /\ Id(a.request) = id
  /\ Active(a)
  /\ a.request.authority = request.authority

\* Mutation: a superseding approval is not compared with the active ones.
DuplicateUnlessSuperseding(i) ==
  /\ i.predecessor = NoReceipt
  /\ \E a \in Selected(i.basis) :
       /\ Active(a)
       /\ a.request.actor = i.actor
       /\ a.request.authority.duty = i.authority.duty

\* ApprovalAlreadyRecordedError: the actor already approved this, and not in
\* the approval that is being replaced.
Duplicate(i) ==
  \E a \in Selected(i.basis) :
    /\ Active(a)
    /\ Id(a.request) # i.predecessor
    /\ a.request.actor = i.actor
    /\ a.request.authority.duty = i.authority.duty

\* WorkspaceHumanApprovalStore.append
Approve(i) ==
  /\ Scannable
  /\ KeyUnused(i.key)
  /\ Projectable(i.basis)
  /\ i.predecessor # NoReceipt =>
       \E a \in approvals : Ends(a, i, i.predecessor)
  /\ ~Duplicate(i)
  /\ approvals' = approvals \union {[request |-> i, at |-> clock]}
  /\ UNCHANGED <<revocations, others, clock, gate, permit>>

\* WorkspaceHumanApprovalStore.revoke
Revoke(r) ==
  /\ Scannable
  /\ KeyUnused(r.key)
  /\ Projectable(r.basis)
  /\ \E a \in approvals : Ends(a, r, r.target)
  /\ revocations' = revocations \union {[request |-> r, at |-> clock]}
  /\ UNCHANGED <<approvals, others, clock, gate, permit>>

-----------------------------------------------------------------------------
(* The publication gate.                                                   *)

\* issue_publication_execution_permit is called.  `ended` only remembers
\* which approvals were no longer effective then.
CallGate(p, b, authority) ==
  /\ gate[p] = NoCall
  /\ gate' = [gate EXCEPT ![p] =
                [basis |-> b, authority |-> authority,
                 ended |-> {Id(a.request) : a \in {x \in approvals : ~Active(x)}}]]
  /\ UNCHANGED <<approvals, revocations, others, clock, permit>>

\* Mutation: the whole lifecycle, `lifecycle` instead of `active`.
EffectiveInAnyState(call) ==
  {a \in Selected(call.basis) : a.request.authority = call.authority}

\* PublicationAuthorizationState.active
Effective(call) ==
  {a \in Selected(call.basis) :
     Active(a) /\ a.request.authority = call.authority}

\* Mutation: the permit carries the approvals instead of naming them.
IssuePermitWithRecords(p) ==
  /\ gate[p] # NoCall
  /\ Scannable
  /\ Projectable(gate[p].basis)
  /\ Effective(gate[p]) # {}
  /\ permit' = [permit EXCEPT ![p] =
                  [named |-> Effective(gate[p]), ended |-> gate[p].ended]]
  /\ gate' = [gate EXCEPT ![p] = NoCall]
  /\ UNCHANGED <<approvals, revocations, others, clock>>

\* The lifecycle is resolved, and some approval of the authority is active.
IssuePermit(p) ==
  /\ gate[p] # NoCall
  /\ Scannable
  /\ Projectable(gate[p].basis)
  /\ Effective(gate[p]) # {}
  /\ permit' = [permit EXCEPT ![p] =
                  [named |-> {Id(a.request) : a \in Effective(gate[p])},
                   ended |-> gate[p].ended]]
  /\ gate' = [gate EXCEPT ![p] = NoCall]
  /\ UNCHANGED <<approvals, revocations, others, clock>>

\* The files do not match the basis, the history is refused, or nothing is
\* active: the call raises.
GateRaises(p) ==
  /\ gate[p] # NoCall
  /\ gate' = [gate EXCEPT ![p] = NoCall]
  /\ UNCHANGED <<approvals, revocations, others, clock, permit>>

-----------------------------------------------------------------------------
(* The surroundings.                                                       *)

\* Other evidence is ingested into the workspace, under another lock.
IngestOther ==
  /\ others < MaxOthers
  /\ others' = others + 1
  /\ UNCHANGED <<approvals, revocations, clock, gate, permit>>

Tick(t) ==
  /\ t > clock \/ (ClockMayStepBack /\ t < clock)
  /\ clock' = t
  /\ UNCHANGED <<approvals, revocations, others, gate, permit>>

Next ==
  \/ \E i \in Approvals : Approve(i)
  \/ \E r \in Revocations : Revoke(r)
  \/ \E p \in Publishers :
       \/ \E b \in Bases, authority \in Authorities : CallGate(p, b, authority)
       \/ IssuePermit(p)
       \/ GateRaises(p)
  \/ IngestOther
  \/ \E t \in Instants : Tick(t)

Spec == Init /\ [][Next]_vars
-----------------------------------------------------------------------------
(* Properties.                                                             *)

\* A lifecycle projection raises for one reason only: the directory has come
\* to hold more than max_receipts receipts.  What append and revoke accept is
\* otherwise what every later read accepts, though the two check different
\* things at different times; nobody could repair such a basis, since revoke
\* projects it too.  The limit itself is checked before the write, so a call
\* accepted at the limit goes one receipt past it and is the last one ever.
ThreadsProjectable ==
  /\ \A b \in Bases : Answers(b) \/ HumanReceipts + others > MaxReceipts
  /\ HumanReceipts <= MaxReceipts + 1

\* "transition timestamps cannot precede the targeted approval": no stored
\* supersession or revocation is dated before the approval it ends.
TransitionsFollowTarget ==
  /\ \A s, a \in approvals :
       /\ s.request.basis = a.request.basis
       /\ s.request.predecessor = Id(a.request)
       => s.at >= a.at
  /\ \A r \in revocations, a \in approvals :
       /\ r.request.basis = a.request.basis
       /\ r.request.target = Id(a.request)
       => r.at >= a.at

\* An actor never has two effective approvals of one duty on one basis,
\* however approvals, replacements by others and revocations alternate.
OneActivePerActor ==
  \A a, b \in approvals :
    /\ Active(a) /\ Active(b)
    /\ a.request.basis = b.request.basis
    /\ a.request.actor = b.request.actor
    /\ a.request.authority.duty = b.request.authority.duty
    => a = b

\* "A revoked or superseded historical approval cannot satisfy a new
\* reconciliation": a permit names only approvals that were still effective
\* when the gate was called, or became effective while it ran.
PermitsNameEffective ==
  \A p \in Publishers :
    permit[p] # NoPermit => permit[p].named \intersect permit[p].ended = {}

\* The state every read works out for an approval follows the abstract
\* lifecycle: it becomes effective once and ends at most once.
StatusOf(id) ==
  IF \E a \in approvals : Id(a.request) = id /\ Revoked(a) THEN "revoked"
  ELSE IF \E a \in approvals : Id(a.request) = id /\ Superseded(a) THEN "superseded"
  ELSE IF \E a \in approvals : Id(a.request) = id THEN "active"
  ELSE "none"
Lifecycle == INSTANCE ApprovalLifecycle
               WITH status <- [id \in ApprovalIds |-> StatusOf(id)]
LifecycleSpec == Lifecycle!Spec
=============================================================================
