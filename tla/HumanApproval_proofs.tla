------------------------ MODULE HumanApproval_proofs ------------------------
(***************************************************************************)
(* Proofs about HumanApproval for every set of requests, publishers and    *)
(* instants, any limit on receipts, and any amount of other evidence.      *)
(***************************************************************************)
EXTENDS HumanApproval, FiniteSetTheorems, TLAPS

\* A receipt identity is used once: the idempotency keys see to it.
UniqueIds ==
  \A a, b \in approvals : Id(a.request) = Id(b.request) => a = b

\* What had ended when a gate was called has still ended.
Ended(id) == \E a \in approvals : Id(a.request) = id /\ ~Active(a)
EndedStaysEnded ==
  \A p \in Publishers :
    gate[p] # NoCall => \A id \in gate[p].ended : Ended(id)

IInv ==
  /\ TypeOK
  /\ UniqueIds
  /\ OneActivePerActor
  /\ EndedStaysEnded
  /\ PermitsNameEffective

\* On a clock that is never set back nothing is dated in the future.
NotFuture ==
  /\ \A a \in approvals : a.at <= clock
  /\ \A r \in revocations : r.at <= clock

\* No thread of receipts is refused by the projection, whatever their number.
AllProjectable == \A b \in Bases : Projectable(b)

ClockInv == NotFuture /\ AllProjectable

\* append and revoke write one receipt at most beyond the limit.
CountInv ==
  /\ IsFiniteSet(approvals) /\ IsFiniteSet(revocations)
  /\ HumanReceipts <= MaxReceipts + 1

-----------------------------------------------------------------------------
(* How the projection changes when receipts are added.                     *)

\* Receipts are only added, and an approval that ended stays ended.
LEMMA InactiveStays ==
  ASSUME approvals \subseteq approvals', revocations \subseteq revocations'
  PROVE  /\ \A a : Active(a)' => Active(a)
         /\ \A id : Ended(id) => Ended(id)'
<1>1. \A a : Active(a)' => Active(a)
  BY DEF Active, Superseded, Revoked, Selected, SelectedRevocations
<1>2. ASSUME NEW id, Ended(id)
      PROVE  Ended(id)'
  <2>1. PICK a \in approvals : Id(a.request) = id /\ ~Active(a)
    BY <1>2 DEF Ended
  <2>2. a \in approvals' /\ ~Active(a)'
    BY <1>1, <2>1
  <2>. QED
    BY <2>1, <2>2 DEF Ended
<1>. QED
  BY <1>1, <1>2

\* No step takes a receipt away.
LEMMA ReceiptsKept ==
  ASSUME [Next]_vars
  PROVE  approvals \subseteq approvals' /\ revocations \subseteq revocations'
BY DEF Next, vars, Approve, Revoke, CallGate, IssuePermit, GateRaises,
       IngestOther, Tick

-----------------------------------------------------------------------------
(* The inductive invariant.                                                *)

LEMMA InitIInv == Init => IInv /\ ClockInv
<1> SUFFICES ASSUME Init
             PROVE  IInv /\ ClockInv
  OBVIOUS
<1>1. TypeOK
  BY ConstantsAssumption DEF Init, TypeOK
<1>2. UniqueIds /\ OneActivePerActor
  BY DEF Init, UniqueIds, OneActivePerActor
<1>3. EndedStaysEnded /\ PermitsNameEffective
  BY DEF Init, EndedStaysEnded, PermitsNameEffective
<1>4. NotFuture
  BY DEF Init, NotFuture
<1>5. AllProjectable
  BY DEF Init, AllProjectable, Projectable, Selected, SelectedRevocations
<1>. QED
  BY <1>1, <1>2, <1>3, <1>4, <1>5 DEF IInv, ClockInv

LEMMA TypeStep ==
  ASSUME TypeOK, [Next]_vars
  PROVE  TypeOK'
<1> USE DEF TypeOK
<1>1. ASSUME NEW i \in Approvals, Approve(i)
      PROVE  TypeOK'
  BY <1>1 DEF Approve
<1>2. ASSUME NEW r \in Revocations, Revoke(r)
      PROVE  TypeOK'
  BY <1>2 DEF Revoke
<1>3. ASSUME NEW p \in Publishers, NEW b \in Bases, NEW authority \in Authorities,
             CallGate(p, b, authority)
      PROVE  TypeOK'
  <2> DEFINE stopped == {Id(a.request) : a \in {x \in approvals : ~Active(x)}}
  <2>1. stopped \in SUBSET ApprovalIds
    BY DEF ApprovalIds
  <2>2. [basis |-> b, authority |-> authority, ended |-> stopped] \in Calls
    BY <2>1 DEF Calls
  <2>. QED
    BY <1>3, <2>2 DEF CallGate
<1>4. ASSUME NEW p \in Publishers, IssuePermit(p)
      PROVE  TypeOK'
  <2> DEFINE ids == {Id(a.request) : a \in Effective(gate[p])}
  <2>1. ids \in SUBSET ApprovalIds
    BY DEF ApprovalIds, Effective, Selected
  <2>2. gate[p].ended \in SUBSET ApprovalIds
    BY <1>4 DEF IssuePermit, Calls
  <2>3. [named |-> ids, ended |-> gate[p].ended] \in Permits
    BY <2>1, <2>2 DEF Permits
  <2>. QED
    BY <1>4, <2>3 DEF IssuePermit
<1>5. ASSUME NEW p \in Publishers, GateRaises(p)
      PROVE  TypeOK'
  BY <1>5 DEF GateRaises
<1>6. CASE IngestOther
  BY <1>6, ConstantsAssumption DEF IngestOther
<1>7. ASSUME NEW t \in Instants, Tick(t)
      PROVE  TypeOK'
  BY <1>7 DEF Tick
<1>8. CASE UNCHANGED vars
  BY <1>8 DEF vars
<1>. QED
  BY <1>1, <1>2, <1>3, <1>4, <1>5, <1>6, <1>7, <1>8 DEF Next

LEMMA InvStep ==
  ASSUME IInv, [Next]_vars
  PROVE  IInv'
<1>1. TypeOK'
  BY TypeStep DEF IInv
<1>2. UniqueIds'
  <2>1. ASSUME NEW i \in Approvals, Approve(i)
        PROVE  UniqueIds'
    <3>1. \A a \in approvals : Id(a.request) # Id(i)
      BY <2>1 DEF Approve, KeyUnused, Id
    <3>. QED
      BY <2>1, <3>1 DEF Approve, IInv, UniqueIds
  <2>2. CASE UNCHANGED approvals
    BY <2>2 DEF IInv, UniqueIds
  <2>. QED
    BY <2>1, <2>2 DEF Next, vars, Revoke, CallGate, IssuePermit, GateRaises,
                      IngestOther, Tick
<1>3. /\ \A a : Active(a)' => Active(a)
      /\ \A id : Ended(id) => Ended(id)'
  BY ReceiptsKept, InactiveStays
<1>4. OneActivePerActor'
  <2>1. ASSUME NEW i \in Approvals, Approve(i)
        PROVE  OneActivePerActor'
    <3> DEFINE new == [request |-> i, at |-> clock]
    <3>1. approvals' = approvals \union {new}
      BY <2>1 DEF Approve
    <3>2. ASSUME NEW a \in approvals, Active(a)', a.request.basis = i.basis,
                 a.request.actor = i.actor,
                 a.request.authority.duty = i.authority.duty
          PROVE  FALSE
      <4>1. Active(a)
        BY <1>3, <3>2
      <4>2. Id(a.request) = i.predecessor
        BY <2>1, <3>2, <4>1 DEF Approve, Duplicate, Selected
      <4>3. new \in Selected(a.request.basis)'
        BY <3>1, <3>2 DEF Selected
      <4>4. Superseded(a)'
        BY <4>2, <4>3 DEF Superseded
      <4>. QED
        BY <3>2, <4>4 DEF Active
    <3>3. \A a, b \in approvals :
            /\ Active(a)' /\ Active(b)'
            /\ a.request.basis = b.request.basis
            /\ a.request.actor = b.request.actor
            /\ a.request.authority.duty = b.request.authority.duty
            => a = b
      BY <1>3 DEF IInv, OneActivePerActor
    <3>. QED
      BY <3>1, <3>2, <3>3 DEF OneActivePerActor
  <2>2. CASE UNCHANGED approvals
    BY <1>3, <2>2 DEF IInv, OneActivePerActor
  <2>. QED
    BY <2>1, <2>2 DEF Next, vars, Revoke, CallGate, IssuePermit, GateRaises,
                      IngestOther, Tick
<1>5. EndedStaysEnded'
  <2>1. ASSUME NEW p \in Publishers, NEW b \in Bases,
               NEW authority \in Authorities, CallGate(p, b, authority)
        PROVE  EndedStaysEnded'
    <3>1. gate' = [gate EXCEPT ![p] =
                     [basis |-> b, authority |-> authority,
                      ended |-> {Id(a.request) :
                                   a \in {x \in approvals : ~Active(x)}}]]
      BY <2>1 DEF CallGate
    <3>2. \A id \in {Id(a.request) : a \in {x \in approvals : ~Active(x)}} :
            Ended(id)
      BY DEF Ended
    <3>3. ASSUME NEW q \in Publishers, gate'[q] # NoCall, NEW id \in gate'[q].ended
          PROVE  Ended(id)
      BY <3>1, <3>2, <3>3 DEF IInv, TypeOK, EndedStaysEnded
    <3>. QED
      BY <1>3, <3>3 DEF EndedStaysEnded
  <2>2. ASSUME NEW p \in Publishers, gate' = [gate EXCEPT ![p] = NoCall]
        PROVE  EndedStaysEnded'
    BY <1>3, <2>2 DEF IInv, TypeOK, EndedStaysEnded
  <2>3. CASE UNCHANGED gate
    BY <1>3, <2>3 DEF IInv, EndedStaysEnded
  <2>. QED
    BY <2>1, <2>2, <2>3 DEF Next, vars, Approve, Revoke, IssuePermit, GateRaises,
                            IngestOther, Tick
<1>6. PermitsNameEffective'
  <2>1. ASSUME NEW p \in Publishers, IssuePermit(p)
        PROVE  PermitsNameEffective'
    <3> DEFINE ids == {Id(a.request) : a \in Effective(gate[p])}
    <3>1. ASSUME NEW id \in ids, id \in gate[p].ended
          PROVE  FALSE
      <4>1. PICK a \in approvals : Active(a) /\ Id(a.request) = id
        BY <3>1 DEF Effective, Selected
      <4>2. PICK b \in approvals : ~Active(b) /\ Id(b.request) = id
        BY <2>1, <3>1 DEF IssuePermit, IInv, EndedStaysEnded, Ended
      <4>3. a = b
        BY <4>1, <4>2 DEF IInv, UniqueIds
      <4>. QED
        BY <4>1, <4>2, <4>3
    <3>2. permit' = [permit EXCEPT ![p] = [named |-> ids, ended |-> gate[p].ended]]
      BY <2>1 DEF IssuePermit
    <3> HIDE DEF ids
    <3>. QED
      BY <3>1, <3>2 DEF IInv, TypeOK, PermitsNameEffective
  <2>2. CASE UNCHANGED permit
    BY <2>2 DEF IInv, PermitsNameEffective
  <2>. QED
    BY <2>1, <2>2 DEF Next, vars, Approve, Revoke, CallGate, GateRaises,
                      IngestOther, Tick
<1>. QED
  BY <1>1, <1>2, <1>4, <1>5, <1>6 DEF IInv

LEMMA Invariance == Spec => []IInv
<1>1. IInv /\ [Next]_vars => IInv'
  BY InvStep
<1>. QED
  BY InitIInv, <1>1, PTL DEF Spec

-----------------------------------------------------------------------------
(* Threads stay projectable on a clock that is never set back.             *)

LEMMA ClockStep ==
  ASSUME ~ClockMayStepBack, IInv, ClockInv, [Next]_vars
  PROVE  ClockInv'
<1>. USE DEF IInv, ClockInv
<1>1. clock \in Int /\ clock' \in Int
  BY TypeStep, ConstantsAssumption DEF TypeOK
<1>2. /\ \A a \in approvals : a.at \in Int
      /\ \A r \in revocations : r.at \in Int
  BY ConstantsAssumption DEF TypeOK
<1>3. ASSUME NEW i \in Approvals, Approve(i)
      PROVE  ClockInv'
  <2> DEFINE new == [request |-> i, at |-> clock]
  <2>1. approvals' = approvals \union {new} /\ UNCHANGED <<revocations, clock>>
    BY <1>3 DEF Approve
  <2>2. NotFuture'
    BY <1>1, <2>1 DEF NotFuture
  <2>3. \A a \in approvals : Id(a.request) # Id(i)
    BY <1>3 DEF Approve, KeyUnused, Id
  <2>4. new \notin approvals
    BY <2>3
  <2>5. i.predecessor # NoReceipt =>
          \E a \in approvals : Ends(a, i, i.predecessor)
    BY <1>3 DEF Approve
  <2>6. ASSUME NEW b \in Bases, NEW s \in Selected(b)',
               s.request.predecessor # NoReceipt
        PROVE  /\ ValidSupersession(s)'
               /\ \A other \in Selected(b)' :
                    other.request.predecessor = s.request.predecessor
                      => other = s
    <3>1. CASE s \in approvals
      <4>1. s \in Selected(b)
        BY <2>6, <3>1 DEF Selected
      <4>2. ValidSupersession(s)
        BY <2>6, <4>1 DEF AllProjectable, Projectable
      <4>3. ValidSupersession(s)'
        BY <2>1, <4>2 DEF ValidSupersession, Selected
      <4>4. \A other \in Selected(b) :
              other.request.predecessor = s.request.predecessor => other = s
        BY <2>6, <4>1 DEF AllProjectable, Projectable
      <4>5. ASSUME i.basis = b, i.predecessor = s.request.predecessor
            PROVE  FALSE
        <5>1. PICK a \in approvals : Ends(a, i, i.predecessor)
          BY <2>5, <2>6, <4>5
        <5>2. Superseded(a)
          BY <4>1, <4>5, <5>1 DEF Ends, Superseded
        <5>. QED
          BY <5>1, <5>2 DEF Ends, Active
      <4>. QED
        BY <2>1, <4>3, <4>4, <4>5 DEF Selected
    <3>2. CASE s = new
      <4>1. PICK a \in approvals : Ends(a, i, i.predecessor)
        BY <2>5, <2>6, <3>2
      <4>2. b = i.basis
        BY <2>6, <3>2 DEF Selected
      <4>3. a \in Selected(s.request.basis)' /\ a # s /\ s.at >= a.at
        BY <1>1, <1>2, <2>1, <2>4, <3>2, <4>1 DEF Ends, Selected, NotFuture
      <4>4. ValidSupersession(s)'
        BY <3>2, <4>1, <4>3 DEF Ends, ValidSupersession
      <4>5. ASSUME NEW other \in approvals, other.request.basis = b,
                   other.request.predecessor = i.predecessor
            PROVE  FALSE
        <5>1. Superseded(a)
          BY <4>1, <4>2, <4>5 DEF Ends, Superseded, Selected
        <5>. QED
          BY <4>1, <5>1 DEF Ends, Active
      <4>. QED
        BY <2>1, <3>2, <4>4, <4>5 DEF Selected
    <3>. QED
      BY <2>1, <2>6, <3>1, <3>2 DEF Selected
  <2>7. ASSUME NEW b \in Bases, NEW r \in SelectedRevocations(b)'
        PROVE  /\ ValidRevocation(r)'
               /\ \A other \in SelectedRevocations(b)' :
                    other.request.target = r.request.target => other = r
    <3>1. r \in SelectedRevocations(b)
      BY <2>1, <2>7 DEF SelectedRevocations
    <3>2. PICK a \in Selected(r.request.basis) :
            /\ Id(a.request) = r.request.target
            /\ a.request.authority = r.request.authority
            /\ r.at >= a.at
            /\ ~Superseded(a)
      BY <3>1 DEF AllProjectable, Projectable, ValidRevocation
    <3>3. Revoked(a)
      BY <3>1, <3>2 DEF Revoked, Selected, SelectedRevocations
    <3>4. ASSUME i.predecessor = Id(a.request)
          PROVE  FALSE
      <4>1. i.predecessor # NoReceipt
        BY <3>2, <3>4, ConstantsAssumption DEF ApprovalIds, Selected, TypeOK
      <4>2. PICK x \in approvals : Ends(x, i, i.predecessor)
        BY <2>5, <4>1
      <4>3. x = a
        BY <3>2, <3>4, <4>2 DEF Ends, UniqueIds, Selected
      <4>. QED
        BY <3>3, <4>2, <4>3 DEF Ends, Active
    <3>5. ~Superseded(a)'
      BY <2>1, <3>2, <3>4 DEF Superseded, Selected
    <3>6. ValidRevocation(r)'
      BY <2>1, <3>2, <3>5 DEF ValidRevocation, Selected
    <3>. QED
      BY <2>1, <3>1, <3>6 DEF AllProjectable, Projectable, SelectedRevocations
  <2>8. AllProjectable'
    BY <2>6, <2>7 DEF AllProjectable, Projectable
  <2>. QED
    BY <2>2, <2>8
<1>4. ASSUME NEW q \in Revocations, Revoke(q)
      PROVE  ClockInv'
  <2> DEFINE new == [request |-> q, at |-> clock]
  <2>1. revocations' = revocations \union {new} /\ UNCHANGED <<approvals, clock>>
    BY <1>4 DEF Revoke
  <2>2. NotFuture'
    BY <1>1, <2>1 DEF NotFuture
  <2>3. PICK a \in approvals : Ends(a, q, q.target)
    BY <1>4 DEF Revoke
  <2>4. ValidRevocation(new)'
    BY <1>1, <1>2, <2>1, <2>3
       DEF Ends, Active, ValidRevocation, Selected, Superseded, NotFuture
  <2>5. ASSUME NEW r \in revocations, r.request.basis = q.basis,
               r.request.target = q.target
        PROVE  FALSE
    <3>1. Revoked(a)
      BY <2>3, <2>5 DEF Ends, Revoked, SelectedRevocations
    <3>. QED
      BY <2>3, <3>1 DEF Ends, Active
  <2>6. ASSUME NEW b \in Bases, NEW r \in SelectedRevocations(b)'
        PROVE  /\ ValidRevocation(r)'
               /\ \A other \in SelectedRevocations(b)' :
                    other.request.target = r.request.target => other = r
    <3>1. CASE r \in revocations
      <4>1. r \in SelectedRevocations(b)
        BY <2>6, <3>1 DEF SelectedRevocations
      <4>2. ValidRevocation(r)
        BY <4>1 DEF AllProjectable, Projectable
      <4>3. ValidRevocation(r)'
        BY <2>1, <4>2 DEF ValidRevocation, Superseded, Selected
      <4>4. \A other \in SelectedRevocations(b) :
              other.request.target = r.request.target => other = r
        BY <4>1 DEF AllProjectable, Projectable
      <4>. QED
        BY <2>1, <2>5, <3>1, <2>6, <4>3, <4>4 DEF SelectedRevocations
    <3>2. CASE r = new
      BY <2>1, <2>4, <2>5, <2>6, <3>2 DEF SelectedRevocations
    <3>. QED
      BY <2>1, <2>6, <3>1, <3>2 DEF SelectedRevocations
  <2>7. \A b \in Bases : Selected(b)' = Selected(b)
    BY <2>1 DEF Selected
  <2>8. \A s : ValidSupersession(s) => ValidSupersession(s)'
    BY <2>1 DEF ValidSupersession, Selected
  <2>9. AllProjectable'
    BY <2>6, <2>7, <2>8 DEF AllProjectable, Projectable
  <2>. QED
    BY <2>2, <2>9
<1>5. ASSUME UNCHANGED <<approvals, revocations>>, clock' >= clock
      PROVE  ClockInv'
  <2>1. NotFuture'
    BY <1>1, <1>2, <1>5 DEF NotFuture
  <2>2. AllProjectable'
    BY <1>5 DEF AllProjectable, Projectable, ValidSupersession,
                ValidRevocation, Superseded, Selected, SelectedRevocations
  <2>. QED
    BY <2>1, <2>2
<1>. QED
  BY <1>1, <1>3, <1>4, <1>5
     DEF Next, vars, CallGate, IssuePermit, GateRaises, IngestOther, Tick

-----------------------------------------------------------------------------
(* The lifecycle.                                                          *)

\* The status of an identity is that of its only approval.
LEMMA StatusFacts ==
  UniqueIds =>
    /\ \A a \in approvals :
         StatusOf(Id(a.request)) = IF Revoked(a) THEN "revoked"
                                   ELSE IF Superseded(a) THEN "superseded"
                                   ELSE "active"
    /\ \A id : (\A a \in approvals : Id(a.request) # id) => StatusOf(id) = "none"
BY DEF UniqueIds, StatusOf

\* A new approval starts a status, and ends that of its predecessor.
LEMMA AppendMoves ==
  ASSUME IInv, IInv', NEW i \in Approvals, Approve(i)
  PROVE  Lifecycle!Next
<1> DEFINE new == [request |-> i, at |-> clock]
           old == [id \in ApprovalIds |-> StatusOf(id)]
<1>1. approvals' = approvals \union {new} /\ UNCHANGED revocations
  BY DEF Approve
<1>2. \A a \in approvals : Id(a.request) # Id(i)
  BY DEF Approve, KeyUnused, Id
<1>3. /\ \A a \in approvals :
           StatusOf(Id(a.request)) = IF Revoked(a) THEN "revoked"
                                     ELSE IF Superseded(a) THEN "superseded"
                                     ELSE "active"
      /\ \A id : (\A a \in approvals : Id(a.request) # id) => StatusOf(id) = "none"
  BY StatusFacts DEF IInv
<1>4. /\ \A a \in approvals' :
           StatusOf(Id(a.request))' = IF Revoked(a)' THEN "revoked"
                                      ELSE IF Superseded(a)' THEN "superseded"
                                      ELSE "active"
      /\ \A id : (\A a \in approvals' : Id(a.request) # id)
                 => StatusOf(id)' = "none"
  <2>1. UniqueIds'
    BY DEF IInv
  <2>. QED
    BY <2>1 DEF UniqueIds, StatusOf
<1>5. Id(i) \in ApprovalIds /\ Id(i) # NoReceipt
  BY ConstantsAssumption DEF ApprovalIds
<1>6. i.predecessor # Id(i)
  <2>1. ASSUME i.predecessor = Id(i)
        PROVE  FALSE
    BY <1>2, <1>5, <2>1 DEF Approve, Ends
  <2>. QED
    BY <2>1
<1>7. \A r \in revocations :
        r.request.basis = i.basis => r.request.target # Id(i)
  BY <1>2 DEF Approve, Projectable, ValidRevocation, Selected, SelectedRevocations
<1>8. \A s \in approvals :
        s.request.basis = i.basis => s.request.predecessor # Id(i)
  <2>1. ASSUME NEW s \in approvals, s.request.basis = i.basis,
               s.request.predecessor = Id(i)
        PROVE  FALSE
    <3>1. ValidSupersession(s)
      BY <1>5, <2>1 DEF Approve, Projectable, Selected
    <3>. QED
      BY <1>2, <2>1, <3>1 DEF ValidSupersession, Selected
  <2>. QED
    BY <2>1
<1>9. StatusOf(Id(i)) = "none" /\ StatusOf(Id(i))' = "active"
  <2>1. PICK n \in approvals' : n.request = i
    <3>1. new \in approvals' /\ new.request = i
      BY <1>1
    <3> HIDE DEF new
    <3>. QED
      BY <3>1
  <2>2. ~Revoked(n)'
    BY <1>1, <1>7, <2>1 DEF Revoked, SelectedRevocations
  <2>3. ~Superseded(n)'
    BY <1>1, <1>6, <1>8, <2>1 DEF Superseded, Selected
  <2>4. StatusOf(Id(n.request))' = "active"
    BY <1>4, <2>1, <2>2, <2>3
  <2>5. StatusOf(Id(i))' = "active"
    BY <2>1, <2>4
  <2>. QED
    BY <1>2, <1>3, <2>5
<1>10. ASSUME NEW id \in ApprovalIds, id # Id(i), id # i.predecessor
       PROVE  StatusOf(id)' = StatusOf(id)
  <2>1. ASSUME NEW a \in approvals, Id(a.request) = id
        PROVE  StatusOf(id)' = StatusOf(id)
    <3>1. Revoked(a)' <=> Revoked(a)
      BY <1>1 DEF Revoked, SelectedRevocations
    <3>2. Superseded(a)' <=> Superseded(a)
      BY <1>1, <1>10, <2>1 DEF Superseded, Selected
    <3>. QED
      BY <1>1, <1>3, <1>4, <2>1, <3>1, <3>2
  <2>2. CASE \A a \in approvals : Id(a.request) # id
    BY <1>1, <1>3, <1>4, <1>10, <2>2
  <2>. QED
    BY <2>1, <2>2
<1>11. CASE i.predecessor = NoReceipt
  <2>1. \A id \in ApprovalIds \ {Id(i)} : StatusOf(id)' = StatusOf(id)
    BY <1>10, <1>11, ConstantsAssumption
  <2>2. [id \in ApprovalIds |-> StatusOf(id)'] = [old EXCEPT ![Id(i)] = "active"]
    BY <1>5, <1>9, <2>1
  <2>3. Lifecycle!Approve(Id(i))
    BY <1>5, <1>9, <2>2 DEF Lifecycle!Approve
  <2>. QED
    BY <1>5, <2>3 DEF Lifecycle!Next
<1>12. CASE i.predecessor # NoReceipt
  <2>1. PICK a \in approvals : Ends(a, i, i.predecessor)
    BY <1>12 DEF Approve
  <2>2. Id(a.request) = i.predecessor /\ i.predecessor \in ApprovalIds
    BY <1>12, <2>1, ConstantsAssumption DEF Ends
  <2>3. StatusOf(i.predecessor) = "active"
    BY <1>3, <2>1, <2>2 DEF Ends, Active
  <2>4. ~Revoked(a)' /\ Superseded(a)'
    <3>1. ~Revoked(a)'
      BY <1>1, <2>1 DEF Ends, Active, Revoked, SelectedRevocations
    <3>2. new \in Selected(a.request.basis)'
      BY <1>1, <2>1 DEF Ends, Selected
    <3>3. new.request.predecessor = Id(a.request)
      BY <2>2
    <3>. QED
      BY <3>1, <3>2, <3>3 DEF Superseded
  <2>5. StatusOf(i.predecessor)' = "superseded"
    BY <1>1, <1>4, <2>2, <2>4
  <2>6. [id \in ApprovalIds |-> StatusOf(id)'] =
          [old EXCEPT ![i.predecessor] = "superseded", ![Id(i)] = "active"]
    BY <1>5, <1>6, <1>9, <1>10, <2>2, <2>5
  <2>7. Lifecycle!Supersede(i.predecessor, Id(i))
    BY <1>5, <1>9, <2>2, <2>3, <2>6 DEF Lifecycle!Supersede
  <2>. QED
    BY <1>5, <2>2, <2>7 DEF Lifecycle!Next
<1>. QED
  BY <1>11, <1>12

\* A revocation ends the status of its target.
LEMMA RevokeMoves ==
  ASSUME IInv, IInv', NEW q \in Revocations, Revoke(q)
  PROVE  Lifecycle!Next
<1> DEFINE new == [request |-> q, at |-> clock]
           old == [id \in ApprovalIds |-> StatusOf(id)]
<1>1. revocations' = revocations \union {new} /\ UNCHANGED approvals
  BY DEF Revoke
<1>2. PICK a \in approvals : Ends(a, q, q.target)
  BY DEF Revoke
<1>3. /\ \A x \in approvals :
           /\ StatusOf(Id(x.request)) = IF Revoked(x) THEN "revoked"
                                        ELSE IF Superseded(x) THEN "superseded"
                                        ELSE "active"
           /\ StatusOf(Id(x.request))' = IF Revoked(x)' THEN "revoked"
                                         ELSE IF Superseded(x)' THEN "superseded"
                                         ELSE "active"
      /\ \A id : (\A x \in approvals : Id(x.request) # id)
                 => StatusOf(id) = "none" /\ StatusOf(id)' = "none"
  <2>1. UniqueIds /\ UniqueIds'
    BY DEF IInv
  <2>. QED
    BY <1>1, <2>1 DEF UniqueIds, StatusOf
<1>4. q.target \in ApprovalIds /\ Id(a.request) = q.target
  BY <1>2, ConstantsAssumption DEF Ends
<1>5. StatusOf(q.target) = "active" /\ StatusOf(q.target)' = "revoked"
  <2>1. Revoked(a)'
    <3>1. new \in SelectedRevocations(a.request.basis)'
      BY <1>1, <1>2 DEF Ends, SelectedRevocations
    <3>2. new.request.target = Id(a.request)
      BY <1>4
    <3>. QED
      BY <3>1, <3>2 DEF Revoked
  <2>. QED
    BY <1>2, <1>3, <1>4, <2>1 DEF Ends, Active
<1>6. ASSUME NEW id \in ApprovalIds, id # q.target
      PROVE  StatusOf(id)' = StatusOf(id)
  <2>1. ASSUME NEW x \in approvals, Id(x.request) = id
        PROVE  StatusOf(id)' = StatusOf(id)
    <3>1. Revoked(x)' <=> Revoked(x)
      BY <1>1, <1>6, <2>1 DEF Revoked, SelectedRevocations
    <3>2. Superseded(x)' <=> Superseded(x)
      BY <1>1 DEF Superseded, Selected
    <3>. QED
      BY <1>3, <2>1, <3>1, <3>2
  <2>2. CASE \A x \in approvals : Id(x.request) # id
    BY <1>3, <2>2
  <2>. QED
    BY <2>1, <2>2
<1>7. [id \in ApprovalIds |-> StatusOf(id)'] = [old EXCEPT ![q.target] = "revoked"]
  BY <1>4, <1>5, <1>6
<1>8. Lifecycle!Revoke(q.target)
  BY <1>4, <1>5, <1>7 DEF Lifecycle!Revoke
<1>. QED
  BY <1>4, <1>8 DEF Lifecycle!Next

-----------------------------------------------------------------------------
(* The limit on receipts.                                                  *)

\* One more receipt in a finite directory.
LEMMA OneMore ==
  ASSUME NEW S, IsFiniteSet(S), NEW x
  PROVE  /\ IsFiniteSet(S \union {x})
         /\ Cardinality(S) \in Nat /\ Cardinality(S \union {x}) \in Nat
         /\ Cardinality(S \union {x}) <= Cardinality(S) + 1
<1>1. /\ IsFiniteSet(S \union {x})
      /\ Cardinality(S \union {x}) = IF x \in S THEN Cardinality(S)
                                     ELSE Cardinality(S) + 1
  BY FS_AddElement
<1>2. Cardinality(S) \in Nat /\ Cardinality(S \union {x}) \in Nat
  BY <1>1, FS_CardinalityType
<1>. QED
  BY <1>1, <1>2

LEMMA CountStep ==
  ASSUME TypeOK, CountInv, [Next]_vars
  PROVE  CountInv'
<1>. USE DEF CountInv, HumanReceipts
<1>1. /\ MaxReceipts \in Nat /\ others \in Nat
      /\ Cardinality(approvals) \in Nat /\ Cardinality(revocations) \in Nat
  BY ConstantsAssumption, FS_CardinalityType DEF TypeOK
<1>2. ASSUME NEW i \in Approvals, Approve(i)
      PROVE  CountInv'
  <2>1. approvals' = approvals \union {[request |-> i, at |-> clock]}
    BY <1>2 DEF Approve
  <2>2. revocations' = revocations /\ Scannable
    BY <1>2 DEF Approve
  <2>3. /\ IsFiniteSet(approvals') /\ Cardinality(approvals') \in Nat
        /\ Cardinality(approvals') <= Cardinality(approvals) + 1
    BY <2>1, OneMore
  <2>. QED
    BY <1>1, <2>2, <2>3 DEF Scannable
<1>3. ASSUME NEW r \in Revocations, Revoke(r)
      PROVE  CountInv'
  <2>1. revocations' = revocations \union {[request |-> r, at |-> clock]}
    BY <1>3 DEF Revoke
  <2>2. approvals' = approvals /\ Scannable
    BY <1>3 DEF Revoke
  <2>3. /\ IsFiniteSet(revocations') /\ Cardinality(revocations') \in Nat
        /\ Cardinality(revocations') <= Cardinality(revocations) + 1
    BY <2>1, OneMore
  <2>. QED
    BY <1>1, <2>2, <2>3 DEF Scannable
<1>4. CASE UNCHANGED <<approvals, revocations>>
  BY <1>4
<1>. QED
  BY <1>2, <1>3, <1>4
     DEF Next, vars, CallGate, IssuePermit, GateRaises, IngestOther, Tick

LEMMA InitCount == Init => CountInv
<1> SUFFICES ASSUME Init
             PROVE  CountInv
  OBVIOUS
<1>1. approvals = {} /\ revocations = {}
  BY DEF Init
<1>2. Cardinality(approvals) = 0 /\ Cardinality(revocations) = 0
  BY <1>1, FS_EmptySet
<1>3. IsFiniteSet(approvals) /\ IsFiniteSet(revocations)
  BY <1>1, FS_EmptySet
<1>. QED
  BY <1>2, <1>3, ConstantsAssumption DEF CountInv, HumanReceipts

-----------------------------------------------------------------------------
(* The theorems.                                                           *)

\* Every reachable state is well typed.
THEOREM TypeCorrect == Spec => []TypeOK
<1>1. IInv => TypeOK
  BY DEF IInv
<1>. QED
  BY Invariance, <1>1, PTL

\* Whatever the clock does, an actor never has two effective approvals of
\* one duty on one basis.
THEOREM ActorsApproveOnce == Spec => []OneActivePerActor
<1>1. IInv => OneActivePerActor
  BY DEF IInv
<1>. QED
  BY Invariance, <1>1, PTL

\* Whatever the clock does and whoever revokes meanwhile, a publication
\* permit names no approval that had ended when the gate was called.
THEOREM PermitsAreFresh == Spec => []PermitsNameEffective
<1>1. IInv => PermitsNameEffective
  BY DEF IInv
<1>. QED
  BY Invariance, <1>1, PTL

\* If the wall clock is never set back, the projection of a basis raises only
\* once the directory holds more than max_receipts receipts, and the approvals
\* and revocations themselves are at most one more than that.
THEOREM AcceptedCallsStayReadable ==
  ASSUME ~ClockMayStepBack
  PROVE  Spec => []ThreadsProjectable
<1>1. (IInv /\ ClockInv /\ CountInv) /\ [Next]_vars
        => (IInv /\ ClockInv /\ CountInv)'
  BY InvStep, ClockStep, CountStep DEF IInv
<1>2. IInv /\ ClockInv /\ CountInv => ThreadsProjectable
  <2> SUFFICES ASSUME IInv, ClockInv, CountInv
               PROVE  ThreadsProjectable
    OBVIOUS
  <2>1. HumanReceipts + others \in Int /\ MaxReceipts \in Int
    BY FS_CardinalityType, ConstantsAssumption
       DEF IInv, TypeOK, CountInv, HumanReceipts
  <2>2. Scannable \/ HumanReceipts + others > MaxReceipts
    BY <2>1 DEF Scannable
  <2>. QED
    BY <2>2 DEF ThreadsProjectable, Answers, ClockInv, AllProjectable, CountInv
<1>. QED
  BY InitIInv, InitCount, <1>1, <1>2, PTL DEF Spec

\* The store implements the abstract lifecycle, whatever the clock does.
THEOREM ImplementsLifecycle == Spec => LifecycleSpec
<1>1. Init => Lifecycle!Init
  BY DEF Init, Lifecycle!Init, StatusOf
<1>2. IInv /\ IInv' /\ [Next]_vars
        => [Lifecycle!Next]_([id \in ApprovalIds |-> StatusOf(id)])
  <2> SUFFICES ASSUME IInv, IInv', [Next]_vars
               PROVE  [Lifecycle!Next]_([id \in ApprovalIds |-> StatusOf(id)])
    OBVIOUS
  <2>1. CASE UNCHANGED <<approvals, revocations>>
    BY <2>1 DEF StatusOf, Revoked, Superseded, Selected, SelectedRevocations
  <2>2. ASSUME NEW i \in Approvals, Approve(i)
        PROVE  Lifecycle!Next
    BY <2>2, AppendMoves
  <2>3. ASSUME NEW r \in Revocations, Revoke(r)
        PROVE  Lifecycle!Next
    BY <2>3, RevokeMoves
  <2>. QED
    BY <2>1, <2>2, <2>3
       DEF Next, vars, CallGate, IssuePermit, GateRaises, IngestOther, Tick
<1>. QED
  BY Invariance, <1>1, <1>2, PTL DEF Spec, LifecycleSpec, Lifecycle!Spec
=============================================================================
