---------------------- MODULE EvidenceWorkspace_proofs ----------------------
(***************************************************************************)
(* Proofs about EvidenceWorkspace, and about the requests that read it     *)
(* (WorkspaceReaders), for every set of clients, deliveries and instants   *)
(* and every bound on crashes and sweeps.                                  *)
(***************************************************************************)
EXTENDS WorkspaceReaders, TLAPS

\* What each step of a call relies on besides types: the call in progress
\* has the job its step needs, the steps that touch the index or unlink a
\* payload own the operation lock, a receipt about to be indexed is durable,
\* and a deletion under way is still allowed by the requirement in force.
StepInv ==
  \A c \in Clients :
    /\ pc[c] = "idle" => job[c] = NoJob
    /\ pc[c] \in IngestSteps => job[c] \in Deliveries
    /\ pc[c] \in DeleteSteps =>
         /\ job[c] \in Deletions
         /\ rows[job[c].receipt] # Absent
         /\ retention[job[c].receipt] # Absent
         /\ DeletionAllowed(retention[job[c].receipt], job[c].at)
    /\ pc[c] \in DeleteSteps \union {"index"} => lock = c
    /\ pc[c] = "index" => receipts[job[c].receipt] = ReceiptOf(job[c])

\* A receipt file holds what a delivery of its own identity carried.
ReceiptsOfOwnIdentity ==
  \A r \in ReceiptIds :
    receipts[r] # Absent =>
      \E d \in Deliveries : d.receipt = r /\ receipts[r] = ReceiptOf(d)

\* Requirements are kept for indexed records only.
RetentionOfRows ==
  \A r \in ReceiptIds : retention[r] # Absent => rows[r] # Absent

IInv == /\ TypeOK /\ StepInv
        /\ RowsMatchReceipts /\ RunsHaveOneProducer
        /\ ReceiptsOfOwnIdentity /\ RetentionOfRows

\* The parts of a delivery, its receipt and its row lie in the sets that
\* TypeOK names.
LEMMA DeliveryParts ==
  ASSUME NEW d \in Deliveries
  PROVE  /\ d.receipt \in ReceiptIds
         /\ d.artifact \in Artifacts
         /\ d.producer \in Producers
         /\ d.run # NoRun => d.run \in RunIds
         /\ ReceiptOf(d) \in Contents
         /\ RowOf(d) \in Rows
         /\ RowOf(d).receipt = ReceiptOf(d)
         /\ ReceiptOf(d).artifact = d.artifact
         /\ ReceiptOf(d).run = d.run
         /\ ReceiptOf(d).producer = d.producer
BY DEF ReceiptIds, Artifacts, Producers, RunIds, ReceiptOf, RowOf, Contents,
       Rows, Sensitivities

\* Every state a workspace can start in is empty, hence well typed.
LEMMA InitIInv == Init => IInv
BY ConstantsAssumption
   DEF Init, IInv, TypeOK, StepInv, RowsMatchReceipts, RunsHaveOneProducer,
       ReceiptsOfOwnIdentity, RetentionOfRows, IngestSteps, DeleteSteps

\* TypeOK is inductive together with the jobs of the steps.
LEMMA TypeStep == TypeOK /\ StepInv /\ [Next]_vars => TypeOK'
<1> SUFFICES ASSUME TypeOK, StepInv, [Next]_vars PROVE TypeOK'
  OBVIOUS
<1> USE ConstantsAssumption
<1> USE DEF TypeOK, files, database, accounts
<1>0. CASE UNCHANGED vars
  BY <1>0 DEF vars
<1>1. ASSUME NEW c \in Clients, NEW d \in Deliveries,
             BeginIngest(c, d) \/ BeginDirectIngest(c, d)
      PROVE  TypeOK'
  BY <1>1 DEF BeginIngest, BeginDirectIngest, Start, IngestSteps
<1>2. ASSUME NEW c \in Clients, NEW r \in ReceiptIds, NEW t \in Times,
             BeginDelete(c, r, t)
      PROVE  TypeOK'
  <2>1. [receipt |-> r, at |-> t] \in Deletions
    BY DEF Deletions
  <2>. QED
    BY <1>2, <2>1 DEF BeginDelete, Start, DeleteSteps
<1>3. ASSUME NEW c \in Clients,
             FindArtifact(c) \/ StageArtifact(c) \/ CheckArtifact(c)
               \/ StageReceipt(c) \/ FindReceipt(c)
      PROVE  TypeOK'
  BY <1>3 DEF FindArtifact, StageArtifact, CheckArtifact, StageReceipt,
              FindReceipt, AfterReceipt, Finish, Release, Goto, IngestSteps
<1>4. ASSUME NEW c \in Clients, LinkArtifact(c)
      PROVE  TypeOK'
  <2>1. job[c].artifact \in Artifacts
    BY <1>4, DeliveryParts DEF LinkArtifact, StepInv, IngestSteps
  <2>. QED
    BY <1>4, <2>1 DEF LinkArtifact, Goto, IngestSteps
<1>5. ASSUME NEW c \in Clients, LinkReceipt(c)
      PROVE  TypeOK'
  <2>1. ReceiptOf(job[c]) \in Contents
    BY <1>5, DeliveryParts DEF LinkReceipt, StepInv, IngestSteps
  <2>. QED
    BY <1>5, <2>1 DEF LinkReceipt, AfterReceipt, Finish, Release, IngestSteps
<1>6. ASSUME NEW c \in Clients, IndexRecord(c)
      PROVE  TypeOK'
  <2>1. /\ RowOf(job[c]) \in Rows
        /\ job[c].producer \in Producers
    BY <1>6, DeliveryParts DEF IndexRecord, StepInv, IngestSteps
  <2>. QED
    BY <1>6, <2>1 DEF IndexRecord, Finish, Release
<1>7. ASSUME NEW c \in Clients, IngestFails(c)
      PROVE  TypeOK'
  BY <1>7 DEF IngestFails, Finish, Release
<1>8. ASSUME NEW c \in Clients, UnlinkArtifact(c)
      PROVE  TypeOK'
  BY <1>8 DEF UnlinkArtifact, Goto, DeleteSteps
<1>9. ASSUME NEW c \in Clients, RecordDeletion(c)
      PROVE  TypeOK'
  <2>1. job[c].receipt \in ReceiptIds /\ job[c].at \in Times
    BY <1>9 DEF RecordDeletion, StepInv, DeleteSteps, Deletions
  <2>. QED
    BY <1>9, <2>1 DEF RecordDeletion, Finish, Release
<1>10. ASSUME NEW c \in Clients, Crash(c)
       PROVE  TypeOK'
  <2>1. pc[c] = "tombstone" => job[c].receipt \in ReceiptIds
    BY DEF StepInv, DeleteSteps, Deletions
  <2>. QED
    BY <1>10, <2>1 DEF Crash, Finish, Release
<1>11. ASSUME NEW r \in ReceiptIds, NEW until \in Times \union {NoLimit},
              NEW hold \in BOOLEAN, ApplyRetention(r, until, hold)
       PROVE  TypeOK'
  BY <1>11 DEF ApplyRetention, Retentions
<1>12. CASE Recover
  BY <1>12 DEF Recover
<1>. QED
  BY <1>0, <1>1, <1>2, <1>3, <1>4, <1>5, <1>6, <1>7, <1>8, <1>9, <1>10,
     <1>11, <1>12
  DEF Next, Advance

\* While a call owns the operation lock nobody else changes the index, the
\* requirements or the lock, and receipts never change once written: what
\* StepInv says of a client at rest survives the steps of the others.
LEMMA StepInvStep == TypeOK /\ StepInv /\ [Next]_vars => StepInv'
<1> SUFFICES ASSUME TypeOK, StepInv, [Next]_vars PROVE StepInv'
  OBVIOUS
<1> USE ConstantsAssumption
<1> USE DEF files, database, accounts, IngestSteps, DeleteSteps
<1>0. CASE UNCHANGED vars
  BY <1>0 DEF vars, StepInv
<1>1. ASSUME NEW c \in Clients, NEW d \in Deliveries,
             BeginIngest(c, d) \/ BeginDirectIngest(c, d)
      PROVE  StepInv'
  BY <1>1 DEF BeginIngest, BeginDirectIngest, Start, StepInv, TypeOK
<1>2. ASSUME NEW c \in Clients, NEW r \in ReceiptIds, NEW t \in Times,
             BeginDelete(c, r, t)
      PROVE  StepInv'
  <2>1. [receipt |-> r, at |-> t] \in Deletions
    BY DEF Deletions
  <2>. QED
    BY <1>2, <2>1 DEF BeginDelete, Start, StepInv, TypeOK
<1>3. ASSUME NEW c \in Clients,
             FindArtifact(c) \/ StageArtifact(c) \/ LinkArtifact(c)
               \/ CheckArtifact(c) \/ StageReceipt(c)
      PROVE  StepInv'
  BY <1>3 DEF FindArtifact, StageArtifact, LinkArtifact, CheckArtifact,
              StageReceipt, Goto, StepInv, TypeOK
<1>4. ASSUME NEW c \in Clients, FindReceipt(c)
      PROVE  StepInv'
  BY <1>4 DEF FindReceipt, AfterReceipt, Finish, Release, StepInv, TypeOK
<1>5. ASSUME NEW c \in Clients, LinkReceipt(c)
      PROVE  StepInv'
  <2>1. job[c].receipt \in ReceiptIds
    BY <1>5, DeliveryParts DEF LinkReceipt, StepInv
  <2>2. \A r \in ReceiptIds : receipts[r] # Absent => receipts'[r] = receipts[r]
    BY <1>5, <2>1 DEF LinkReceipt, TypeOK
  <2>3. receipts'[job[c].receipt] = ReceiptOf(job[c])
    BY <1>5, <2>1 DEF LinkReceipt, TypeOK
  <2>4. \A e \in Clients : pc[e] = "index" =>
          /\ job[e].receipt \in ReceiptIds
          /\ receipts[job[e].receipt] # Absent
    BY DeliveryParts DEF StepInv
  <2>. QED
    BY <1>5, <2>2, <2>3, <2>4
       DEF LinkReceipt, AfterReceipt, Finish, Release, StepInv, TypeOK
<1>6. ASSUME NEW c \in Clients, IndexRecord(c)
      PROVE  StepInv'
  BY <1>6 DEF IndexRecord, Finish, Release, StepInv, TypeOK
<1>7. ASSUME NEW c \in Clients, IngestFails(c) \/ Crash(c)
      PROVE  StepInv'
  BY <1>7 DEF IngestFails, Crash, Finish, Release, StepInv, TypeOK
<1>8. ASSUME NEW c \in Clients, UnlinkArtifact(c)
      PROVE  StepInv'
  BY <1>8 DEF UnlinkArtifact, Goto, StepInv, TypeOK
<1>9. ASSUME NEW c \in Clients, RecordDeletion(c)
      PROVE  StepInv'
  BY <1>9 DEF RecordDeletion, Finish, Release, StepInv, TypeOK
<1>10. ASSUME NEW r \in ReceiptIds, NEW until \in Times \union {NoLimit},
              NEW hold \in BOOLEAN, ApplyRetention(r, until, hold)
       PROVE  StepInv'
  BY <1>10 DEF ApplyRetention, StepInv, TypeOK
<1>11. CASE Recover
  BY <1>11 DEF Recover, StepInv
<1>. QED
  BY <1>0, <1>1, <1>2, <1>3, <1>4, <1>5, <1>6, <1>7, <1>8, <1>9, <1>10, <1>11
  DEF Next, Advance

\* Only index_record writes rows and runs, and only after its receipt is
\* durable; receipts are never rewritten.
LEMMA IndexStep ==
  IInv /\ [Next]_vars => RowsMatchReceipts' /\ RunsHaveOneProducer'
<1> SUFFICES ASSUME IInv, [Next]_vars
             PROVE  RowsMatchReceipts' /\ RunsHaveOneProducer'
  OBVIOUS
<1> USE ConstantsAssumption
<1> USE DEF files, database, accounts
<1>1. CASE UNCHANGED <<receipts, rows, runs>>
  BY <1>1 DEF IInv, RowsMatchReceipts, RunsHaveOneProducer
<1>2. ASSUME NEW c \in Clients, LinkReceipt(c)
      PROVE  RowsMatchReceipts' /\ RunsHaveOneProducer'
  <2>1. job[c].receipt \in ReceiptIds /\ ReceiptOf(job[c]) \in Contents
    BY <1>2, DeliveryParts DEF LinkReceipt, IInv, StepInv, IngestSteps
  <2>2. \A r \in ReceiptIds : rows[r] # Absent => rows[r].receipt # Absent
    BY DEF IInv, TypeOK, Rows
  <2>. QED
    BY <1>2, <2>1, <2>2
       DEF LinkReceipt, IInv, TypeOK, RowsMatchReceipts, RunsHaveOneProducer
<1>3. ASSUME NEW c \in Clients, IndexRecord(c)
      PROVE  RowsMatchReceipts' /\ RunsHaveOneProducer'
  <2> DEFINE d == job[c]
  <2>1. d \in Deliveries /\ receipts[d.receipt] = ReceiptOf(d)
    BY <1>3 DEF IndexRecord, IInv, StepInv, IngestSteps
  <2>2. /\ d.receipt \in ReceiptIds
        /\ RowOf(d) \in Rows
        /\ RowOf(d).receipt = ReceiptOf(d)
        /\ ReceiptOf(d).run = d.run
        /\ ReceiptOf(d).producer = d.producer
        /\ d.run # NoRun => d.run \in RunIds
    BY <2>1, DeliveryParts
  <2>3. rows' = [rows EXCEPT ![d.receipt] = RowOf(d)] /\ UNCHANGED receipts
    BY <1>3 DEF IndexRecord
  <2>4. RowsMatchReceipts'
    BY <2>1, <2>2, <2>3 DEF IInv, TypeOK, RowsMatchReceipts
  <2>5. ASSUME NEW r \in ReceiptIds, rows'[r] # Absent,
               rows'[r].receipt.run # NoRun
        PROVE  runs'[rows'[r].receipt.run] = rows'[r].receipt.producer
    <3>1. CASE r = d.receipt
      BY <1>3, <2>2, <2>3, <2>5, <3>1 DEF IndexRecord, IInv, TypeOK
    <3>2. CASE r # d.receipt
      <4>1. rows'[r] = rows[r]
        BY <2>3, <3>2 DEF IInv, TypeOK
      <4>2. PICK e \in Deliveries : rows[r].receipt = ReceiptOf(e)
        BY <2>5, <4>1 DEF IInv, TypeOK, Rows, Contents
      <4>3. rows[r].receipt.run \in RunIds /\ rows[r].receipt.producer \in Producers
        BY <2>5, <4>1, <4>2, DeliveryParts
      <4>4. runs[rows[r].receipt.run] = rows[r].receipt.producer
        BY <2>5, <4>1 DEF IInv, RunsHaveOneProducer
      <4>5. RunAdmissible(d)
        BY <1>3 DEF IndexRecord
      <4>. QED
        BY <1>3, <2>2, <4>1, <4>3, <4>4, <4>5
           DEF IndexRecord, RunAdmissible, IInv, TypeOK
    <3>. QED
      BY <3>1, <3>2
  <2>. QED
    BY <2>4, <2>5 DEF RunsHaveOneProducer
<1>4. ASSUME NEW c \in Clients,
             \/ FindArtifact(c) \/ StageArtifact(c) \/ LinkArtifact(c)
             \/ CheckArtifact(c) \/ FindReceipt(c) \/ StageReceipt(c)
             \/ IngestFails(c) \/ UnlinkArtifact(c) \/ RecordDeletion(c)
             \/ Crash(c)
      PROVE  UNCHANGED <<receipts, rows, runs>>
  BY <1>4 DEF FindArtifact, StageArtifact, LinkArtifact, CheckArtifact,
              FindReceipt, StageReceipt, IngestFails, UnlinkArtifact,
              RecordDeletion, Crash
<1>5. ASSUME NEW c \in Clients,
             \/ \E d \in Deliveries : BeginIngest(c, d) \/ BeginDirectIngest(c, d)
             \/ \E r \in ReceiptIds, t \in Times : BeginDelete(c, r, t)
      PROVE  UNCHANGED <<receipts, rows, runs>>
  BY <1>5 DEF BeginIngest, BeginDirectIngest, BeginDelete
<1>6. ASSUME NEW r \in ReceiptIds, NEW until, NEW hold,
             ApplyRetention(r, until, hold) \/ Recover
      PROVE  UNCHANGED <<receipts, rows, runs>>
  BY <1>6 DEF ApplyRetention, Recover
<1>7. CASE UNCHANGED vars
  BY <1>1, <1>7 DEF vars
<1>8. CASE Recover
  BY <1>1, <1>8 DEF Recover
<1>. QED
  BY <1>1, <1>2, <1>3, <1>4, <1>5, <1>6, <1>7, <1>8
  DEF Next, Advance


\* Receipts are published under the identity computed from their delivery,
\* and requirements are upserted for indexed records, which stay indexed.
LEMMA OwnershipStep ==
  IInv /\ [Next]_vars => ReceiptsOfOwnIdentity' /\ RetentionOfRows'
<1> SUFFICES ASSUME IInv, [Next]_vars
             PROVE  ReceiptsOfOwnIdentity' /\ RetentionOfRows'
  OBVIOUS
<1> USE ConstantsAssumption
<1> USE DEF files, database, accounts
<1>1. CASE UNCHANGED <<receipts, rows, retention>>
  BY <1>1 DEF IInv, ReceiptsOfOwnIdentity, RetentionOfRows
<1>2. ASSUME NEW c \in Clients, LinkReceipt(c)
      PROVE  ReceiptsOfOwnIdentity' /\ RetentionOfRows'
  <2>1. job[c] \in Deliveries /\ job[c].receipt \in ReceiptIds
    BY <1>2, DeliveryParts DEF LinkReceipt, IInv, StepInv, IngestSteps
  <2>. QED
    BY <1>2, <2>1
       DEF LinkReceipt, IInv, TypeOK, ReceiptsOfOwnIdentity, RetentionOfRows
<1>3. ASSUME NEW c \in Clients, IndexRecord(c)
      PROVE  ReceiptsOfOwnIdentity' /\ RetentionOfRows'
  <2>1. RowOf(job[c]) \in Rows
    BY <1>3, DeliveryParts DEF IndexRecord, IInv, StepInv, IngestSteps
  <2>. QED
    BY <1>3, <2>1
       DEF IndexRecord, IInv, TypeOK, ReceiptsOfOwnIdentity, RetentionOfRows
<1>4. ASSUME NEW r \in ReceiptIds, NEW until, NEW hold,
             ApplyRetention(r, until, hold)
      PROVE  ReceiptsOfOwnIdentity' /\ RetentionOfRows'
  BY <1>4 DEF ApplyRetention, IInv, TypeOK, ReceiptsOfOwnIdentity,
              RetentionOfRows
<1>5. ASSUME NEW c \in Clients,
             \/ FindArtifact(c) \/ StageArtifact(c) \/ LinkArtifact(c)
             \/ CheckArtifact(c) \/ FindReceipt(c) \/ StageReceipt(c)
             \/ IngestFails(c) \/ UnlinkArtifact(c) \/ RecordDeletion(c)
             \/ Crash(c)
             \/ \E d \in Deliveries : BeginIngest(c, d) \/ BeginDirectIngest(c, d)
             \/ \E r \in ReceiptIds, t \in Times : BeginDelete(c, r, t)
      PROVE  UNCHANGED <<receipts, rows, retention>>
  BY <1>5 DEF FindArtifact, StageArtifact, LinkArtifact, CheckArtifact,
              FindReceipt, StageReceipt, IngestFails, UnlinkArtifact,
              RecordDeletion, Crash, BeginIngest, BeginDirectIngest,
              BeginDelete
<1>6. CASE UNCHANGED vars
  BY <1>1, <1>6 DEF vars
<1>7. CASE Recover
  BY <1>1, <1>7 DEF Recover
<1>. QED
  BY <1>1, <1>2, <1>3, <1>4, <1>5, <1>6, <1>7 DEF Next, Advance

\* The inductive invariant holds in every reachable state.
THEOREM Invariance == Spec => []IInv
<1>1. IInv /\ [Next]_vars => IInv'
  BY TypeStep, StepInvStep, IndexStep, OwnershipStep DEF IInv
<1>. QED
  BY InitIInv, <1>1, PTL DEF Spec

\* Every reachable state is well typed: no step of ingestion, deletion,
\* recovery or a crash puts a value where the code does not.
THEOREM TypeCorrect == Spec => []TypeOK
<1>1. IInv => TypeOK
  BY DEF IInv
<1>. QED
  BY Invariance, <1>1, PTL

\* The index never runs ahead of the evidence (_hydrate never fails).
THEOREM IndexNeverAhead == Spec => []RowsMatchReceipts
<1>1. IInv => RowsMatchReceipts
  BY DEF IInv
<1>. QED
  BY Invariance, <1>1, PTL

\* _ensure_observed_run keeps a run with one producer authority.
THEOREM OneProducerPerRun == Spec => []RunsHaveOneProducer
<1>1. IInv => RunsHaveOneProducer
  BY DEF IInv
<1>. QED
  BY Invariance, <1>1, PTL

-----------------------------------------------------------------------------
(* Deletion.                                                               *)

\* Only the unlink step of a deletion removes a payload.
LEMMA OnlyUnlinkRemoves ==
  ASSUME [Next]_vars, NEW a \in artifacts, a \notin artifacts'
  PROVE  \E c \in Clients : UnlinkArtifact(c)
<1> SUFFICES ASSUME ~\E c \in Clients : UnlinkArtifact(c) PROVE FALSE
  OBVIOUS
<1> USE DEF files
<1>1. CASE UNCHANGED vars
  BY <1>1 DEF vars
<1>2. CASE Next
  BY <1>2 DEF Next, Advance, BeginIngest, BeginDirectIngest, BeginDelete,
     FindArtifact, StageArtifact, LinkArtifact, CheckArtifact, FindReceipt,
     StageReceipt, LinkReceipt, IndexRecord, IngestFails, RecordDeletion,
     Crash, ApplyRetention, Recover
<1>. QED
  BY <1>1, <1>2

\* delete_expired_record acts on the requirement in force when it unlinks.
THEOREM DeletionsFollowPolicy == Spec => DeletionFollowsPolicy
<1> DEFINE Justified ==
      \A a \in artifacts \ artifacts' :
        \E c \in Clients, r \in ReceiptIds, t \in Times :
          /\ job[c] = [receipt |-> r, at |-> t]
          /\ rows[r] # Absent
          /\ rows[r].receipt.artifact = a
          /\ retention[r] # Absent
          /\ DeletionAllowed(retention[r], t)
<1>1. IInv /\ [Next]_vars => Justified
  <2> SUFFICES ASSUME IInv, [Next]_vars, NEW a \in artifacts \ artifacts'
               PROVE  \E c \in Clients, r \in ReceiptIds, t \in Times :
                        /\ job[c] = [receipt |-> r, at |-> t]
                        /\ rows[r] # Absent
                        /\ rows[r].receipt.artifact = a
                        /\ retention[r] # Absent
                        /\ DeletionAllowed(retention[r], t)
    OBVIOUS
  <2>1. PICK c \in Clients : UnlinkArtifact(c)
    BY OnlyUnlinkRemoves
  <2>2. /\ job[c] \in Deletions
        /\ rows[job[c].receipt] # Absent
        /\ retention[job[c].receipt] # Absent
        /\ DeletionAllowed(retention[job[c].receipt], job[c].at)
    BY <2>1 DEF UnlinkArtifact, IInv, StepInv, DeleteSteps
  <2>3. rows[job[c].receipt].receipt.artifact = a
    BY <2>1 DEF UnlinkArtifact
  <2>. QED
    BY <2>2, <2>3 DEF Deletions
<1>2. Justified => [Justified]_vars
  OBVIOUS
<1>. QED
  BY Invariance, <1>1, PTL DEF Spec, DeletionFollowsPolicy

\* A payload belongs to one receipt identity, as when every producer event
\* carries content of its own.
OneReceiptPerPayload ==
  \A d, e \in Deliveries : d.artifact = e.artifact => d.receipt = e.receipt

\* Under OneReceiptPerPayload an indexed payload determines its record.
LEMMA PayloadDeterminesRow ==
  ASSUME OneReceiptPerPayload,
         TypeOK, RowsMatchReceipts, ReceiptsOfOwnIdentity,
         NEW r \in ReceiptIds, NEW q \in ReceiptIds,
         rows[r] # Absent, rows[q] # Absent,
         rows[r].receipt.artifact = rows[q].receipt.artifact
  PROVE  r = q
<1>1. PICK d \in Deliveries : d.receipt = r /\ rows[r].receipt = ReceiptOf(d)
  BY ConstantsAssumption DEF TypeOK, Rows, RowsMatchReceipts, ReceiptsOfOwnIdentity
<1>2. PICK e \in Deliveries : e.receipt = q /\ rows[q].receipt = ReceiptOf(e)
  BY ConstantsAssumption DEF TypeOK, Rows, RowsMatchReceipts, ReceiptsOfOwnIdentity
<1>3. d.artifact = e.artifact
  BY <1>1, <1>2, DeliveryParts
<1>. QED
  BY <1>1, <1>2, <1>3 DEF OneReceiptPerPayload

\* A legal hold keeps the payload of a record, as long as no other record
\* has the same payload: delete_expired_record unlinks the shared file of
\* an expired record without looking at the others (see the run
\* workspace_held_shared).
THEOREM HoldKeepsEvidence ==
  ASSUME OneReceiptPerPayload
  PROVE  Spec => HeldEvidenceKept
<1> DEFINE Kept == \A r \in ReceiptIds :
                     /\ Held(r)
                     /\ rows[r].receipt.artifact \in artifacts
                     => rows[r].receipt.artifact \in artifacts'
<1>1. IInv /\ [Next]_vars => Kept
  <2> SUFFICES ASSUME IInv, [Next]_vars, NEW r \in ReceiptIds, Held(r),
                      rows[r].receipt.artifact \in artifacts,
                      rows[r].receipt.artifact \notin artifacts'
               PROVE  FALSE
    OBVIOUS
  <2>1. PICK c \in Clients : UnlinkArtifact(c)
    BY OnlyUnlinkRemoves
  <2> DEFINE q == job[c].receipt
  <2>2. /\ q \in ReceiptIds
        /\ rows[q] # Absent
        /\ DeletionAllowed(retention[q], job[c].at)
    BY <2>1 DEF UnlinkArtifact, IInv, StepInv, DeleteSteps, Deletions
  <2>3. rows[r].receipt.artifact = rows[q].receipt.artifact
    BY <2>1 DEF UnlinkArtifact
  <2>4. rows[r] # Absent
    BY DEF IInv, Held, RetentionOfRows
  <2>5. r = q
    BY <2>2, <2>3, <2>4, PayloadDeterminesRow DEF IInv
  <2>. QED
    BY <2>2, <2>5 DEF DeletionAllowed, Held
<1>. QED
  BY Invariance, <1>1, PTL DEF Spec, HeldEvidenceKept

-----------------------------------------------------------------------------
(* Deletion history.                                                       *)

\* From the read-back on, the payload of a locked ingestion stays in the
\* store: nobody else can be unlinking.
IngestHoldsPayload ==
  \A c \in Clients :
    lock = c /\ pc[c] \in {"put_receipt", "link_receipt", "index"}
      => job[c].artifact \in artifacts

\* Only CheckArtifact enters these steps, and only the lock holder unlinks.
LEMMA IngestHoldsPayloadStep ==
  IInv /\ IngestHoldsPayload /\ [Next]_vars => IngestHoldsPayload'
<1> SUFFICES ASSUME IInv, IngestHoldsPayload, [Next]_vars
             PROVE  IngestHoldsPayload'
  OBVIOUS
<1> USE ConstantsAssumption
<1> USE DEF files, database, accounts, IngestHoldsPayload, IInv, TypeOK
<1>0. CASE UNCHANGED vars
  BY <1>0 DEF vars
<1>1. ASSUME NEW c \in Clients,
             \/ \E d \in Deliveries : BeginIngest(c, d) \/ BeginDirectIngest(c, d)
             \/ \E r \in ReceiptIds, t \in Times : BeginDelete(c, r, t)
      PROVE  IngestHoldsPayload'
  BY <1>1 DEF BeginIngest, BeginDirectIngest, BeginDelete, Start
<1>2. ASSUME NEW c \in Clients,
             \/ FindArtifact(c) \/ StageArtifact(c) \/ LinkArtifact(c)
             \/ CheckArtifact(c) \/ StageReceipt(c)
      PROVE  IngestHoldsPayload'
  BY <1>2 DEF FindArtifact, StageArtifact, LinkArtifact, CheckArtifact,
              StageReceipt, Goto
<1>3. ASSUME NEW c \in Clients, FindReceipt(c) \/ LinkReceipt(c)
      PROVE  IngestHoldsPayload'
  BY <1>3 DEF FindReceipt, LinkReceipt, AfterReceipt, Finish, Release
<1>4. ASSUME NEW c \in Clients,
             IndexRecord(c) \/ IngestFails(c) \/ RecordDeletion(c) \/ Crash(c)
      PROVE  IngestHoldsPayload'
  BY <1>4 DEF IndexRecord, IngestFails, RecordDeletion, Crash, Finish, Release
<1>5. ASSUME NEW c \in Clients, UnlinkArtifact(c)
      PROVE  IngestHoldsPayload'
  <2>1. lock = c
    BY <1>5 DEF UnlinkArtifact, StepInv, DeleteSteps
  <2>. QED
    BY <1>5, <2>1 DEF UnlinkArtifact, Goto
<1>6. ASSUME NEW r \in ReceiptIds, NEW until, NEW hold,
             ApplyRetention(r, until, hold)
      PROVE  IngestHoldsPayload'
  BY <1>6 DEF ApplyRetention
<1>7. CASE Recover
  BY <1>7 DEF Recover
<1>. QED
  BY <1>0, <1>1, <1>2, <1>3, <1>4, <1>5, <1>6, <1>7 DEF Next, Advance

\* Removing a payload opens a deletion that is still to be recorded, and that
\* leaves its tombstone or is one of those that ended before.
LEMMA PayloadStep ==
  /\ IInv /\ IngestHoldsPayload /\ PayloadAccountedUnlessInterrupted
  /\ [Next]_vars
  => PayloadAccountedUnlessInterrupted'
<1> SUFFICES ASSUME IInv, IngestHoldsPayload, PayloadAccountedUnlessInterrupted,
                    [Next]_vars
             PROVE  PayloadAccountedUnlessInterrupted'
  OBVIOUS
<1> USE ConstantsAssumption
<1> USE DEF files, database, accounts, IInv, TypeOK
<1>b. ASSUME UNCHANGED <<rows, tombstones, unrecorded>>,
             artifacts \subseteq artifacts',
             \A c \in Clients :
               pc[c] = "tombstone" => pc'[c] = "tombstone" /\ job'[c] = job[c]
      PROVE  PayloadAccountedUnlessInterrupted'
  BY <1>b DEF PayloadAccountedUnlessInterrupted, DeletionRecorded
<1>0. CASE UNCHANGED vars
  BY <1>0, <1>b DEF vars
<1>1. ASSUME NEW c \in Clients,
             \/ \E d \in Deliveries : BeginIngest(c, d) \/ BeginDirectIngest(c, d)
             \/ \E r \in ReceiptIds, t \in Times : BeginDelete(c, r, t)
      PROVE  PayloadAccountedUnlessInterrupted'
  BY <1>1, <1>b DEF BeginIngest, BeginDirectIngest, BeginDelete, Start
<1>2. ASSUME NEW c \in Clients,
             \/ FindArtifact(c) \/ StageArtifact(c) \/ LinkArtifact(c)
             \/ CheckArtifact(c) \/ StageReceipt(c)
      PROVE  PayloadAccountedUnlessInterrupted'
  BY <1>2, <1>b DEF FindArtifact, StageArtifact, LinkArtifact, CheckArtifact,
                    StageReceipt, Goto
<1>3. ASSUME NEW c \in Clients,
             FindReceipt(c) \/ LinkReceipt(c) \/ IngestFails(c)
      PROVE  PayloadAccountedUnlessInterrupted'
  BY <1>3, <1>b DEF FindReceipt, LinkReceipt, IngestFails, AfterReceipt,
                    Finish, Release
<1>4. ASSUME NEW c \in Clients, IndexRecord(c)
      PROVE  PayloadAccountedUnlessInterrupted'
  <2> DEFINE d == job[c]
  <2>1. d \in Deliveries /\ d.artifact \in artifacts
    BY <1>4 DEF IndexRecord, StepInv, IngestSteps, DeleteSteps,
                IngestHoldsPayload
  <2>2. /\ d.receipt \in ReceiptIds
        /\ RowOf(d) \in Rows
        /\ RowOf(d).receipt.artifact = d.artifact
    BY <2>1, DeliveryParts
  <2>3. /\ rows' = [rows EXCEPT ![d.receipt] = RowOf(d)]
        /\ rows[d.receipt] \in {Absent, RowOf(d)}
        /\ UNCHANGED <<artifacts, tombstones, unrecorded>>
        /\ \A e \in Clients :
             pc[e] = "tombstone" => pc'[e] = "tombstone" /\ job'[e] = job[e]
    BY <1>4 DEF IndexRecord, RowAdmissible, Finish
  <2>4. \A r \in ReceiptIds : rows[r] # Absent => rows'[r] = rows[r]
    BY <2>2, <2>3
  <2>5. \A r \in ReceiptIds :
          rows'[r] # Absent /\ rows'[r].receipt.artifact \notin artifacts
            => rows[r] # Absent
    BY <2>1, <2>2, <2>3
  <2>. QED
    BY <2>3, <2>4, <2>5 DEF PayloadAccountedUnlessInterrupted, DeletionRecorded
<1>5. ASSUME NEW c \in Clients, UnlinkArtifact(c)
      PROVE  PayloadAccountedUnlessInterrupted'
  <2> DEFINE q == job[c].receipt
  <2>1. q \in ReceiptIds /\ rows[q] # Absent
    BY <1>5 DEF UnlinkArtifact, StepInv, DeleteSteps, Deletions
  <2>2. /\ artifacts' = artifacts \ {rows[q].receipt.artifact}
        /\ pc'[c] = "tombstone" /\ job' = job
        /\ UNCHANGED <<rows, tombstones, unrecorded>>
        /\ \A e \in Clients : pc[e] = "tombstone" => pc'[e] = "tombstone"
    BY <1>5 DEF UnlinkArtifact, Goto
  <2>. QED
    BY <2>1, <2>2 DEF PayloadAccountedUnlessInterrupted, DeletionRecorded
<1>6. ASSUME NEW c \in Clients, RecordDeletion(c) \/ Crash(c)
      PROVE  PayloadAccountedUnlessInterrupted'
  <2>1. pc[c] = "tombstone" => job[c].receipt \in ReceiptIds /\ job[c].at \in Times
    BY DEF StepInv, DeleteSteps, Deletions
  <2>2. /\ pc[c] = "tombstone" =>
             \/ tombstones'[job[c].receipt] # Absent
             \/ job[c].receipt \in unrecorded'
        /\ \A r \in ReceiptIds : tombstones[r] # Absent => tombstones'[r] # Absent
        /\ unrecorded \subseteq unrecorded'
        /\ UNCHANGED <<rows, artifacts>>
        /\ \A e \in Clients :
             e # c /\ pc[e] = "tombstone" =>
               pc'[e] = "tombstone" /\ job'[e] = job[e]
    BY <1>6, <2>1 DEF RecordDeletion, Crash, Finish
  <2>. QED
    BY <2>1, <2>2 DEF PayloadAccountedUnlessInterrupted, DeletionRecorded
<1>8. ASSUME NEW r \in ReceiptIds, NEW until, NEW hold,
             ApplyRetention(r, until, hold)
      PROVE  PayloadAccountedUnlessInterrupted'
  BY <1>8, <1>b DEF ApplyRetention
<1>9. CASE Recover
  BY <1>9, <1>b DEF Recover
<1>. QED
  BY <1>0, <1>1, <1>2, <1>3, <1>4, <1>5, <1>6, <1>8, <1>9
  DEF Next, Advance

\* A missing payload of an indexed record, shared or not, has its deletion
\* history, is being deleted, or was removed by a deletion that raised or
\* stopped before its tombstone.
THEOREM DeletionHistoryComplete == Spec => []PayloadAccountedUnlessInterrupted
<1> DEFINE J == IngestHoldsPayload /\ PayloadAccountedUnlessInterrupted
<1>1. Init => J
  BY DEF Init, IngestHoldsPayload, PayloadAccountedUnlessInterrupted
<1>2. IInv /\ J /\ [Next]_vars => J'
  BY IngestHoldsPayloadStep, PayloadStep
<1>3. J => PayloadAccountedUnlessInterrupted
  OBVIOUS
<1>. QED
  BY Invariance, <1>1, <1>2, <1>3, PTL DEF Spec

-----------------------------------------------------------------------------
(* Refinement.                                                             *)

\* Linking a receipt admits it, indexing projects what was admitted and
\* recording a deletion retires it; every other step is invisible.
LEMMA LedgerStep ==
  IInv /\ [Next]_vars => [Ledger!Next]_<<receipts, rows, tombstones>>
<1> SUFFICES ASSUME IInv, [Next]_vars
             PROVE  Ledger!Next \/ UNCHANGED <<receipts, rows, tombstones>>
  OBVIOUS
<1> USE ConstantsAssumption
<1> USE DEF files, database, accounts
<1>1. ASSUME NEW c \in Clients, LinkReceipt(c)
      PROVE  Ledger!Next \/ UNCHANGED <<receipts, rows, tombstones>>
  <2> DEFINE d == job[c]
  <2>1. d.receipt \in ReceiptIds /\ ReceiptOf(d) \in Contents
    BY <1>1, DeliveryParts DEF LinkReceipt, IInv, StepInv, IngestSteps
  <2>2. /\ receipts' = [receipts EXCEPT ![d.receipt] = ReceiptOf(d)]
        /\ UNCHANGED <<rows, tombstones>>
    BY <1>1 DEF LinkReceipt
  <2>3. CASE receipts[d.receipt] = Absent
    BY <2>1, <2>2, <2>3 DEF Ledger!Next, Ledger!Admit
  <2>4. CASE receipts[d.receipt] = ReceiptOf(d)
    BY <2>1, <2>2, <2>4 DEF IInv, TypeOK
  <2>. QED
    BY <1>1, <2>3, <2>4 DEF LinkReceipt
<1>2. ASSUME NEW c \in Clients, IndexRecord(c)
      PROVE  Ledger!Next \/ UNCHANGED <<receipts, rows, tombstones>>
  <2> DEFINE d == job[c]
  <2>1. d \in Deliveries /\ receipts[d.receipt] = ReceiptOf(d)
    BY <1>2 DEF IndexRecord, IInv, StepInv, IngestSteps
  <2>2. /\ d.receipt \in ReceiptIds
        /\ ReceiptOf(d) # Absent
        /\ d.sensitivity \in Sensitivities
        /\ RowOf(d) = [receipt |-> receipts[d.receipt],
                       sensitivity |-> d.sensitivity]
    BY <2>1, DeliveryParts DEF RowOf, Sensitivities
  <2>3. /\ rows' = [rows EXCEPT ![d.receipt] = RowOf(d)]
        /\ UNCHANGED <<receipts, tombstones>>
    BY <1>2 DEF IndexRecord
  <2>4. CASE rows[d.receipt] = Absent
    BY <2>1, <2>2, <2>3, <2>4 DEF Ledger!Next, Ledger!Index
  <2>5. CASE rows[d.receipt] = RowOf(d)
    BY <2>2, <2>3, <2>5 DEF IInv, TypeOK
  <2>. QED
    BY <1>2, <2>4, <2>5 DEF IndexRecord, RowAdmissible
<1>3. ASSUME NEW c \in Clients, RecordDeletion(c)
      PROVE  Ledger!Next \/ UNCHANGED <<receipts, rows, tombstones>>
  <2>1. /\ job[c].receipt \in ReceiptIds /\ job[c].at \in Times
        /\ rows[job[c].receipt] # Absent
    BY <1>3 DEF RecordDeletion, IInv, StepInv, DeleteSteps, Deletions
  <2>. QED
    BY <1>3, <2>1 DEF RecordDeletion, Ledger!Next, Ledger!Retire
<1>4. ASSUME NEW c \in Clients,
             \/ FindArtifact(c) \/ StageArtifact(c) \/ LinkArtifact(c)
             \/ CheckArtifact(c) \/ FindReceipt(c) \/ StageReceipt(c)
             \/ IngestFails(c) \/ UnlinkArtifact(c) \/ Crash(c)
             \/ \E d \in Deliveries : BeginIngest(c, d) \/ BeginDirectIngest(c, d)
             \/ \E r \in ReceiptIds, t \in Times : BeginDelete(c, r, t)
      PROVE  UNCHANGED <<receipts, rows, tombstones>>
  BY <1>4 DEF FindArtifact, StageArtifact, LinkArtifact, CheckArtifact,
              FindReceipt, StageReceipt, IngestFails, UnlinkArtifact, Crash,
              BeginIngest, BeginDirectIngest, BeginDelete
<1>5. ASSUME NEW r \in ReceiptIds, NEW until, NEW hold,
             ApplyRetention(r, until, hold)
      PROVE  UNCHANGED <<receipts, rows, tombstones>>
  BY <1>5 DEF ApplyRetention
<1>6. CASE Recover
  BY <1>6 DEF Recover
<1>7. CASE UNCHANGED vars
  BY <1>7 DEF vars
<1>. QED
  BY <1>1, <1>2, <1>3, <1>4, <1>5, <1>6, <1>7 DEF Next, Advance

\* The workspace, with its files, its lock, its unlocked writers and its
\* crashes, implements the evidence ledger.
THEOREM ImplementsLedger == Spec => LedgerSpec
<1>1. Init => Ledger!Init
  BY DEF Init, Ledger!Init
<1>2. IInv /\ [Next]_vars => [Ledger!Next]_Ledger!ledgerVars
  BY LedgerStep DEF Ledger!ledgerVars
<1>. QED
  BY Invariance, <1>1, <1>2, PTL DEF Spec, LedgerSpec, Ledger!Spec

-----------------------------------------------------------------------------
(* Readers: what they may rely on while the workspace moves on.            *)

\* A tombstone is of a record.
TombstonesOfRows ==
  \A r \in ReceiptIds : tombstones[r] # Absent => rows[r] # Absent

\* The payload is there, or a deletion has taken it.
Accounted(a) == a \in artifacts \/ Removed(a)

\* A payload is accounted for from the moment that it has been read back.
PayloadsAccounted ==
  /\ \A r \in ReceiptIds : receipts[r] # Absent => Accounted(receipts[r].artifact)
  /\ \A c \in Clients :
       pc[c] \in {"put_receipt", "link_receipt", "index"} => Accounted(job[c].artifact)

WorkInv == IInv /\ TombstonesOfRows /\ PayloadsAccounted

\* Receipts, rows and tombstones are never changed, nor is a retention row
\* withdrawn.
LEMMA RecordsStay ==
  ASSUME IInv, [Next]_vars, NEW r \in ReceiptIds
  PROVE  /\ receipts[r] # Absent => receipts'[r] = receipts[r]
         /\ rows[r] # Absent => rows'[r] = rows[r]
         /\ tombstones[r] # Absent => tombstones'[r] = tombstones[r]
<1> USE ConstantsAssumption
<1> USE DEF files, database, accounts
<1>1. CASE UNCHANGED <<receipts, rows, tombstones>>
  BY <1>1
<1>2. ASSUME NEW c \in Clients, LinkReceipt(c)
      PROVE  receipts[r] # Absent => receipts'[r] = receipts[r]
  <2>1. job[c].receipt \in ReceiptIds /\ ReceiptOf(job[c]) \in Contents
    BY <1>2, DeliveryParts DEF LinkReceipt, IInv, StepInv, IngestSteps
  <2>. QED BY <1>2, <2>1 DEF LinkReceipt, IInv, TypeOK
<1>3. ASSUME NEW c \in Clients, LinkReceipt(c)
      PROVE  UNCHANGED <<rows, tombstones>>
  BY <1>3 DEF LinkReceipt
<1>4. ASSUME NEW c \in Clients, IndexRecord(c)
      PROVE  /\ rows[r] # Absent => rows'[r] = rows[r]
             /\ UNCHANGED <<receipts, tombstones>>
  <2>1. job[c].receipt \in ReceiptIds /\ RowOf(job[c]) \in Rows
    BY <1>4, DeliveryParts DEF IndexRecord, IInv, StepInv, IngestSteps
  <2>. QED BY <1>4, <2>1 DEF IndexRecord, RowAdmissible, IInv, TypeOK
<1>5. ASSUME NEW c \in Clients, RecordDeletion(c)
      PROVE  /\ tombstones[r] # Absent => tombstones'[r] = tombstones[r]
             /\ UNCHANGED <<receipts, rows>>
  BY <1>5 DEF RecordDeletion, IInv, TypeOK
<1>6. ASSUME NEW c \in Clients,
             \/ FindArtifact(c) \/ StageArtifact(c) \/ LinkArtifact(c)
             \/ CheckArtifact(c) \/ FindReceipt(c) \/ StageReceipt(c)
             \/ IngestFails(c) \/ UnlinkArtifact(c) \/ Crash(c)
             \/ \E d \in Deliveries : BeginIngest(c, d) \/ BeginDirectIngest(c, d)
             \/ \E q \in ReceiptIds, t \in Times : BeginDelete(c, q, t)
      PROVE  UNCHANGED <<receipts, rows, tombstones>>
  BY <1>6 DEF FindArtifact, StageArtifact, LinkArtifact, CheckArtifact,
              FindReceipt, StageReceipt, IngestFails, UnlinkArtifact, Crash,
              BeginIngest, BeginDirectIngest, BeginDelete
<1>7. ASSUME NEW q \in ReceiptIds, NEW until, NEW hold,
             ApplyRetention(q, until, hold)
      PROVE  UNCHANGED <<receipts, rows, tombstones>>
  BY <1>7 DEF ApplyRetention
<1>8. CASE Recover
  BY <1>1, <1>8 DEF Recover
<1>9. CASE UNCHANGED vars
  BY <1>1, <1>9 DEF vars
<1>. QED
  BY <1>1, <1>2, <1>3, <1>4, <1>5, <1>6, <1>7, <1>8, <1>9 DEF Next, Advance

\* A payload that a deletion has taken stays taken, whether it is recorded or
\* ends before.
LEMMA RemovedStays ==
  ASSUME IInv, [Next]_vars, NEW a, Removed(a)
  PROVE  Removed(a)'
<1> USE ConstantsAssumption
<1> USE DEF files, database, accounts
<1>1. PICK r \in ReceiptIds :
        /\ rows[r] # Absent
        /\ rows[r].receipt.artifact = a
        /\ \/ tombstones[r] # Absent
           \/ r \in unrecorded
           \/ \E c \in Clients : pc[c] = "tombstone" /\ job[c].receipt = r
  BY DEF Removed, Indexed, Deleted
<1>2. /\ rows'[r] = rows[r]
      /\ tombstones[r] # Absent => tombstones'[r] = tombstones[r]
  BY <1>1, RecordsStay
<1>3. SUFFICES \/ tombstones'[r] # Absent
               \/ r \in unrecorded'
               \/ \E c \in Clients : pc'[c] = "tombstone" /\ job'[c].receipt = r
  BY <1>1, <1>2 DEF Removed, Indexed, Deleted
<1>4. r \in unrecorded => r \in unrecorded'
  <2>1. ASSUME NEW c \in Clients, Crash(c) \/ RecordDeletion(c)
        PROVE  unrecorded \subseteq unrecorded'
    BY <2>1 DEF Crash, RecordDeletion
  <2>2. unrecorded' = unrecorded \/ \E c \in Clients : Crash(c) \/ RecordDeletion(c)
    BY DEF Next, vars, Advance, BeginIngest, BeginDirectIngest, BeginDelete, FindArtifact,
       StageArtifact, LinkArtifact, CheckArtifact, FindReceipt, StageReceipt, LinkReceipt,
       IndexRecord, IngestFails, UnlinkArtifact, ApplyRetention, Recover
  <2>. QED BY <2>1, <2>2
<1>5. ASSUME NEW c \in Clients, pc[c] = "tombstone", job[c].receipt = r
      PROVE  \/ tombstones'[r] # Absent
             \/ r \in unrecorded'
             \/ pc'[c] = "tombstone" /\ job'[c].receipt = r
  <2>1. job[c].at \in Times
    BY <1>5 DEF IInv, StepInv, DeleteSteps, Deletions
  <2>2. CASE RecordDeletion(c)
    BY <1>5, <2>1, <2>2 DEF RecordDeletion, IInv, TypeOK
  <2>3. CASE Crash(c)
    BY <1>5, <2>3 DEF Crash
  <2>4. ASSUME NEW e \in Clients, e # c,
               \/ Advance(e) \/ Crash(e)
               \/ \E d \in Deliveries : BeginIngest(e, d) \/ BeginDirectIngest(e, d)
               \/ \E q \in ReceiptIds, t \in Times : BeginDelete(e, q, t)
        PROVE  pc'[c] = pc[c] /\ job'[c] = job[c]
    <3>1. /\ pc' = [pc EXCEPT ![e] = pc'[e]]
          /\ job' = [job EXCEPT ![e] = job'[e]]
      <4>1. CASE \/ FindArtifact(e) \/ StageArtifact(e) \/ LinkArtifact(e)
                 \/ CheckArtifact(e) \/ StageReceipt(e) \/ UnlinkArtifact(e)
        BY <4>1 DEF FindArtifact, StageArtifact, LinkArtifact, CheckArtifact,
           StageReceipt, UnlinkArtifact, Goto, IInv, TypeOK
      <4>2. CASE FindReceipt(e) \/ LinkReceipt(e)
        BY <4>2 DEF FindReceipt, LinkReceipt, AfterReceipt, Finish, IInv, TypeOK
      <4>3. CASE IndexRecord(e) \/ IngestFails(e) \/ RecordDeletion(e) \/ Crash(e)
        BY <4>3 DEF IndexRecord, IngestFails, RecordDeletion, Crash, Finish, IInv, TypeOK
      <4>4. CASE \/ \E d \in Deliveries : BeginIngest(e, d) \/ BeginDirectIngest(e, d)
                 \/ \E q \in ReceiptIds, t \in Times : BeginDelete(e, q, t)
        BY <4>4 DEF BeginIngest, BeginDirectIngest, BeginDelete, Start, IInv, TypeOK
      <4>. QED BY <2>4, <4>1, <4>2, <4>3, <4>4 DEF Advance
    <3>. QED BY <2>4, <3>1 DEF IInv, TypeOK
  <2>5. ASSUME \/ Advance(c) \/ Crash(c)
               \/ \E d \in Deliveries : BeginIngest(c, d) \/ BeginDirectIngest(c, d)
               \/ \E q \in ReceiptIds, t \in Times : BeginDelete(c, q, t)
        PROVE  RecordDeletion(c) \/ Crash(c)
    BY <1>5, <2>5 DEF Advance, FindArtifact, StageArtifact, LinkArtifact, CheckArtifact,
       FindReceipt, StageReceipt, LinkReceipt, IndexRecord, IngestFails, UnlinkArtifact,
       BeginIngest, BeginDirectIngest, BeginDelete, Start
  <2>6. CASE UNCHANGED <<pc, job>>
    BY <1>5, <2>6
  <2>7. ASSUME \/ \E q \in ReceiptIds, until \in Times \union {NoLimit}, hold \in BOOLEAN :
                    ApplyRetention(q, until, hold)
               \/ Recover \/ UNCHANGED vars
        PROVE  UNCHANGED <<pc, job>>
    BY <2>7 DEF ApplyRetention, Recover, vars
  <2>8. \/ \E e \in Clients :
             \/ Advance(e) \/ Crash(e)
             \/ \E d \in Deliveries : BeginIngest(e, d) \/ BeginDirectIngest(e, d)
             \/ \E q \in ReceiptIds, t \in Times : BeginDelete(e, q, t)
        \/ \E q \in ReceiptIds, until \in Times \union {NoLimit}, hold \in BOOLEAN :
             ApplyRetention(q, until, hold)
        \/ Recover \/ UNCHANGED vars
    BY DEF Next
  <2>. QED BY <1>5, <2>2, <2>3, <2>4, <2>5, <2>6, <2>7, <2>8
<1>. QED BY <1>1, <1>2, <1>4, <1>5

\* What is accounted for stays accounted for: the step that takes a payload
\* is the one that owes its tombstone.
LEMMA AccountedStays ==
  ASSUME IInv, [Next]_vars, NEW a, Accounted(a)
  PROVE  Accounted(a)'
<1>1. CASE Removed(a)
  BY <1>1, RemovedStays DEF Accounted
<1>2. CASE a \in artifacts /\ a \notin artifacts'
  <2>1. PICK c \in Clients : UnlinkArtifact(c)
    BY <1>2, OnlyUnlinkRemoves
  <2>2. /\ job[c].receipt \in ReceiptIds
        /\ rows[job[c].receipt] # Absent
    BY <2>1 DEF UnlinkArtifact, IInv, StepInv, DeleteSteps, Deletions
  <2>3. /\ artifacts' = artifacts \ {rows[job[c].receipt].receipt.artifact}
        /\ pc'[c] = "tombstone" /\ job' = job /\ rows' = rows
    BY <2>1 DEF UnlinkArtifact, Goto, database, IInv, TypeOK
  <2>4. rows[job[c].receipt].receipt.artifact = a
    BY <1>2, <2>3
  <2>. QED BY <2>2, <2>3, <2>4 DEF Accounted, Removed, Indexed
<1>3. CASE a \in artifacts'
  BY <1>3 DEF Accounted
<1>. QED BY <1>1, <1>2, <1>3 DEF Accounted

LEMMA TombstonesStep ==
  IInv /\ TombstonesOfRows /\ [Next]_vars => TombstonesOfRows'
<1> SUFFICES ASSUME IInv, TombstonesOfRows, [Next]_vars,
                    NEW r \in ReceiptIds, tombstones'[r] # Absent
             PROVE  rows'[r] # Absent
  BY DEF TombstonesOfRows
<1>1. CASE tombstones[r] # Absent
  BY <1>1, RecordsStay DEF TombstonesOfRows
<1>2. CASE tombstones'[r] # tombstones[r]
  <2>1. PICK c \in Clients : RecordDeletion(c)
    BY <1>2 DEF Next, vars, Advance, BeginIngest, BeginDirectIngest, BeginDelete,
       FindArtifact, StageArtifact, LinkArtifact, CheckArtifact, FindReceipt, StageReceipt,
       LinkReceipt, IndexRecord, IngestFails, UnlinkArtifact, Crash, ApplyRetention,
       Recover, database
  <2>2. job[c].receipt = r
    BY <1>2, <2>1 DEF RecordDeletion, IInv, TypeOK
  <2>3. rows[r] # Absent
    BY <2>1, <2>2 DEF RecordDeletion, IInv, StepInv, DeleteSteps
  <2>. QED BY <2>3, RecordsStay
<1>. QED BY <1>1, <1>2

LEMMA PayloadsStep ==
  IInv /\ PayloadsAccounted /\ [Next]_vars => PayloadsAccounted'
<1> SUFFICES ASSUME IInv, PayloadsAccounted, [Next]_vars PROVE PayloadsAccounted'
  OBVIOUS
<1> USE ConstantsAssumption
<1>1. \A a : Accounted(a) => Accounted(a)'
  BY AccountedStays
<1>2. ASSUME NEW r \in ReceiptIds, receipts'[r] # Absent
      PROVE  \A a : a = receipts'[r].artifact => Accounted(a)'
  <2>1. CASE receipts[r] # Absent
    <3>1. receipts'[r] = receipts[r]
      BY <2>1, RecordsStay
    <3>. QED BY <1>1, <2>1, <3>1 DEF PayloadsAccounted
  <2>2. CASE receipts'[r] # receipts[r]
    <3>1. PICK c \in Clients : LinkReceipt(c)
      BY <2>2 DEF Next, vars, Advance, BeginIngest, BeginDirectIngest, BeginDelete,
         FindArtifact, StageArtifact, LinkArtifact, CheckArtifact, FindReceipt, StageReceipt,
         IndexRecord, IngestFails, UnlinkArtifact, RecordDeletion, Crash, ApplyRetention,
         Recover, files
    <3>2. /\ job[c] \in Deliveries
          /\ pc[c] = "link_receipt"
      BY <3>1 DEF LinkReceipt, IInv, StepInv, IngestSteps
    <3>3. receipts'[r] = ReceiptOf(job[c])
      BY <2>2, <3>1 DEF LinkReceipt, IInv, TypeOK
    <3>. QED BY <1>1, <3>2, <3>3, DeliveryParts DEF PayloadsAccounted
  <2>. QED BY <1>2, <2>1, <2>2
<1>3. ASSUME NEW c \in Clients, pc'[c] \in {"put_receipt", "link_receipt", "index"}
      PROVE  \A a : a = job'[c].artifact => Accounted(a)'
  <2>1. CASE /\ pc[c] \in {"put_receipt", "link_receipt", "index"}
             /\ job'[c] = job[c]
    BY <1>1, <2>1 DEF PayloadsAccounted
  <2>2. CASE /\ pc[c] = "check_artifact" /\ job'[c] = job[c]
             /\ job[c].artifact \in artifacts
    BY <1>1, <2>2 DEF Accounted
  <2> USE DEF IInv, TypeOK
  <2>3. ASSUME NEW e \in Clients,
               \/ \E d \in Deliveries : BeginIngest(e, d) \/ BeginDirectIngest(e, d)
               \/ \E r \in ReceiptIds, t \in Times : BeginDelete(e, r, t)
        PROVE  pc[c] = pc'[c] /\ job'[c] = job[c]
    BY <1>3, <2>3 DEF BeginIngest, BeginDirectIngest, BeginDelete, Start
  <2>4. ASSUME NEW e \in Clients,
               \/ FindArtifact(e) \/ StageArtifact(e) \/ LinkArtifact(e)
               \/ StageReceipt(e) \/ UnlinkArtifact(e)
        PROVE  /\ pc[c] \in {"put_receipt", "link_receipt", "index"}
               /\ job'[c] = job[c]
    BY <1>3, <2>4 DEF FindArtifact, StageArtifact, LinkArtifact, StageReceipt,
       UnlinkArtifact, Goto
  <2>5. ASSUME NEW e \in Clients, CheckArtifact(e)
        PROVE  \/ /\ pc[c] \in {"put_receipt", "link_receipt", "index"}
                  /\ job'[c] = job[c]
               \/ /\ pc[c] = "check_artifact" /\ job'[c] = job[c]
                  /\ job[c].artifact \in artifacts
    BY <1>3, <2>5 DEF CheckArtifact, Goto
  <2>6. ASSUME NEW e \in Clients, FindReceipt(e) \/ LinkReceipt(e)
        PROVE  /\ pc[c] \in {"put_receipt", "link_receipt", "index"}
               /\ job'[c] = job[c]
    BY <1>3, <2>6 DEF FindReceipt, LinkReceipt, AfterReceipt, Finish
  <2>7. ASSUME NEW e \in Clients,
               IndexRecord(e) \/ IngestFails(e) \/ RecordDeletion(e) \/ Crash(e)
        PROVE  pc[c] = pc'[c] /\ job'[c] = job[c]
    BY <1>3, <2>7 DEF IndexRecord, IngestFails, RecordDeletion, Crash, Finish
  <2>8. ASSUME \/ \E r \in ReceiptIds, until \in Times \union {NoLimit}, hold \in BOOLEAN :
                    ApplyRetention(r, until, hold)
               \/ Recover \/ UNCHANGED vars
        PROVE  pc[c] = pc'[c] /\ job'[c] = job[c]
    BY <2>8 DEF ApplyRetention, Recover, vars
  <2>. QED
    BY <1>3, <2>1, <2>2, <2>3, <2>4, <2>5, <2>6, <2>7, <2>8 DEF Next, Advance
<1>. QED BY <1>2, <1>3 DEF PayloadsAccounted

\* A reader changes nothing of the workspace.
LEMMA ReaderStep ==
  ASSUME [ReadersNext]_readingVars, ~Meanwhile
  PROVE  UNCHANGED vars
BY DEF ReadersNext, readingVars, Begin, Go, Done, Refuse, Answer, Leave, BeginCatalog,
   BeginTrace, BeginQuery, BeginVerify, BeginSweep, BeginGovernance, ReadClaim, ListReceipts,
   ReadSource, AdmitSource, Hydrate, SelectRetention, SelectDeletions, VerifyRecord,
   FindPayload, OpenPayload, ReadRecord, ReadRetention, ReadTombstone

\* The workspace that readers see is the one that is proved above.
LEMMA WorkStep ==
  WorkInv /\ [ReadersNext]_readingVars => WorkInv'
<1> SUFFICES ASSUME WorkInv, [ReadersNext]_readingVars PROVE WorkInv'
  OBVIOUS
<1>1. [Next]_vars
  BY ReaderStep DEF Meanwhile
<1>2. IInv'
  BY <1>1, TypeStep, StepInvStep, IndexStep, OwnershipStep DEF WorkInv, IInv
<1>. QED BY <1>1, <1>2, TombstonesStep, PayloadsStep DEF WorkInv

-----------------------------------------------------------------------------
(* The request.                                                            *)

Fields == {"kind", "step", "subject", "todo", "known", "records", "retained", "deleted",
           "found"}

\* A request has its fields, and the rows that it selected are still there.
RequestInv ==
  reader # NoReader =>
    /\ DOMAIN reader = Fields
    /\ \A r \in ReceiptIds : reader.records[r] # Absent => rows[r] = reader.records[r]

LEMMA BeginEffect ==
  ASSUME NEW kind, NEW step, NEW subject, NEW todo, Begin(kind, step, subject, todo)
  PROVE  /\ DOMAIN reader' = Fields
         /\ reader'.kind = kind /\ reader'.step = step
         /\ reader'.subject = subject /\ reader'.todo = todo
         /\ reader'.known = Listed /\ reader'.records = rows
         /\ reader'.retained = {} /\ reader'.found = {}
         /\ reader'.deleted = IF kind = "governance" THEN Deleted ELSE {}
         /\ passing' = (IF kind = "verify" THEN IssuesAtOnce ELSE {})
         /\ lasting' = IF kind = "governance" THEN {retention[subject]} ELSE passing'
         /\ UNCHANGED vars
BY DEF Begin, Fields

LEMMA DoneEffect ==
  ASSUME DOMAIN reader = Fields, NEW r, NEW found, Done(r, found)
  PROVE  /\ DOMAIN reader' = Fields
         /\ reader'.kind = reader.kind /\ reader'.step = "read"
         /\ reader'.todo = reader.todo \ {r} /\ reader'.found = reader.found \union found
         /\ reader'.subject = reader.subject /\ reader'.known = reader.known
         /\ reader'.records = reader.records /\ reader'.retained = reader.retained
         /\ reader'.deleted = reader.deleted
         /\ UNCHANGED <<vars, passing, lasting>>
BY DEF Done, Go, Fields

\* Only the step of a request changes.
OnlyStep(step) ==
  /\ DOMAIN reader' = Fields
  /\ reader'.kind = reader.kind /\ reader'.step = step
  /\ reader'.todo = reader.todo /\ reader'.found = reader.found
  /\ reader'.subject = reader.subject /\ reader'.known = reader.known
  /\ reader'.records = reader.records /\ reader'.retained = reader.retained
  /\ reader'.deleted = reader.deleted
  /\ UNCHANGED <<vars, passing, lasting>>

LEMMA StepEffect ==
  ASSUME DOMAIN reader = Fields, NEW step, Go([reader EXCEPT !.step = step])
  PROVE  OnlyStep(step)
BY DEF Go, Fields, OnlyStep

LEMMA AnswerEffect ==
  ASSUME RequestInv, Answer
  PROVE  /\ reader # NoReader /\ reader.step = "read" /\ reader.todo = {}
         /\ OnlyStep("answered")
BY StepEffect DEF Answer, RequestInv

LEMMA RefuseEffect ==
  ASSUME DOMAIN reader = Fields, Refuse
  PROVE  OnlyStep("refused")
BY StepEffect DEF Refuse

\* Each step of a request is of its kind.
LEMMA StepsByKind ==
  ASSUME RequestInv, [ReadersNext]_readingVars, reader' # NoReader
  PROVE  \/ Meanwhile \/ UNCHANGED readingVars \/ Answer
         \/ /\ reader'.kind = "catalog"
            /\ BeginCatalog \/ \E r \in ReceiptIds : ReadClaim(r)
         \/ /\ reader'.kind = "trace"
            /\ \/ \E r \in ReceiptIds : BeginTrace(r) \/ ReadSource(r)
               \/ ListReceipts \/ AdmitSource
         \/ /\ reader'.kind = "query"
            /\ BeginQuery \/ \E r \in ReceiptIds : Hydrate(r)
         \/ /\ reader'.kind = "verify"
            /\ \/ BeginVerify \/ SelectRetention \/ SelectDeletions
               \/ \E r \in ReceiptIds : VerifyRecord(r)
         \/ /\ reader'.kind = "sweep"
            /\ BeginSweep \/ (\E a \in Artifacts : FindPayload(a)) \/ OpenPayload
         \/ /\ reader'.kind = "governance"
            /\ \/ \E r \in ReceiptIds, context \in Contexts : BeginGovernance(r, context)
               \/ ReadRecord \/ ReadRetention \/ ReadTombstone
<1>1. reader # NoReader => DOMAIN reader = Fields
  BY DEF RequestInv
<1>3. BeginCatalog => reader'.kind = "catalog"
  BY BeginEffect DEF BeginCatalog
<1>4. BeginQuery => reader'.kind = "query"
  BY BeginEffect DEF BeginQuery
<1>5. BeginVerify => reader'.kind = "verify"
  BY BeginEffect DEF BeginVerify
<1>6. BeginSweep => reader'.kind = "sweep"
  BY BeginEffect DEF BeginSweep
<1>7. \A r \in ReceiptIds : BeginTrace(r) => reader'.kind = "trace"
  BY BeginEffect DEF BeginTrace
<1>8. \A r \in ReceiptIds, context \in Contexts :
        BeginGovernance(r, context) => reader'.kind = "governance"
  BY BeginEffect DEF BeginGovernance
<1>9. ASSUME NEW r \in ReceiptIds
      PROVE  /\ ReadClaim(r) => reader'.kind = "catalog"
             /\ ReadSource(r) => reader'.kind = "trace"
             /\ Hydrate(r) => reader'.kind = "query"
             /\ VerifyRecord(r) => reader'.kind = "verify"
  BY <1>1 DEF ReadClaim, ReadSource, Hydrate, VerifyRecord, Reading, Done, Refuse, Go, Fields
<1>10. /\ ListReceipts \/ AdmitSource => reader'.kind = "trace"
       /\ SelectRetention \/ SelectDeletions => reader'.kind = "verify"
       /\ ReadRecord \/ ReadRetention \/ ReadTombstone => reader'.kind = "governance"
       /\ (\E a \in Artifacts : FindPayload(a)) \/ OpenPayload => reader'.kind = "sweep"
  BY <1>1 DEF ListReceipts, AdmitSource, SelectRetention, SelectDeletions, ReadRecord,
     ReadRetention, ReadTombstone, FindPayload, OpenPayload, Reading, Done, Refuse, Go, Fields
<1>11. ~Leave
  BY DEF Leave
<1>. QED
  BY <1>3, <1>4, <1>5, <1>6, <1>7, <1>8, <1>9, <1>10, <1>11, Zenon DEF ReadersNext

LEMMA RequestStep ==
  WorkInv /\ RequestInv /\ [ReadersNext]_readingVars => RequestInv'
<1> SUFFICES ASSUME WorkInv, RequestInv, [ReadersNext]_readingVars, reader' # NoReader
             PROVE  /\ DOMAIN reader' = Fields
                    /\ \A r \in ReceiptIds : reader'.records[r] # Absent =>
                         rows'[r] = reader'.records[r]
  BY DEF RequestInv
<1>1. CASE reader = NoReader
  <2>1. Meanwhile => reader' = NoReader
    BY <1>1 DEF Meanwhile
  <2>2. UNCHANGED readingVars => reader' = NoReader
    BY <1>1 DEF readingVars
  <2>3. \E kind, step, subject, todo : Begin(kind, step, subject, todo)
    BY <1>1, <2>1, <2>2 DEF ReadersNext, Reading, Answer, Leave, BeginCatalog, BeginTrace,
       BeginQuery, BeginVerify, BeginSweep, BeginGovernance, ReadClaim, ListReceipts,
       ReadSource, AdmitSource, Hydrate, SelectRetention, SelectDeletions, VerifyRecord,
       FindPayload, OpenPayload, ReadRecord, ReadRetention, ReadTombstone
  <2>4. DOMAIN reader' = Fields /\ reader'.records = rows /\ UNCHANGED vars
    BY <2>3, BeginEffect
  <2>. QED BY <2>4 DEF vars
<1>2. CASE reader # NoReader
  <2>1. DOMAIN reader = Fields
    BY <1>2 DEF RequestInv
  <2>2. DOMAIN reader' = Fields /\ reader'.records = reader.records
    <3>1. CASE reader' = reader
      BY <2>1, <3>1
    <3>2. CASE \E r, found : Done(r, found)
      BY <2>1, <3>2, DoneEffect
    <3>3. CASE \E step : Go([reader EXCEPT !.step = step])
      BY <2>1, <3>3 DEF Go, Fields
    <3>4. CASE ListReceipts \/ SelectRetention \/ SelectDeletions
      BY <2>1, <3>4 DEF ListReceipts, SelectRetention, SelectDeletions, Go, Fields
    <3>5. ASSUME \/ \E r \in ReceiptIds : ReadSource(r)
                 \/ \E a \in Artifacts : FindPayload(a)
          PROVE  \/ DOMAIN reader' = Fields /\ reader'.records = reader.records
                 \/ \E r, found : Done(r, found)
      BY <2>1, <3>5 DEF ReadSource, FindPayload, Go, Fields
    <3>6. ASSUME NEW r \in ReceiptIds, ReadClaim(r) \/ Hydrate(r) \/ VerifyRecord(r)
          PROVE  (\E q, found : Done(q, found)) \/ (\E step : Go([reader EXCEPT !.step = step]))
      BY <3>6 DEF ReadClaim, Hydrate, VerifyRecord, Refuse
    <3>7. ASSUME \/ AdmitSource \/ OpenPayload \/ ReadRecord \/ ReadRetention \/ ReadTombstone
                 \/ Answer
          PROVE  (\E q, found : Done(q, found)) \/ (\E step : Go([reader EXCEPT !.step = step]))
      BY <3>7 DEF AdmitSource, OpenPayload, ReadRecord, ReadRetention, ReadTombstone, Answer,
         Refuse
    <3>8. ~\E kind, step, subject, todo : Begin(kind, step, subject, todo)
      BY <1>2 DEF Begin
    <3>9. /\ ~BeginCatalog /\ ~BeginQuery /\ ~BeginVerify /\ ~BeginSweep /\ ~Leave
          /\ \A r \in ReceiptIds : ~BeginTrace(r)
          /\ \A r \in ReceiptIds, context \in Contexts : ~BeginGovernance(r, context)
      BY <3>8 DEF BeginCatalog, BeginQuery, BeginVerify, BeginSweep, BeginTrace,
         BeginGovernance, Leave
    <3>10. Meanwhile \/ UNCHANGED readingVars => reader' = reader
      BY DEF Meanwhile, readingVars
    <3>. QED
      BY <3>1, <3>2, <3>3, <3>4, <3>5, <3>6, <3>7, <3>9, <3>10, Zenon DEF ReadersNext
  <2>3. [Next]_vars
    BY ReaderStep DEF Meanwhile
  <2>. QED BY <1>2, <2>2, <2>3, RecordsStay DEF WorkInv, RequestInv
<1>. QED BY <1>1, <1>2

\* The workspace moves on under a request, and what was gone stays gone.
LEMMA MeanwhileEffect ==
  ASSUME WorkInv, Meanwhile
  PROVE  /\ [Next]_vars /\ reader' = reader
         /\ \A a : Removed(a) => Removed(a)'
         /\ \A a : Accounted(a) => Accounted(a)'
         /\ \A r \in ReceiptIds : receipts[r] # Absent => receipts'[r] = receipts[r]
         /\ \A r \in ReceiptIds : rows[r] # Absent => rows'[r] = rows[r]
         /\ \A r \in ReceiptIds : tombstones[r] # Absent => tombstones'[r] = tombstones[r]
<1>1. [Next]_vars /\ reader' = reader
  BY DEF Meanwhile
<1>. QED BY <1>1, RemovedStays, AccountedStays, RecordsStay DEF WorkInv

-----------------------------------------------------------------------------
(* The claim catalog, a query and the sweep.                               *)

\* The receipts of a catalog stay, and one that it fails for was deleted.
CatalogInv ==
  reader # NoReader /\ reader.kind = "catalog" =>
    /\ reader.todo \subseteq Listed
    /\ reader.step = "refused" =>
         \E r \in reader.todo : IsReport(r) /\ Removed(receipts[r].artifact)

LEMMA CatalogStep ==
  WorkInv /\ RequestInv /\ CatalogInv /\ [ReadersNext]_readingVars => CatalogInv'
<1> SUFFICES ASSUME WorkInv, RequestInv, CatalogInv, [ReadersNext]_readingVars,
                    reader' # NoReader, reader'.kind = "catalog"
             PROVE  /\ reader'.todo \subseteq Listed'
                    /\ reader'.step = "refused" =>
                         \E r \in reader'.todo : IsReport(r)' /\ receipts'[r] # Absent /\
                           \A a : a = receipts'[r].artifact => Removed(a)'
  BY DEF CatalogInv, IsReport
<1>1. CASE Meanwhile
  <2>1. CatalogInv /\ reader.kind = "catalog" /\ reader # NoReader /\ reader' = reader
    BY <1>1, MeanwhileEffect
  <2>2. \A r \in ReceiptIds : receipts[r] # Absent => receipts'[r] = receipts[r]
    BY <1>1, MeanwhileEffect
  <2>3. \A a : Removed(a) => Removed(a)'
    BY <1>1, MeanwhileEffect
  <2>. QED BY <2>1, <2>2, <2>3 DEF CatalogInv, Listed, IsReport
<1>2. CASE BeginCatalog
  <2>1. reader'.todo = Listed /\ reader'.step \in {"too_large", "read"} /\ UNCHANGED vars
    BY <1>2, BeginEffect DEF BeginCatalog
  <2>. QED BY <2>1 DEF Listed, vars
<1>3. ASSUME NEW r \in ReceiptIds, ReadClaim(r)
      PROVE  /\ reader'.todo \subseteq Listed'
             /\ reader'.step = "refused" =>
                  \E q \in reader'.todo : IsReport(q)' /\ receipts'[q] # Absent /\
                    \A a : a = receipts'[q].artifact => Removed(a)'
  <2>1. /\ reader # NoReader /\ reader.kind = "catalog" /\ reader.step = "read"
        /\ r \in reader.todo /\ DOMAIN reader = Fields
    BY <1>3 DEF ReadClaim, Reading, RequestInv
  <2>2. CASE \E found : Done(r, found)
    <3>1. reader'.todo = reader.todo \ {r} /\ reader'.step = "read" /\ UNCHANGED vars
      BY <2>1, <2>2, DoneEffect
    <3>. QED BY <2>1, <3>1 DEF CatalogInv, Listed, vars
  <2>3. CASE Refuse /\ IsReport(r) /\ ~Stored(r)
    <3>1. reader'.todo = reader.todo /\ UNCHANGED vars
      BY <2>1, <2>3, RefuseEffect DEF OnlyStep
    <3>2. r \in Listed /\ Removed(receipts[r].artifact)
      BY <2>1, <2>3 DEF CatalogInv, Listed, WorkInv, PayloadsAccounted, Accounted, Stored
    <3>3. \A a : Removed(a) => Removed(a)'
      BY <3>1 DEF vars, Removed, Indexed, Deleted
    <3>. QED BY <2>1, <2>3, <3>1, <3>2, <3>3 DEF CatalogInv, Listed, vars, IsReport
  <2>. QED BY <1>3, <2>2, <2>3 DEF ReadClaim
<1>4. CASE Answer
  <2>1. /\ reader # NoReader /\ reader'.kind = reader.kind /\ reader'.step = "answered"
        /\ reader'.todo = reader.todo /\ UNCHANGED vars
    BY <1>4, AnswerEffect DEF OnlyStep
  <2>. QED BY <2>1 DEF CatalogInv, Listed, vars
<1>5. CASE UNCHANGED readingVars
  <2>1. reader' = reader /\ UNCHANGED vars
    BY <1>5 DEF readingVars
  <2>2. \A a : Removed(a) => Removed(a)'
    BY <2>1 DEF vars, Removed, Indexed, Deleted
  <2>. QED BY <2>1, <2>2 DEF CatalogInv, Listed, IsReport, vars
<1>. QED BY <1>1, <1>2, <1>3, <1>4, <1>5, StepsByKind

\* A row that was selected has its receipt: no query fails.
QueryInv ==
  reader # NoReader /\ reader.kind = "query" =>
    /\ \A r \in reader.todo : r \in ReceiptIds /\ reader.records[r] # Absent
    /\ reader.step # "refused"

LEMMA QueryStep ==
  WorkInv /\ RequestInv /\ QueryInv /\ [ReadersNext]_readingVars => QueryInv'
<1> SUFFICES ASSUME WorkInv, RequestInv, QueryInv, [ReadersNext]_readingVars,
                    reader' # NoReader, reader'.kind = "query"
             PROVE  /\ \A r \in reader'.todo : r \in ReceiptIds /\ reader'.records[r] # Absent
                    /\ reader'.step # "refused"
  BY DEF QueryInv
<1>1. CASE Meanwhile \/ UNCHANGED readingVars
  BY <1>1 DEF Meanwhile, readingVars, QueryInv
<1>2. CASE BeginQuery
  BY <1>2, BeginEffect DEF BeginQuery, Indexed
<1>3. ASSUME NEW r \in ReceiptIds, Hydrate(r)
      PROVE  /\ \A q \in reader'.todo : q \in ReceiptIds /\ reader'.records[q] # Absent
             /\ reader'.step # "refused"
  <2>1. /\ reader # NoReader /\ reader.kind = "query" /\ r \in reader.todo
        /\ DOMAIN reader = Fields
    BY <1>3 DEF Hydrate, Reading, RequestInv
  <2>2. rows[r] = reader.records[r] /\ rows[r] # Absent
    BY <2>1 DEF QueryInv, RequestInv
  <2>3. receipts[r] = reader.records[r].receipt
    BY <2>2 DEF WorkInv, IInv, RowsMatchReceipts
  <2>4. Done(r, {r})
    BY <1>3, <2>3 DEF Hydrate
  <2>5. /\ reader'.todo = reader.todo \ {r} /\ reader'.step = "read"
        /\ reader'.records = reader.records
    BY <2>1, <2>4, DoneEffect
  <2>. QED BY <2>1, <2>5 DEF QueryInv
<1>4. CASE Answer
  BY <1>4, AnswerEffect DEF QueryInv, OnlyStep
<1>. QED BY <1>1, <1>2, <1>3, <1>4, StepsByKind

\* The payloads of a sweep were there when it listed them.
SweepInv ==
  reader # NoReader /\ reader.kind = "sweep" =>
    /\ \A a \in reader.todo : Accounted(a)
    /\ reader.step = "open" => Accounted(reader.subject)
    /\ reader.step = "refused" => Removed(reader.subject)

LEMMA SweepStep ==
  WorkInv /\ RequestInv /\ SweepInv /\ [ReadersNext]_readingVars => SweepInv'
<1> SUFFICES ASSUME WorkInv, RequestInv, SweepInv, [ReadersNext]_readingVars,
                    reader' # NoReader, reader'.kind = "sweep"
             PROVE  /\ \A a \in reader'.todo : Accounted(a)'
                    /\ reader'.step = "open" => \A a : a = reader'.subject => Accounted(a)'
                    /\ reader'.step = "refused" => \A a : a = reader'.subject => Removed(a)'
  BY DEF SweepInv
<1>1. CASE Meanwhile
  BY <1>1, MeanwhileEffect DEF SweepInv
<1>2. UNCHANGED vars => \A a : (Removed(a) => Removed(a)') /\ (Accounted(a) => Accounted(a)')
  BY DEF vars, Removed, Indexed, Deleted, Accounted
<1>3. CASE UNCHANGED readingVars
  BY <1>2, <1>3 DEF readingVars, SweepInv
<1>4. CASE BeginSweep
  <2>1. reader'.todo = artifacts /\ reader'.step = "read" /\ UNCHANGED vars
    BY <1>4, BeginEffect DEF BeginSweep
  <2>. QED BY <1>2, <2>1 DEF Accounted
<1>5. ASSUME NEW b, NEW found, reader # NoReader, reader.kind = "sweep", Done(b, found)
      PROVE  /\ \A a \in reader'.todo : Accounted(a)'
             /\ reader'.step = "read"
  BY <1>2, <1>5, DoneEffect DEF SweepInv, RequestInv
<1>6. ASSUME NEW b \in Artifacts, FindPayload(b)
      PROVE  \/ \E found : Done(b, found)
             \/ /\ reader'.todo = reader.todo /\ reader'.step = "open"
                /\ reader'.subject = b /\ Accounted(b) /\ UNCHANGED vars
  BY <1>6 DEF FindPayload, Reading, RequestInv, Go, Fields, Accounted
<1>7. ASSUME NEW b \in Artifacts, FindPayload(b)
      PROVE  /\ \A a \in reader'.todo : Accounted(a)'
             /\ reader'.step = "open" => \A a : a = reader'.subject => Accounted(a)'
             /\ reader'.step # "refused"
  <2>1. reader # NoReader /\ reader.kind = "sweep"
    BY <1>7 DEF FindPayload, Reading
  <2>. QED BY <1>2, <1>5, <1>6, <1>7, <2>1 DEF SweepInv
<1>8. CASE OpenPayload
  <2>1. /\ reader # NoReader /\ reader.kind = "sweep" /\ reader.step = "open"
        /\ DOMAIN reader = Fields
    BY <1>8 DEF OpenPayload, Reading, RequestInv
  <2>2. CASE reader.subject \in artifacts
    BY <1>5, <1>8, <2>1, <2>2 DEF OpenPayload
  <2>3. CASE reader.subject \notin artifacts
    <3>1. OnlyStep("refused")
      BY <1>8, <2>1, <2>3, RefuseEffect DEF OpenPayload
    <3>2. Removed(reader.subject)
      BY <2>1, <2>3 DEF SweepInv, Accounted
    <3>. QED BY <1>2, <2>1, <3>1, <3>2 DEF OnlyStep, SweepInv
  <2>. QED BY <2>2, <2>3
<1>9. CASE Answer
  BY <1>2, <1>9, AnswerEffect DEF SweepInv, OnlyStep
<1>. QED BY <1>1, <1>3, <1>4, <1>7, <1>8, <1>9, StepsByKind

-----------------------------------------------------------------------------
(* The evidence trace.                                                     *)

\* The payload of the receipt was deleted.
Taken(r) == r \in Listed /\ Removed(receipts[r].artifact)

\* A request x for a trace has, of each source that was there when it began,
\* a row or is yet to read it, unless the source is a report.
TraceOk(x) ==
  /\ x.known \subseteq Listed /\ x.todo \subseteq Listed
  /\ x.step = "list" => x.subject \in ReceiptIds /\ IsReport(x.subject)
  /\ x.step = "refused" => Taken(x.subject)
  /\ x.step = "admit" => x.subject \in x.todo
  /\ x.step = "answered" => x.todo = {}
  /\ \A row \in x.found : row.id \in Listed /\ (row.status = "unavailable" => Taken(row.id))
  /\ x.step \in {"read", "admit", "answered"} =>
       \A r \in Sources \intersect x.known :
         IsReport(r) \/ r \in x.todo \/ \E row \in x.found : row.id = r

TraceInv == reader # NoReader /\ reader.kind = "trace" => TraceOk(reader)

LEMMA TraceOkStays ==
  ASSUME WorkInv, [Next]_vars, NEW x, TraceOk(x)
  PROVE  TraceOk(x)'
<1>1. \A r \in ReceiptIds : receipts[r] # Absent => receipts'[r] = receipts[r]
  BY RecordsStay DEF WorkInv
<1>2. \A a : Removed(a) => Removed(a)'
  BY RemovedStays DEF WorkInv
<1>3. \A r \in Listed : r \in Listed' /\ receipts'[r] = receipts[r]
  BY <1>1 DEF Listed
<1>4. ASSUME NEW r \in Listed, IsReport(r) PROVE IsReport(r)'
  BY <1>3, <1>4 DEF IsReport, Listed
<1>5. ASSUME NEW r, Taken(r) PROVE Taken(r)'
  BY <1>2, <1>3, <1>5 DEF Taken
<1>. QED BY <1>3, <1>4, <1>5 DEF TraceOk, IsReport, Listed

\* What was found of a source, and what is left to read.
LEMMA TraceDone ==
  ASSUME reader # NoReader, reader.kind = "trace", RequestInv, TraceOk(reader),
         NEW r \in reader.todo, NEW status, reader.step \in {"read", "admit"},
         status = "unavailable" => Taken(r),
         Done(r, {Row(r, status)})
  PROVE  TraceOk(reader')
<1>1. /\ reader'.step = "read" /\ reader'.known = reader.known
      /\ reader'.todo = reader.todo \ {r}
      /\ reader'.found = reader.found \union {Row(r, status)}
  BY DoneEffect DEF RequestInv
<1>2. Row(r, status).id = r /\ Row(r, status).status = status
  BY DEF Row
<1>. QED BY <1>1, <1>2 DEF TraceOk

LEMMA TraceStep ==
  WorkInv /\ RequestInv /\ TraceInv /\ [ReadersNext]_readingVars => TraceInv'
<1> SUFFICES ASSUME WorkInv, RequestInv, TraceInv, [ReadersNext]_readingVars,
                    reader' # NoReader, reader'.kind = "trace"
             PROVE  \E x : x = reader' /\ TraceOk(x)'
  BY DEF TraceInv, TraceOk
<1>0. [Next]_vars
  BY ReaderStep DEF Meanwhile
<1>a. SUFFICES TraceOk(reader')
  <2>1. PICK x : x = reader'
    OBVIOUS
  <2>2. TraceOk(x)
    BY <1>a, <2>1
  <2>. QED BY <1>0, <2>1, <2>2, TraceOkStays
<1>1. CASE Meanwhile \/ UNCHANGED readingVars
  <2>1. reader' = reader
    BY <1>1 DEF Meanwhile, readingVars
  <2>. QED BY <2>1 DEF TraceInv
<1>2. ASSUME NEW r \in ReceiptIds, BeginTrace(r)
      PROVE  TraceOk(reader')
  <2>1. IsReport(r) /\ Begin("trace", IF Stored(r) THEN "list" ELSE "refused", r, {})
    BY <1>2 DEF BeginTrace
  <2>2. /\ reader'.step = (IF Stored(r) THEN "list" ELSE "refused")
        /\ reader'.subject = r /\ reader'.todo = {} /\ reader'.known = Listed
        /\ reader'.found = {}
    BY <2>1, BeginEffect
  <2>3. ~Stored(r) => Taken(r)
    BY <2>1 DEF WorkInv, PayloadsAccounted, Accounted, Stored, Taken, Listed, IsReport
  <2>. QED BY <2>1, <2>2, <2>3 DEF TraceOk
<1>3. CASE ListReceipts
  <2>1. /\ reader # NoReader /\ reader.kind = "trace" /\ reader.step = "list"
        /\ DOMAIN reader = Fields /\ TraceOk(reader)
    BY <1>3 DEF ListReceipts, Reading, RequestInv, TraceInv
  <2>2. PICK scanned \in SUBSET Listed :
          reader' = [reader EXCEPT !.step = "read",
                       !.todo = (Selected(scanned) \intersect Sources) \ {reader.subject}]
    BY <1>3 DEF ListReceipts, Go
  <2>3. /\ reader'.step = "read" /\ reader'.known = reader.known
        /\ reader'.found = reader.found
        /\ reader'.todo = (Selected(scanned) \intersect Sources) \ {reader.subject}
    BY <2>1, <2>2 DEF Fields
  <2>4. /\ Selected(scanned) \subseteq Listed
        /\ Sources \intersect Listed \subseteq Selected(scanned)
    BY DEF Selected
  <2>. QED BY <2>1, <2>3, <2>4 DEF TraceOk
<1>4. ASSUME NEW r \in ReceiptIds, ReadSource(r)
      PROVE  TraceOk(reader')
  <2>1. /\ reader # NoReader /\ reader.kind = "trace" /\ reader.step = "read"
        /\ DOMAIN reader = Fields /\ TraceOk(reader) /\ r \in reader.todo
    BY <1>4 DEF ReadSource, Reading, RequestInv, TraceInv
  <2>2. CASE Stored(r)
    <3>1. reader' = [reader EXCEPT !.step = "admit", !.subject = r]
      BY <1>4, <2>2 DEF ReadSource, Go
    <3>2. /\ reader'.step = "admit" /\ reader'.subject = r /\ reader'.known = reader.known
          /\ reader'.todo = reader.todo /\ reader'.found = reader.found
      BY <2>1, <3>1 DEF Fields
    <3>. QED BY <2>1, <3>2 DEF TraceOk
  <2>3. CASE ~Stored(r)
    <3>1. Taken(r)
      BY <2>1, <2>3 DEF TraceOk, WorkInv, PayloadsAccounted, Accounted, Stored, Taken, Listed
    <3>. QED BY <1>4, <2>1, <2>3, <3>1, TraceDone DEF ReadSource
  <2>. QED BY <2>2, <2>3
<1>5. CASE AdmitSource
  <2>1. /\ reader # NoReader /\ reader.kind = "trace" /\ reader.step = "admit"
        /\ TraceOk(reader) /\ reader.subject \in reader.todo
    BY <1>5 DEF AdmitSource, Reading, TraceInv, TraceOk
  <2>2. PICK status :
          /\ status = IF Stored(reader.subject) THEN "verified" ELSE "unavailable"
          /\ Done(reader.subject, {Row(reader.subject, status)})
    BY <1>5 DEF AdmitSource
  <2>3. status = "unavailable" => Taken(reader.subject)
    BY <2>1, <2>2
       DEF TraceOk, WorkInv, PayloadsAccounted, Accounted, Stored, Taken, Listed
  <2>. QED BY <2>1, <2>2, <2>3, TraceDone
<1>6. CASE Answer
  <2>1. /\ reader # NoReader /\ reader'.kind = reader.kind /\ reader'.step = "answered"
        /\ reader.step = "read" /\ reader.todo = {}
        /\ reader'.todo = reader.todo /\ reader'.known = reader.known
        /\ reader'.found = reader.found
    BY <1>6, AnswerEffect DEF OnlyStep
  <2>. QED BY <2>1 DEF TraceInv, TraceOk
<1>. QED BY <1>1, <1>2, <1>3, <1>4, <1>5, <1>6, StepsByKind

-----------------------------------------------------------------------------
(* The data governance page.                                               *)

\* A tombstone of the record that a governance page is about is no older than
\* the deadline, if its retention row has been the same all along.
GovernanceInv ==
  reader # NoReader /\ reader.kind = "governance" =>
    /\ reader.subject \in ReceiptIds
    /\ \E context \in Contexts : reader.todo = {context}
    /\ lasting # {} =>
         /\ lasting = {retention[reader.subject]}
         /\ \/ reader.subject \in reader.deleted
            \/ tombstones[reader.subject] = Absent
            \/ DeletionAllowed(retention[reader.subject], tombstones[reader.subject])
         /\ reader.step = "tombstone" => retention[reader.subject] \in reader.todo
         /\ reader.step = "predates" => reader.subject \in reader.deleted

\* A deletion that is recorded is one that its retention row allows.
LEMMA RecordedInTime ==
  ASSUME WorkInv, [Next]_vars, NEW r \in ReceiptIds, tombstones'[r] # tombstones[r]
  PROVE  /\ tombstones[r] = Absent
         /\ artifacts' = artifacts /\ retention' = retention
         /\ DeletionAllowed(retention[r], tombstones'[r])
<1>1. PICK c \in Clients : RecordDeletion(c)
  BY DEF Next, vars, Advance, BeginIngest, BeginDirectIngest, BeginDelete,
     FindArtifact, StageArtifact, LinkArtifact, CheckArtifact, FindReceipt, StageReceipt,
     LinkReceipt, IndexRecord, IngestFails, UnlinkArtifact, Crash, ApplyRetention,
     Recover, database
<1>2. DeletionAllowed(retention[job[c].receipt], job[c].at)
  BY <1>1 DEF RecordDeletion, WorkInv, IInv, StepInv, DeleteSteps
<1>3. /\ \/ /\ tombstones[job[c].receipt] = Absent
            /\ tombstones' = [tombstones EXCEPT ![job[c].receipt] = job[c].at]
         \/ tombstones' = tombstones
      /\ artifacts' = artifacts /\ retention' = retention
  BY <1>1 DEF RecordDeletion, files
<1>4. r = job[c].receipt /\ tombstones[r] = Absent /\ tombstones'[r] = job[c].at
  BY <1>3 DEF WorkInv, IInv, TypeOK
<1>. QED BY <1>2, <1>3, <1>4

LEMMA GovernanceStep ==
  WorkInv /\ RequestInv /\ GovernanceInv /\ [ReadersNext]_readingVars => GovernanceInv'
<1> SUFFICES ASSUME WorkInv, RequestInv, GovernanceInv, [ReadersNext]_readingVars,
                    reader' # NoReader, reader'.kind = "governance"
             PROVE  GovernanceInv'
  BY DEF GovernanceInv
<1>1. CASE Meanwhile
  <2>1. /\ reader' = reader /\ reader # NoReader /\ reader.kind = "governance"
        /\ reader.subject \in ReceiptIds
        /\ lasting' = lasting \intersect {retention'[reader.subject]}
    BY <1>1 DEF Meanwhile, GovernanceInv
  <2>2. CASE lasting' = {}
    BY <2>1, <2>2 DEF GovernanceInv
  <2>3. CASE lasting' # {}
    <3>1. /\ lasting = {retention[reader.subject]} /\ lasting' = lasting
          /\ retention'[reader.subject] = retention[reader.subject]
      BY <2>1, <2>3 DEF GovernanceInv
    <3>2. \/ tombstones'[reader.subject] = tombstones[reader.subject]
          \/ DeletionAllowed(retention[reader.subject], tombstones'[reader.subject])
      BY <1>1, <2>1, RecordedInTime, MeanwhileEffect
    <3>. QED BY <2>1, <3>1, <3>2 DEF GovernanceInv, DeletionAllowed, Expired
  <2>. QED BY <2>2, <2>3
<1>2. CASE UNCHANGED readingVars
  BY <1>2 DEF readingVars, vars, GovernanceInv
<1>3. ASSUME NEW r \in ReceiptIds, NEW context \in Contexts, BeginGovernance(r, context)
      PROVE  GovernanceInv'
  <2>1. /\ reader'.step = "record" /\ reader'.subject = r /\ reader'.todo = {context}
        /\ reader'.deleted = Deleted /\ lasting' = {retention[r]} /\ UNCHANGED vars
    BY <1>3, BeginEffect DEF BeginGovernance
  <2>. QED BY <2>1 DEF GovernanceInv, Deleted, vars, Contexts
<1>4. ASSUME NEW step, OnlyStep(step), reader # NoReader, reader.kind = "governance",
             step = "tombstone" => retention[reader.subject] \in reader.todo,
             step = "predates" => reader.subject \in reader.deleted \/ lasting = {}
      PROVE  GovernanceInv'
  BY <1>4 DEF OnlyStep, GovernanceInv, vars
<1>5. CASE ReadRecord
  <2>1. reader # NoReader /\ reader.kind = "governance" /\ DOMAIN reader = Fields
    BY <1>5 DEF ReadRecord, Reading, RequestInv
  <2>2. OnlyStep("refused") \/ OnlyStep("retention")
    BY <1>5, <2>1, RefuseEffect, StepEffect DEF ReadRecord
  <2>. QED BY <1>4, <2>1, <2>2
<1>6. CASE ReadRetention
  <2>1. reader # NoReader /\ reader.kind = "governance" /\ DOMAIN reader = Fields
    BY <1>6 DEF ReadRetention, Reading, RequestInv
  <2>2. \/ OnlyStep("refused")
        \/ OnlyStep("tombstone") /\ retention[reader.subject] \in reader.todo
    BY <1>6, <2>1, RefuseEffect, StepEffect DEF ReadRetention
  <2>. QED BY <1>4, <2>1, <2>2
<1>7. CASE ReadTombstone
  <2> DEFINE due == tombstones[reader.subject]
             step == IF /\ due # Absent
                        /\ \E context \in reader.todo :
                             context.until # NoLimit /\ due < context.until
                     THEN "predates" ELSE "answered"
  <2>1. /\ reader # NoReader /\ reader.kind = "governance" /\ DOMAIN reader = Fields
        /\ reader.step = "tombstone" /\ reader.subject \in ReceiptIds
    BY <1>7 DEF ReadTombstone, Reading, RequestInv, GovernanceInv
  <2>2. OnlyStep(step)
    BY <1>7, <2>1, StepEffect DEF ReadTombstone
  <2>3. ASSUME step = "predates", lasting # {}, reader.subject \notin reader.deleted
        PROVE  FALSE
    <3>1. reader.todo = {retention[reader.subject]}
      BY <2>1, <2>3 DEF GovernanceInv
    <3>2. due # Absent /\ due < retention[reader.subject].until
      BY <2>3, <3>1
    <3>3. /\ due >= retention[reader.subject].until
          /\ retention[reader.subject].until # NoLimit
      BY <2>1, <2>3, <3>2 DEF GovernanceInv, DeletionAllowed, Expired
    <3>4. due \in Int /\ retention[reader.subject].until \in Int
      <4>1. retention[reader.subject] \in Contexts
        BY <2>1, <3>1 DEF GovernanceInv
      <4>. QED BY <2>1, <3>2, <3>3, <4>1, ConstantsAssumption
           DEF Contexts, Retentions, WorkInv, IInv, TypeOK
    <3>. QED BY <3>2, <3>3, <3>4
  <2> HIDE DEF step
  <2>4. step # "tombstone"
    BY DEF step
  <2>. QED BY <1>4, <2>1, <2>2, <2>3, <2>4
<1>8. CASE Answer
  <2>1. OnlyStep("answered") /\ reader # NoReader
    BY <1>8, AnswerEffect
  <2>2. reader.kind = "governance"
    BY <2>1 DEF OnlyStep
  <2>. QED BY <1>4, <2>1, <2>2
<1>. QED BY <1>1, <1>2, <1>3, <1>5, <1>6, <1>7, <1>8, StepsByKind

-----------------------------------------------------------------------------
(* The verification.                                                       *)

\* All that there is to say of a record whose receipt is there.
LEMMA IssuesOfRecord ==
  ASSUME WorkInv, NEW r \in Indexed, NEW deleted
  PROVE  /\ receipts[r] = rows[r].receipt /\ receipts[r] # Absent
         /\ RecordIssues(r, rows[r], deleted) =
              IF r \in deleted /\ Stored(r) THEN {Issue("DELETED_ARTIFACT_PRESENT", r)}
              ELSE IF r \notin deleted /\ ~Stored(r) THEN {Issue("ARTIFACT_MISSING", r)}
              ELSE {}
<1>1. receipts[r] = rows[r].receipt /\ receipts[r] # Absent
  BY ConstantsAssumption DEF Indexed, WorkInv, IInv, RowsMatchReceipts, TypeOK, Rows
<1>. QED BY <1>1 DEF RecordIssues

\* What a verification at once finds: no row of another table is without its
\* record, so only payloads remain.
LEMMA IssuesOfWorkspace ==
  ASSUME WorkInv
  PROVE  /\ \A i \in IssuesAtOnce :
              \E r \in Indexed :
                \/ i = Issue("DELETED_ARTIFACT_PRESENT", r) /\ r \in Deleted /\ Stored(r)
                \/ i = Issue("ARTIFACT_MISSING", r) /\ r \notin Deleted /\ ~Stored(r)
         /\ \A r \in Indexed :
              /\ r \in Deleted /\ Stored(r) => Issue("DELETED_ARTIFACT_PRESENT", r) \in IssuesAtOnce
              /\ r \notin Deleted /\ ~Stored(r) => Issue("ARTIFACT_MISSING", r) \in IssuesAtOnce
<1>1. Retained \subseteq Indexed /\ Deleted \subseteq Indexed
  BY DEF Retained, Deleted, Indexed, WorkInv, IInv, RetentionOfRows, TombstonesOfRows
<1>2. Dangling(Indexed, Retained, Deleted) = {}
  BY <1>1 DEF Dangling
<1>3. IssuesAtOnce = UNION {RecordIssues(r, rows[r], Deleted) : r \in Indexed}
  BY <1>2 DEF IssuesAtOnce
<1>4. ASSUME NEW i \in IssuesAtOnce
      PROVE  \E r \in Indexed :
                \/ i = Issue("DELETED_ARTIFACT_PRESENT", r) /\ r \in Deleted /\ Stored(r)
                \/ i = Issue("ARTIFACT_MISSING", r) /\ r \notin Deleted /\ ~Stored(r)
  <2>1. PICK r \in Indexed : i \in RecordIssues(r, rows[r], Deleted)
    BY <1>3
  <2>. QED BY <2>1, IssuesOfRecord
<1>5. ASSUME NEW r \in Indexed
      PROVE  /\ r \in Deleted /\ Stored(r) =>
                  Issue("DELETED_ARTIFACT_PRESENT", r) \in IssuesAtOnce
             /\ r \notin Deleted /\ ~Stored(r) =>
                  Issue("ARTIFACT_MISSING", r) \in IssuesAtOnce
  <2>1. RecordIssues(r, rows[r], Deleted) \subseteq IssuesAtOnce
    BY <1>3
  <2>. QED BY <2>1, IssuesOfRecord
<1>. QED BY <1>4, <1>5

\* The same of the next state.
LEMMA PresentReported ==
  WorkInv => \A r \in Indexed : r \in Deleted /\ Stored(r) =>
               Issue("DELETED_ARTIFACT_PRESENT", r) \in IssuesAtOnce
BY IssuesOfWorkspace

LEMMA PresentReportedNext ==
  (WorkInv => \A r \in Indexed : r \in Deleted /\ Stored(r) =>
                Issue("DELETED_ARTIFACT_PRESENT", r) \in IssuesAtOnce)'
BY PresentReported, PTL

\* The records that a verification has selected.
Selection(x) == {r \in ReceiptIds : x.records[r] # Absent}

\* A request x for a verification that read the deletions, with what could be
\* found since it began.  A record that was deleted since was without its
\* payload before that, or with it afterwards.
VerifyOk(x, some, always) ==
  /\ IssuesAtOnce \subseteq some /\ always \subseteq IssuesAtOnce
  /\ x.todo \subseteq Selection(x) /\ x.retained \subseteq Indexed
  /\ x.deleted \subseteq Deleted
  /\ \A i \in always : i.id \in x.todo \/ i \in x.found
  /\ x.step \in {"retention", "deletions"} => x.todo = Selection(x) /\ x.found = {}
  /\ x.step \in {"read", "answered"} =>
       /\ \A i \in always : i.code = "DELETED_ARTIFACT_PRESENT" => i.id \in x.deleted
       /\ \A r \in (Selection(x) \intersect Deleted) \ x.deleted :
            \/ Issue("ARTIFACT_MISSING", r) \in some
            \/ Issue("DELETED_ARTIFACT_PRESENT", r) \in some
  /\ x.step = "answered" => x.todo = {}
  /\ \A i \in x.found :
       \/ i \in some
       \/ \E r \in Indexed \ Selection(x) :
            i = Issue("DANGLING_RETENTION", r) \/ i = Issue("DANGLING_DELETION", r)
       \/ \E r \in Selection(x) :
            i = Issue("ARTIFACT_MISSING", r) /\ Issue("DELETED_ARTIFACT_PRESENT", r) \in some

VerifyInv ==
  reader # NoReader /\ reader.kind = "verify" => VerifyOk(reader, passing, lasting)

\* While the workspace moves on.
LEMMA VerifyOkStays ==
  ASSUME WorkInv, WorkInv', [Next]_vars, NEW x, NEW some, NEW always,
         VerifyOk(x, some, always),
         \A r \in Selection(x) : rows[r] = x.records[r],
         NEW more, more = some \union IssuesAtOnce',
         NEW less, less = always \intersect IssuesAtOnce'
  PROVE  VerifyOk(x, more, less)'
<1>1. \A r \in ReceiptIds : rows[r] # Absent => rows'[r] = rows[r]
  BY RecordsStay DEF WorkInv
<1>2. \A r \in ReceiptIds : tombstones[r] # Absent => tombstones'[r] = tombstones[r]
  BY RecordsStay DEF WorkInv
<1>3. Indexed \subseteq Indexed' /\ Deleted \subseteq Deleted'
  BY <1>1, <1>2 DEF Indexed, Deleted
<1>4. Selection(x) \subseteq Indexed
  BY DEF Selection, Indexed
<1>5. ASSUME NEW r \in (Selection(x) \intersect Deleted') \ x.deleted,
             x.step \in {"read", "answered"}
      PROVE  \/ Issue("ARTIFACT_MISSING", r) \in more
             \/ Issue("DELETED_ARTIFACT_PRESENT", r) \in more
  <2>1. CASE r \in Deleted
    BY <1>5, <2>1 DEF VerifyOk
  <2>2. CASE r \notin Deleted /\ ~Stored(r)
    <3>1. Issue("ARTIFACT_MISSING", r) \in IssuesAtOnce
      BY <1>4, <1>5, <2>2, IssuesOfWorkspace
    <3>. QED BY <3>1 DEF VerifyOk
  <2>3. CASE r \notin Deleted /\ Stored(r)
    <3>1. r \in ReceiptIds /\ tombstones'[r] # tombstones[r] /\ r \in Indexed
      BY <1>4, <1>5, <2>3 DEF Deleted, Selection
    <3>2. artifacts' = artifacts
      BY <3>1, RecordedInTime
    <3>3. receipts[r] # Absent
      BY <3>1, IssuesOfRecord
    <3>4. receipts'[r] = receipts[r]
      BY <3>1, <3>3, RecordsStay DEF WorkInv
    <3>5. Stored(r)'
      BY <2>3, <3>2, <3>4 DEF Stored
    <3>6. Issue("DELETED_ARTIFACT_PRESENT", r) \in IssuesAtOnce'
      BY <1>3, <1>5, <3>1, <3>5, PresentReportedNext DEF Issue
    <3>. QED BY <3>6
  <2>. QED BY <2>1, <2>2, <2>3
<1>6. Selection(x)' = Selection(x)
  BY DEF Selection
<1>7. ASSUME NEW i \in x.found
      PROVE  \/ i \in more
             \/ \E r \in Indexed' \ Selection(x) :
                  i = Issue("DANGLING_RETENTION", r) \/ i = Issue("DANGLING_DELETION", r)
             \/ \E r \in Selection(x) :
                  /\ i = Issue("ARTIFACT_MISSING", r)
                  /\ Issue("DELETED_ARTIFACT_PRESENT", r) \in more
  BY <1>3, <1>7 DEF VerifyOk
<1>8. /\ IssuesAtOnce' \subseteq more /\ less \subseteq IssuesAtOnce'
      /\ less \subseteq always
  OBVIOUS
<1>. QED BY <1>3, <1>5, <1>6, <1>7, <1>8 DEF VerifyOk, Issue, Selection

\* While the request reads: what VerifyOk says of the workspace is the same.
LEMMA VerifyOkSame ==
  ASSUME UNCHANGED vars, NEW x, NEW some, NEW always, VerifyOk(x, some, always)
  PROVE  VerifyOk(x, some, always)'
<1>1. Indexed' = Indexed /\ Deleted' = Deleted /\ Retained' = Retained
  BY DEF vars, Indexed, Deleted, Retained
<1>2. IssuesAtOnce' = IssuesAtOnce
  BY <1>1 DEF IssuesAtOnce, vars, RecordIssues, Stored
<1>. QED BY <1>1, <1>2 DEF VerifyOk, Selection, Issue

LEMMA VerifyStep ==
  /\ WorkInv /\ WorkInv' /\ RequestInv /\ VerifyInv
  /\ [ReadersNext]_readingVars
  => VerifyInv'
<1> SUFFICES ASSUME WorkInv, WorkInv', RequestInv, VerifyInv, [ReadersNext]_readingVars,
                    reader' # NoReader, reader'.kind = "verify"
             PROVE  VerifyOk(reader, passing, lasting)'
  BY DEF VerifyInv
<1>1. CASE Meanwhile
  <2>1. /\ reader' = reader /\ reader # NoReader /\ reader.kind = "verify" /\ [Next]_vars
        /\ passing' = passing \union IssuesAtOnce'
        /\ lasting' = lasting \intersect IssuesAtOnce'
    BY <1>1 DEF Meanwhile
  <2>2. PICK x, some, always, more, less :
          /\ x = reader /\ some = passing /\ always = lasting
          /\ more = passing' /\ less = lasting'
    OBVIOUS
  <2>3. VerifyOk(x, some, always) /\ \A r \in Selection(x) : rows[r] = x.records[r]
    BY <2>1, <2>2 DEF VerifyInv, RequestInv, Selection
  <2>4. VerifyOk(x, more, less)'
    BY <2>1, <2>2, <2>3, VerifyOkStays
  <2>. QED BY <2>1, <2>2, <2>4 DEF VerifyOk
<1>2. SUFFICES ASSUME ~Meanwhile, UNCHANGED vars
               PROVE  VerifyOk(reader', passing', lasting')
  <2>1. CASE Meanwhile
    BY <1>1, <2>1
  <2>2. CASE ~Meanwhile
    <3>1. UNCHANGED vars
      BY <2>2, ReaderStep
    <3>2. VerifyOk(reader', passing', lasting')
      BY <1>2, <2>2, <3>1
    <3>3. PICK x, more, less : x = reader' /\ more = passing' /\ less = lasting'
      OBVIOUS
    <3>4. VerifyOk(x, more, less)'
      BY <3>1, <3>2, <3>3, VerifyOkSame
    <3>. QED BY <3>3, <3>4 DEF VerifyOk
  <2>. QED BY <2>1, <2>2
<1>3. CASE UNCHANGED readingVars
  <2>1. reader' = reader /\ passing' = passing /\ lasting' = lasting
    BY <1>3 DEF readingVars
  <2>. QED BY <2>1 DEF VerifyInv
<1>4. CASE BeginVerify
  <2>1. /\ reader'.step = "retention" /\ reader'.todo = Indexed /\ reader'.records = rows
        /\ reader'.retained = {} /\ reader'.deleted = {} /\ reader'.found = {}
        /\ passing' = IssuesAtOnce /\ lasting' = IssuesAtOnce
    BY <1>4, BeginEffect DEF BeginVerify
  <2>2. Selection(reader') = Indexed
    BY <2>1 DEF Selection, Indexed
  <2>3. \A i \in IssuesAtOnce : i.id \in Indexed
    BY IssuesOfWorkspace DEF Issue
  <2>. QED BY <2>1, <2>2, <2>3 DEF VerifyOk
<1>5. ASSUME SelectRetention \/ SelectDeletions \/ \E r \in ReceiptIds : VerifyRecord(r)
      PROVE  /\ reader # NoReader /\ reader.kind = "verify" /\ DOMAIN reader = Fields
             /\ VerifyOk(reader, passing, lasting)
             /\ \A r \in Selection(reader) : r \in Indexed /\ rows[r] = reader.records[r]
  BY <1>5 DEF SelectRetention, SelectDeletions, VerifyRecord, Reading, RequestInv, VerifyInv,
     Selection, Indexed
<1>6. CASE SelectRetention
  <2>1. /\ reader.step = "retention" /\ passing' = passing /\ lasting' = lasting
        /\ reader' = [reader EXCEPT !.step = "deletions", !.retained = Retained]
    BY <1>6 DEF SelectRetention, Reading, Go
  <2>2. /\ reader'.step = "deletions" /\ reader'.retained = Retained
        /\ reader'.todo = reader.todo /\ reader'.records = reader.records
        /\ reader'.deleted = reader.deleted /\ reader'.found = reader.found
    BY <1>5, <1>6, <2>1 DEF Fields
  <2>3. Retained \subseteq Indexed
    BY DEF Retained, Indexed, WorkInv, IInv, RetentionOfRows
  <2>4. Selection(reader') = Selection(reader)
    BY <2>2 DEF Selection
  <2>. QED BY <1>5, <1>6, <2>1, <2>2, <2>3, <2>4 DEF VerifyOk
<1>7. CASE SelectDeletions
  <2>1. /\ reader.step = "deletions" /\ passing' = passing /\ lasting' = lasting
        /\ reader' = [reader EXCEPT !.step = "read", !.deleted = Deleted,
                        !.found = Dangling(reader.todo, reader.retained, Deleted)]
    BY <1>7 DEF SelectDeletions, Reading, Go
  <2>2. /\ reader'.step = "read" /\ reader'.retained = reader.retained
        /\ reader'.todo = reader.todo /\ reader'.records = reader.records
        /\ reader'.deleted = Deleted
        /\ reader'.found = Dangling(reader.todo, reader.retained, Deleted)
    BY <1>5, <1>7, <2>1 DEF Fields
  <2>3. Selection(reader') = Selection(reader) /\ reader.todo = Selection(reader)
    BY <1>5, <1>7, <2>1, <2>2 DEF Selection, VerifyOk
  <2>4. Deleted \subseteq Indexed
    BY DEF Deleted, Indexed, WorkInv, TombstonesOfRows
  <2>5. \A i \in reader'.found :
          \E r \in Indexed \ Selection(reader) :
            i = Issue("DANGLING_RETENTION", r) \/ i = Issue("DANGLING_DELETION", r)
    BY <1>5, <1>7, <2>2, <2>3, <2>4 DEF VerifyOk, Dangling
  <2>6. \A i \in lasting : i.code = "DELETED_ARTIFACT_PRESENT" => i.id \in Deleted
    BY <1>5, <1>7, IssuesOfWorkspace DEF VerifyOk, Issue
  <2>7. \A i \in lasting : i.id \in reader.todo
    BY <1>5, <1>7, <2>1 DEF VerifyOk
  <2>. QED BY <1>5, <1>7, <2>1, <2>2, <2>3, <2>5, <2>6, <2>7 DEF VerifyOk
<1>8. ASSUME NEW r \in ReceiptIds, VerifyRecord(r)
      PROVE  VerifyOk(reader', passing', lasting')
  <2> DEFINE issues == RecordIssues(r, reader.records[r], reader.deleted)
  <2>1. reader.step = "read" /\ r \in reader.todo /\ Done(r, issues)
    BY <1>8 DEF VerifyRecord, Reading
  <2>2. /\ reader'.step = "read" /\ reader'.todo = reader.todo \ {r}
        /\ reader'.records = reader.records /\ reader'.retained = reader.retained
        /\ reader'.deleted = reader.deleted /\ reader'.found = reader.found \union issues
        /\ passing' = passing /\ lasting' = lasting
    BY <1>5, <1>8, <2>1, DoneEffect
  <2>3. r \in Indexed /\ r \in Selection(reader) /\ rows[r] = reader.records[r]
    BY <1>5, <1>8, <2>1 DEF VerifyOk
  <2>4. issues = IF r \in reader.deleted /\ Stored(r)
                 THEN {Issue("DELETED_ARTIFACT_PRESENT", r)}
                 ELSE IF r \notin reader.deleted /\ ~Stored(r)
                 THEN {Issue("ARTIFACT_MISSING", r)} ELSE {}
    BY <2>3, IssuesOfRecord
  <2> HIDE DEF issues
  <2>5. ASSUME NEW i \in issues
        PROVE  \/ i \in passing
               \/ i = Issue("ARTIFACT_MISSING", r) /\ Issue("DELETED_ARTIFACT_PRESENT", r) \in passing
    <3>1. CASE r \in reader.deleted /\ Stored(r)
      <4>1. r \in Deleted
        BY <1>5, <1>8, <3>1 DEF VerifyOk
      <4>2. Issue("DELETED_ARTIFACT_PRESENT", r) \in IssuesAtOnce
        BY <2>3, <3>1, <4>1, IssuesOfWorkspace
      <4>. QED BY <1>5, <1>8, <2>4, <2>5, <3>1, <4>2 DEF VerifyOk
    <3>2. CASE r \notin reader.deleted /\ ~Stored(r) /\ r \notin Deleted
      <4>1. Issue("ARTIFACT_MISSING", r) \in IssuesAtOnce
        BY <2>3, <3>2, IssuesOfWorkspace
      <4>. QED BY <1>5, <1>8, <2>4, <2>5, <3>2, <4>1 DEF VerifyOk
    <3>3. CASE r \notin reader.deleted /\ ~Stored(r) /\ r \in Deleted
      BY <1>5, <1>8, <2>1, <2>3, <2>4, <2>5, <3>3 DEF VerifyOk
    <3>. QED BY <2>4, <2>5, <3>1, <3>2, <3>3
  <2>6. ASSUME NEW i \in lasting, i.id = r
        PROVE  i \in issues
    <3>1. i \in IssuesAtOnce
      BY <1>5, <1>8 DEF VerifyOk
    <3>2. PICK q \in Indexed :
            \/ i = Issue("DELETED_ARTIFACT_PRESENT", q) /\ q \in Deleted /\ Stored(q)
            \/ i = Issue("ARTIFACT_MISSING", q) /\ q \notin Deleted /\ ~Stored(q)
      BY <3>1, IssuesOfWorkspace
    <3>3. q = r
      BY <2>6, <3>2 DEF Issue
    <3>4. CASE i = Issue("DELETED_ARTIFACT_PRESENT", r) /\ Stored(r)
      <4>1. i.code = "DELETED_ARTIFACT_PRESENT"
        BY <3>4 DEF Issue
      <4>2. r \in reader.deleted
        BY <1>5, <1>8, <2>1, <2>6, <4>1 DEF VerifyOk
      <4>. QED BY <2>4, <3>4, <4>2
    <3>5. CASE i = Issue("ARTIFACT_MISSING", r) /\ r \notin Deleted /\ ~Stored(r)
      <4>1. r \notin reader.deleted
        BY <1>5, <1>8, <3>5 DEF VerifyOk
      <4>. QED BY <2>4, <3>5, <4>1
    <3>. QED BY <3>2, <3>3, <3>4, <3>5
  <2>7. Selection(reader') = Selection(reader)
    BY <2>2 DEF Selection
  <2>8. \A i \in reader'.found :
          \/ i \in passing
          \/ \E q \in Indexed \ Selection(reader) :
               i = Issue("DANGLING_RETENTION", q) \/ i = Issue("DANGLING_DELETION", q)
          \/ \E q \in Selection(reader) :
               /\ i = Issue("ARTIFACT_MISSING", q)
               /\ Issue("DELETED_ARTIFACT_PRESENT", q) \in passing
    BY <1>5, <1>8, <2>2, <2>3, <2>5 DEF VerifyOk
  <2>9. \A i \in lasting : i.id \in reader'.todo \/ i \in reader'.found
    <3>1. \A i \in lasting : i.id \in reader.todo \/ i \in reader.found
      BY <1>5, <1>8 DEF VerifyOk
    <3>. QED BY <2>2, <2>6, <3>1
  <2>. QED BY <1>5, <1>8, <2>1, <2>2, <2>7, <2>8, <2>9 DEF VerifyOk
<1>9. CASE Answer
  <2>1. /\ reader # NoReader /\ reader.step = "read" /\ reader.todo = {}
        /\ reader'.kind = reader.kind /\ reader'.step = "answered"
        /\ reader'.todo = reader.todo /\ reader'.records = reader.records
        /\ reader'.retained = reader.retained /\ reader'.deleted = reader.deleted
        /\ reader'.found = reader.found /\ passing' = passing /\ lasting' = lasting
    BY <1>9, AnswerEffect DEF OnlyStep
  <2>2. Selection(reader') = Selection(reader)
    BY <2>1 DEF Selection
  <2>3. VerifyOk(reader, passing, lasting)
    BY <2>1 DEF VerifyInv
  <2>. QED BY <2>1, <2>2, <2>3 DEF VerifyOk
<1>. QED BY <1>2, <1>3, <1>4, <1>6, <1>7, <1>8, <1>9, StepsByKind

-----------------------------------------------------------------------------
(* What readers are promised.                                              *)

ReadingInv ==
  /\ WorkInv /\ RequestInv /\ CatalogInv /\ QueryInv /\ SweepInv
  /\ TraceInv /\ GovernanceInv /\ VerifyInv

LEMMA ReadingInvariance == ReadersSpec => []ReadingInv
<1>1. Init /\ ReaderInit => WorkInv
  BY InitIInv DEF Init, WorkInv, TombstonesOfRows, PayloadsAccounted
<1>2. ReaderInit => /\ RequestInv /\ CatalogInv /\ QueryInv /\ SweepInv
                    /\ TraceInv /\ GovernanceInv /\ VerifyInv
  BY DEF ReaderInit, RequestInv, CatalogInv, QueryInv, SweepInv, TraceInv, GovernanceInv,
     VerifyInv
<1>3. WorkInv /\ [ReadersNext]_readingVars => WorkInv'
  BY WorkStep
<1>4. ReadingInv /\ [ReadersNext]_readingVars => ReadingInv'
  BY <1>3, RequestStep, CatalogStep, QueryStep, SweepStep, TraceStep, GovernanceStep,
     VerifyStep DEF ReadingInv
<1>5. Init /\ ReaderInit => ReadingInv
  BY <1>1, <1>2 DEF ReadingInv
<1>. QED BY <1>4, <1>5, PTL DEF ReadersSpec

\* A verification takes no lock and no snapshot, and yet what it reports was so
\* at an instant of it, or is of a record that came in since or was deleted
\* twice; and what was so all along is reported.
THEOREM VerificationsHold == ReadersSpec => []VerificationSound
<1>1. ReadingInv => VerificationSound
  <2> SUFFICES ASSUME ReadingInv, Answered("verify")
               PROVE  /\ reader.found \subseteq passing \union IndexedSince \union DeletedAgain
                      /\ lasting \subseteq reader.found
    BY DEF VerificationSound
  <2>1. /\ reader # NoReader /\ reader.step = "answered"
        /\ VerifyOk(reader, passing, lasting)
    BY DEF Answered, Reading, ReadingInv, VerifyInv
  <2>2. lasting \subseteq reader.found
    BY <2>1 DEF VerifyOk
  <2>3. ASSUME NEW r \in Indexed \ Selection(reader)
        PROVE  /\ Issue("DANGLING_RETENTION", r) \in IndexedSince
               /\ Issue("DANGLING_DELETION", r) \in IndexedSince
    BY DEF IndexedSince, Dangling, Selection
  <2>4. ASSUME NEW r, Issue("DELETED_ARTIFACT_PRESENT", r) \in passing
        PROVE  Issue("ARTIFACT_MISSING", r) \in DeletedAgain
    BY <2>4 DEF DeletedAgain, Issue
  <2>. QED BY <2>1, <2>2, <2>3, <2>4 DEF VerifyOk
<1>. QED BY <1>1, ReadingInvariance, PTL

\* A request fails only for a payload that was deleted, a query never does, a
\* trace shows every source that was there when it was asked for, and no
\* deletion is taken for one before its deadline.
THEOREM WorkspacePagesHold == ReadersSpec => []WorkspacePagesSound
<1>1. ReadingInv => WorkspacePagesSound
  <2> SUFFICES ASSUME ReadingInv PROVE WorkspacePagesSound
    OBVIOUS
  <2>1. /\ Refused("catalog") =>
             \E r \in reader.todo : IsReport(r) /\ Removed(receipts[r].artifact)
        /\ Refused("sweep") => Removed(reader.subject)
        /\ ~Refused("query")
    BY DEF ReadingInv, Refused, Reading, CatalogInv, SweepInv, QueryInv
  <2>2. /\ Refused("trace") => Removed(receipts[reader.subject].artifact)
        /\ Answered("trace") =>
             /\ \A row \in reader.found :
                  row.status = "unavailable" => Removed(receipts[row.id].artifact)
             /\ \A r \in Sources \intersect reader.known :
                  IsReport(r) \/ \E row \in reader.found : row.id = r
    BY DEF ReadingInv, Refused, Answered, Reading, TraceInv, TraceOk, Taken
  <2>3. Reading("governance", "predates") => reader.subject \in reader.deleted \/ lasting = {}
    BY DEF ReadingInv, Reading, GovernanceInv
  <2>. QED BY <2>1, <2>2, <2>3 DEF WorkspacePagesSound
<1>. QED BY <1>1, ReadingInvariance, PTL
=============================================================================
