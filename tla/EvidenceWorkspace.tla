-------------------------- MODULE EvidenceWorkspace --------------------------
(***************************************************************************)
(* The durable evidence workspace: a content-addressed artifact store, a   *)
(* store of JSON receipts, and a SQLite index with runs, retention rows    *)
(* and deletion tombstones, all under one root.                            *)
(*                                                                         *)
(* The processes that share the root are Clients. StateWakeWorkspace       *)
(* operations hold the workspace operation lock from their first step to   *)
(* their last. LocalEvidenceIngestionAdapter opened directly on the root   *)
(* (the SDK client, the first-party adapters, the human-approval store)    *)
(* writes artifacts and receipts without that lock and without the index.  *)
(* Every file operation that another process can observe is a step of its  *)
(* own, and a process may stop between any two of them.                    *)
(*                                                                         *)
(* Files and rows do not rot here: hash mismatches found by get() or       *)
(* verify() are outside the model. Temporary files left by a stopped       *)
(* process are invisible to every reader and are not kept in the state.    *)
(***************************************************************************)
EXTENDS Integers, FiniteSets

CONSTANTS
  Clients,           \* processes that use the workspace root
  Deliveries,        \* evidence a producer may deliver, see below
  DirectDeliveries,  \* those that may arrive through the unlocked adapter
  Times,             \* instants used by retention deadlines and deletions
  NoClient,          \* nobody holds the operation lock
  NoRun,             \* the delivery names no run
  NoLimit,           \* the policy has no max_retention_days
  Absent,            \* no file, no row
  NoJob,             \* the client is between operations
  MaxCrashes,        \* bound: processes that stop in the middle of a call
  MaxSweeps          \* bound: calls of recover()

\* A delivery is a call of ingest_bytes: the receipt identity computed from
\* it, the payload, the instant captured, the run and its producer authority
\* (producer_id, producer_type and producer_version together), and the
\* sensitivity recorded with the row.
ReceiptIds == {d.receipt : d \in Deliveries}
Artifacts == {d.artifact : d \in Deliveries}
Captures == {d.captured : d \in Deliveries}
Producers == {d.producer : d \in Deliveries}
Sensitivities == {d.sensitivity : d \in Deliveries}
RunIds == {d.run : d \in Deliveries} \ {NoRun}

ReceiptOf(d) == [artifact |-> d.artifact, captured |-> d.captured,
                 run |-> d.run, producer |-> d.producer]
RowOf(d) == [receipt |-> ReceiptOf(d), sensitivity |-> d.sensitivity]

Contents == {ReceiptOf(d) : d \in Deliveries}
Rows == [receipt : Contents, sensitivity : Sensitivities]
Retentions == [until : Times \union {NoLimit}, hold : BOOLEAN]
Deletions == [receipt : ReceiptIds, at : Times]

ASSUME ConstantsAssumption ==
  /\ DirectDeliveries \subseteq Deliveries
  /\ Times \subseteq Int
  /\ NoLimit \notin Times
  /\ NoClient \notin Clients
  /\ Absent \notin Contents
  /\ Absent \notin Rows
  /\ Absent \notin Retentions
  /\ Absent \notin Times
  /\ Absent \notin Producers
  /\ MaxCrashes \in Nat
  /\ MaxSweeps \in Nat

VARIABLES
  artifacts,     \* payload files present under artifacts/
  receipts,      \* receipts/<id>.json, or Absent
  rows,          \* the records table
  runs,          \* the runs table: the producer authority of each run
  retention,     \* the retention table
  tombstones,    \* the deletions table: deleted_at of each deleted record
  unrecorded,    \* records whose deletion removed the payload and ended there
  lock,          \* holder of locks/workspace.operations.lock
  pc,            \* the step each client is at
  job,           \* the delivery or the deletion it works on
  temps,         \* clients whose current temporary file is on disk
  crashes,       \* processes stopped so far
  sweeps         \* recover() calls so far

files == <<artifacts, receipts>>
database == <<rows, runs, retention, tombstones>>
accounts == <<unrecorded, crashes, sweeps>>
vars == <<artifacts, receipts, rows, runs, retention, tombstones,
          unrecorded, lock, pc, job, temps, crashes, sweeps>>

IngestSteps == {"put_artifact", "link_artifact", "check_artifact",
                "put_receipt", "link_receipt", "index"}
DeleteSteps == {"unlink", "tombstone"}

TypeOK ==
  /\ artifacts \in SUBSET Artifacts
  /\ receipts \in [ReceiptIds -> Contents \union {Absent}]
  /\ rows \in [ReceiptIds -> Rows \union {Absent}]
  /\ runs \in [RunIds -> Producers \union {Absent}]
  /\ retention \in [ReceiptIds -> Retentions \union {Absent}]
  /\ tombstones \in [ReceiptIds -> Times \union {Absent}]
  /\ unrecorded \in SUBSET ReceiptIds
  /\ lock \in Clients \union {NoClient}
  /\ pc \in [Clients -> {"idle"} \union IngestSteps \union DeleteSteps]
  /\ job \in [Clients -> Deliveries \union Deletions \union {NoJob}]
  /\ temps \in SUBSET Clients
  /\ crashes \in 0..MaxCrashes
  /\ sweeps \in 0..MaxSweeps

Init ==
  /\ artifacts = {}
  /\ receipts = [r \in ReceiptIds |-> Absent]
  /\ rows = [r \in ReceiptIds |-> Absent]
  /\ runs = [n \in RunIds |-> Absent]
  /\ retention = [r \in ReceiptIds |-> Absent]
  /\ tombstones = [r \in ReceiptIds |-> Absent]
  /\ unrecorded = {}
  /\ lock = NoClient
  /\ pc = [c \in Clients |-> "idle"]
  /\ job = [c \in Clients |-> NoJob]
  /\ temps = {}
  /\ crashes = 0
  /\ sweeps = 0

-----------------------------------------------------------------------------
(* Steps shared by the operations.                                         *)

\* Mutation: the lock file is left locked when the call ends.
LeaveLocked(c) == UNCHANGED lock

\* Leaving `with WorkspaceOperationLock(...)`, by return or by exception.
Release(c) == lock' = IF lock = c THEN NoClient ELSE lock

\* A call starts; a locked one acquires the operation lock first.
Start(c, step, work) ==
  /\ pc[c] = "idle"
  /\ pc' = [pc EXCEPT ![c] = step]
  /\ job' = [job EXCEPT ![c] = work]

Goto(c, step) ==
  /\ pc' = [pc EXCEPT ![c] = step]
  /\ UNCHANGED <<job, lock>>

\* A call returns or raises: its temporary is unlinked, its lock released.
Finish(c) ==
  /\ pc' = [pc EXCEPT ![c] = "idle"]
  /\ job' = [job EXCEPT ![c] = NoJob]
  /\ temps' = temps \ {c}
  /\ Release(c)

-----------------------------------------------------------------------------
(* Ingestion: artifact, then receipt, then index row.                      *)

\* StateWakeWorkspace.ingest: under the operation lock.
BeginIngest(c, d) ==
  /\ lock = NoClient
  /\ Start(c, "put_artifact", d)
  /\ lock' = c
  /\ UNCHANGED <<files, database, temps, accounts>>

\* LocalEvidenceIngestionAdapter.ingest_bytes called directly on the root.
BeginDirectIngest(c, d) ==
  /\ Start(c, "put_artifact", d)
  /\ UNCHANGED <<files, database, lock, temps, accounts>>

\* put(): the content address exists, so nothing is written.
FindArtifact(c) ==
  /\ pc[c] = "put_artifact"
  /\ job[c].artifact \in artifacts
  /\ Goto(c, "check_artifact")
  /\ UNCHANGED <<files, database, temps, accounts>>

\* put(): the payload goes to a temporary name first.
StageArtifact(c) ==
  /\ pc[c] = "put_artifact"
  /\ job[c].artifact \notin artifacts
  /\ temps' = temps \union {c}
  /\ Goto(c, "link_artifact")
  /\ UNCHANGED <<files, database, accounts>>

\* put(): os.link publishes it; FileExistsError is as good as success.
LinkArtifact(c) ==
  /\ pc[c] = "link_artifact"
  /\ c \in temps
  /\ artifacts' = artifacts \union {job[c].artifact}
  /\ temps' = temps \ {c}
  /\ Goto(c, "check_artifact")
  /\ UNCHANGED <<receipts, database, accounts>>

\* _assert_existing_artifact reads the payload back before the receipt.
CheckArtifact(c) ==
  /\ pc[c] = "check_artifact"
  /\ job[c].artifact \in artifacts
  /\ Goto(c, "put_receipt")
  /\ UNCHANGED <<files, database, temps, accounts>>

\* What follows receipt_store.put: the workspace indexes, the bare adapter
\* returns the receipt.
AfterReceipt(c) ==
  IF lock = c
  THEN /\ pc' = [pc EXCEPT ![c] = "index"]
       /\ temps' = temps \ {c}
       /\ UNCHANGED <<job, lock>>
  ELSE Finish(c)

\* Mutation: any existing receipt of that identity counts as success.
FindReceiptOfAnyContent(c) ==
  /\ pc[c] = "put_receipt"
  /\ receipts[job[c].receipt] # Absent
  /\ AfterReceipt(c)
  /\ UNCHANGED <<files, database, accounts>>

\* Mutation: an equal receipt is refused like a conflicting one.
FindReceiptRefused(c) ==
  /\ pc[c] = "put_receipt"
  /\ receipts[job[c].receipt] = ReceiptOf(job[c])
  /\ Finish(c)
  /\ UNCHANGED <<files, database, accounts>>

\* JsonEvidenceReceiptStore.put: an equal receipt is already there.
FindReceipt(c) ==
  /\ pc[c] = "put_receipt"
  /\ receipts[job[c].receipt] = ReceiptOf(job[c])
  /\ AfterReceipt(c)
  /\ UNCHANGED <<files, database, accounts>>

StageReceipt(c) ==
  /\ pc[c] = "put_receipt"
  /\ receipts[job[c].receipt] = Absent
  /\ temps' = temps \union {c}
  /\ Goto(c, "link_receipt")
  /\ UNCHANGED <<files, database, accounts>>

\* Mutation: os.replace instead of os.link.
LinkReceiptReplacing(c) ==
  /\ pc[c] = "link_receipt"
  /\ c \in temps
  /\ receipts' = [receipts EXCEPT ![job[c].receipt] = ReceiptOf(job[c])]
  /\ AfterReceipt(c)
  /\ UNCHANGED <<artifacts, database, accounts>>

\* os.link publishes the receipt unless another writer was first, and then
\* only an equal receipt counts as success.
LinkReceipt(c) ==
  /\ pc[c] = "link_receipt"
  /\ c \in temps
  /\ receipts[job[c].receipt] \in {Absent, ReceiptOf(job[c])}
  /\ receipts' = [receipts EXCEPT ![job[c].receipt] = ReceiptOf(job[c])]
  /\ AfterReceipt(c)
  /\ UNCHANGED <<artifacts, database, accounts>>

\* index_record, one transaction: the row is new or equal, and the run is
\* new or belongs to the same producer authority.
RowAdmissible(d) == rows[d.receipt] \in {Absent, RowOf(d)}

\* Mutation: the authority of an existing run is not compared.
RunNeverRefused(d) == d.run # NoRun => runs[d.run] \in Producers \union {Absent}

RunAdmissible(d) == d.run # NoRun => runs[d.run] \in {Absent, d.producer}

IndexRecord(c) ==
  /\ pc[c] = "index"
  /\ RowAdmissible(job[c])
  /\ RunAdmissible(job[c])
  /\ rows' = [rows EXCEPT ![job[c].receipt] = RowOf(job[c])]
  /\ runs' = IF job[c].run = NoRun THEN runs
             ELSE [runs EXCEPT ![job[c].run] = job[c].producer]
  /\ Finish(c)
  /\ UNCHANGED <<files, retention, tombstones, accounts>>

\* The exceptions that end an ingestion: the temporary was swept before it
\* was linked, the payload was deleted before it was read back, the receipt
\* identity holds other content, or the index transaction rolled back.
IngestFails(c) ==
  /\ \/ pc[c] \in {"link_artifact", "link_receipt"} /\ c \notin temps
     \/ pc[c] = "check_artifact" /\ job[c].artifact \notin artifacts
     \/ /\ pc[c] = "put_receipt" \/ (pc[c] = "link_receipt" /\ c \in temps)
        /\ receipts[job[c].receipt] \notin {Absent, ReceiptOf(job[c])}
     \/ /\ pc[c] = "index"
        /\ ~RowAdmissible(job[c]) \/ ~RunAdmissible(job[c])
  /\ Finish(c)
  /\ UNCHANGED <<files, database, accounts>>

-----------------------------------------------------------------------------
(* Retention and deletion.                                                 *)

Expired(requirement, t) ==
  requirement.until # NoLimit /\ t >= requirement.until

\* Mutation: the hold is not consulted.
DeletionAllowedOnceExpired(requirement, t) == Expired(requirement, t)

DeletionAllowed(requirement, t) ==
  Expired(requirement, t) /\ ~requirement.hold

\* Mutation: the requirement is changed without the operation lock.
ApplyRetentionUnlocked(r, until, hold) ==
  /\ rows[r] # Absent
  /\ retention' = [retention EXCEPT ![r] = [until |-> until, hold |-> hold]]
  /\ UNCHANGED <<files, rows, runs, tombstones, lock, pc, job, temps, accounts>>

\* apply_retention: one upsert of an indexed record's requirement, made
\* under the operation lock. legal_hold is whatever this call says.
ApplyRetention(r, until, hold) ==
  /\ lock = NoClient
  /\ rows[r] # Absent
  /\ retention' = [retention EXCEPT ![r] = [until |-> until, hold |-> hold]]
  /\ UNCHANGED <<files, rows, runs, tombstones, lock, pc, job, temps, accounts>>

\* delete_expired_record up to the unlink. Refused calls change nothing.
BeginDelete(c, r, t) ==
  /\ lock = NoClient
  /\ rows[r] # Absent
  /\ retention[r] # Absent
  /\ DeletionAllowed(retention[r], t)
  /\ rows[r].receipt.artifact \in artifacts
  /\ Start(c, "unlink", [receipt |-> r, at |-> t])
  /\ lock' = c
  /\ UNCHANGED <<files, database, temps, accounts>>

\* Mutation: the call ends once the payload is gone.
UnlinkWithoutHistory(c) ==
  /\ pc[c] = "unlink"
  /\ artifacts' = artifacts \ {rows[job[c].receipt].receipt.artifact}
  /\ Finish(c)
  /\ UNCHANGED <<receipts, database, accounts>>

UnlinkArtifact(c) ==
  /\ pc[c] = "unlink"
  /\ artifacts' = artifacts \ {rows[job[c].receipt].receipt.artifact}
  /\ Goto(c, "tombstone")
  /\ UNCHANGED <<receipts, database, temps, accounts>>

\* With the payload gone, the tombstone is built and inserted. Either may
\* raise: the caller's reason is blank, the database refuses the write, or
\* the record has its tombstone already (the primary key).
RecordDeletion(c) ==
  /\ pc[c] = "tombstone"
  /\ \/ /\ tombstones[job[c].receipt] = Absent
        /\ tombstones' = [tombstones EXCEPT ![job[c].receipt] = job[c].at]
        /\ UNCHANGED unrecorded
     \/ /\ unrecorded' = unrecorded \union {job[c].receipt}
        /\ UNCHANGED tombstones
  /\ Finish(c)
  /\ UNCHANGED <<files, rows, runs, retention, crashes, sweeps>>

-----------------------------------------------------------------------------
(* Recovery and failure.                                                   *)

\* recover(), called by open() under the lock and by a host at any time:
\* every *.tmp under artifacts/ and receipts/ is unlinked, whoever wrote it.
Recover ==
  /\ sweeps < MaxSweeps
  /\ temps' = {}
  /\ sweeps' = sweeps + 1
  /\ UNCHANGED <<files, database, unrecorded, lock, pc, job, crashes>>

\* A process stops in the middle of a call; the operating system releases
\* its file lock, nothing else is undone. An error of the operating system or
\* of the database that ends the call between two steps leaves the same.
Crash(c) ==
  /\ crashes < MaxCrashes
  /\ pc[c] # "idle"
  /\ crashes' = crashes + 1
  /\ unrecorded' = IF pc[c] = "tombstone" THEN unrecorded \union {job[c].receipt}
                   ELSE unrecorded
  /\ Finish(c)
  /\ UNCHANGED <<files, database, sweeps>>

-----------------------------------------------------------------------------
\* The steps of a call in progress.
Advance(c) ==
  \/ FindArtifact(c) \/ StageArtifact(c) \/ LinkArtifact(c)
  \/ CheckArtifact(c)
  \/ FindReceipt(c) \/ StageReceipt(c) \/ LinkReceipt(c)
  \/ IndexRecord(c) \/ IngestFails(c)
  \/ UnlinkArtifact(c) \/ RecordDeletion(c)

Next ==
  \/ \E c \in Clients :
       \/ \E d \in Deliveries : BeginIngest(c, d)
       \/ \E d \in DirectDeliveries : BeginDirectIngest(c, d)
       \/ \E r \in ReceiptIds, t \in Times : BeginDelete(c, r, t)
       \/ Advance(c)
       \/ Crash(c)
  \/ \E r \in ReceiptIds, until \in Times \union {NoLimit}, hold \in BOOLEAN :
       ApplyRetention(r, until, hold)
  \/ Recover

Spec == Init /\ [][Next]_vars

\* A running process executes its call to the end, and a producer that was
\* not answered delivers again: its ingest is tried until the lock is free.
Fairness ==
  /\ \A c \in Clients : WF_vars(Advance(c))
  /\ \A d \in Deliveries : SF_vars(\E c \in Clients : BeginIngest(c, d))

FairSpec == Spec /\ Fairness
-----------------------------------------------------------------------------
(* Properties.                                                             *)

\* The index never runs ahead of the evidence it projects: every row has its
\* durable receipt and repeats it, so hydrating a query result (_hydrate)
\* and the verifier's receipt comparison never fail, whatever is interleaved
\* and wherever a process stopped.
RowsMatchReceipts ==
  \A r \in ReceiptIds : rows[r] # Absent => receipts[r] = rows[r].receipt

\* A run belongs to one producer authority: every indexed record of a run
\* names the authority the runs table holds for it.
RunsHaveOneProducer ==
  \A r \in ReceiptIds :
    rows[r] # Absent /\ rows[r].receipt.run # NoRun
      => runs[rows[r].receipt.run] = rows[r].receipt.producer

\* A legal hold prevents deletion: no step removes the payload of a record
\* that is under hold when the step is taken.
Held(r) == retention[r] # Absent /\ retention[r].hold
HeldEvidenceKept ==
  [][\A r \in ReceiptIds :
       /\ Held(r)
       /\ rows[r].receipt.artifact \in artifacts
       => rows[r].receipt.artifact \in artifacts']_vars

\* A payload leaves the store only for an indexed record with that content
\* whose requirement, as it stands when the file is unlinked, has expired at
\* the deletion's instant and is not held: the decision taken at the start
\* of delete_expired_record is still right when it is carried out.
DeletionFollowsPolicy ==
  [][\A a \in artifacts \ artifacts' :
       \E c \in Clients, r \in ReceiptIds, t \in Times :
         /\ job[c] = [receipt |-> r, at |-> t]
         /\ rows[r] # Absent
         /\ rows[r].receipt.artifact = a
         /\ retention[r] # Absent
         /\ DeletionAllowed(retention[r], t)]_vars

\* Deletion keeps payload-free history: the payload of an indexed record is
\* missing only if a record with that content has its tombstone, or the
\* deletion that will write it is under way.
DeletionRecorded(r) ==
  \/ tombstones[r] # Absent
  \/ \E c \in Clients : pc[c] = "tombstone" /\ job[c].receipt = r
PayloadAccountedFor ==
  \A r \in ReceiptIds :
    rows[r] # Absent /\ rows[r].receipt.artifact \notin artifacts
      => \E other \in ReceiptIds :
           /\ rows[other] # Absent
           /\ rows[other].receipt.artifact = rows[r].receipt.artifact
           /\ DeletionRecorded(other)

\* The same, but for deletions that removed the payload and then raised, or
\* whose process stopped: no other call, and no interleaving, loses a payload.
PayloadAccountedUnlessInterrupted ==
  \A r \in ReceiptIds :
    rows[r] # Absent /\ rows[r].receipt.artifact \notin artifacts
      => \E other \in ReceiptIds :
           /\ rows[other] # Absent
           /\ rows[other].receipt.artifact = rows[r].receipt.artifact
           /\ DeletionRecorded(other) \/ other \in unrecorded

\* "artifact remains present despite a deletion tombstone" is an error of
\* the verifier: a deleted record's payload is not in the store.
DeletedStaysDeleted ==
  \A r \in ReceiptIds :
    tombstones[r] # Absent => rows[r].receipt.artifact \notin artifacts

\* The operation lock never stays with one call forever.
LockReleased == \A c \in Clients : (lock = c) ~> (lock # c)

\* An ingestion that stopped after its receipt became durable is completed
\* by redelivery: the record gets its row, unless its run belongs to another
\* producer authority.
RedeliveryCompletesIngest ==
  \A d \in Deliveries :
    (receipts[d.receipt] = ReceiptOf(d))
      ~> (rows[d.receipt] # Absent \/ ~RunAdmissible(d))

\* The workspace implements the evidence ledger: identities are bound once,
\* rows project admitted content, tombstones are written once.
Ledger == INSTANCE EvidenceLedger WITH Instants <- Times
LedgerSpec == Ledger!Spec
=============================================================================
