--------------------------- MODULE WorkspaceReaders ---------------------------
(***************************************************************************)
(* Readers of the evidence workspace, which take no lock: the claim        *)
(* catalog, the evidence trace and the data governance page of the read    *)
(* interface, a query of the index, the verification of the workspace, and *)
(* the sweep over its payloads.  Each reads one file or one table after    *)
(* the other, while evidence is ingested, indexed and deleted.  A listing  *)
(* is read in the order of its digests, which is as good as any.           *)
(***************************************************************************)
EXTENDS EvidenceWorkspace

CONSTANTS
  Reports,       \* the artifacts that are verification reports
  Sources,       \* receipt identities that reports name as their sources
  MaxReceipts,   \* max_claim_catalog_receipts, max_evidence_receipts
  NoReader

VARIABLES
  reader,        \* the request
  passing,       \* what a verification at once would find in some state of it
  lasting        \* what it would find in every state of it, or the retention
                 \* row that a governance page is about, if it never changed

readingVars == <<vars, reader, passing, lasting>>

ReaderInit ==
  /\ reader = NoReader
  /\ passing = {}
  /\ lasting = {}

\* Receipts, rows of the index, retention rows and tombstones.
Listed == {r \in ReceiptIds : receipts[r] # Absent}
Indexed == {r \in ReceiptIds : rows[r] # Absent}
Retained == {r \in ReceiptIds : retention[r] # Absent}
Deleted == {r \in ReceiptIds : tombstones[r] # Absent}

IsReport(r) == receipts[r] # Absent /\ receipts[r].artifact \in Reports
Stored(r) == receipts[r].artifact \in artifacts

-----------------------------------------------------------------------------
(* What a verification says of records, deletions and files.               *)

Issue(code, r) == [code |-> code, id |-> r]

\* _verify_reference_consistency
Dangling(records, retained, deleted) ==
  {Issue("DANGLING_RETENTION", r) : r \in retained \ records}
  \union {Issue("DANGLING_DELETION", r) : r \in deleted \ records}

\* _verify_records
RecordIssues(r, row, deleted) ==
  CASE receipts[r] = Absent -> {Issue("RECEIPT_INVALID", r)}
    [] receipts[r] # row.receipt -> {Issue("RECEIPT_REFERENCE_MISMATCH", r)}
    [] r \in deleted /\ Stored(r) -> {Issue("DELETED_ARTIFACT_PRESENT", r)}
    [] r \notin deleted /\ ~Stored(r) -> {Issue("ARTIFACT_MISSING", r)}
    [] OTHER -> {}

IssuesAtOnce ==
  Dangling(Indexed, Retained, Deleted)
  \union UNION {RecordIssues(r, rows[r], Deleted) : r \in Indexed}

-----------------------------------------------------------------------------
(* Steps that the requests share.                                          *)

Reading(kind, step) == reader # NoReader /\ reader.kind = kind /\ reader.step = step
Answered(kind) == Reading(kind, "answered")
Refused(kind) == Reading(kind, "refused")

\* `known` is for the properties: the receipts that were there at first, and so
\* are the tombstones a governance page keeps.
Begin(kind, step, subject, todo) ==
  /\ reader = NoReader
  /\ reader' = [kind |-> kind, step |-> step, subject |-> subject, todo |-> todo,
                known |-> Listed, records |-> rows, retained |-> {},
                deleted |-> IF kind = "governance" THEN Deleted ELSE {}, found |-> {}]
  /\ passing' = IF kind = "verify" THEN IssuesAtOnce ELSE {}
  /\ lasting' = IF kind = "governance" THEN {retention[subject]} ELSE passing'
  /\ UNCHANGED vars

Go(changed) ==
  /\ reader' = changed
  /\ UNCHANGED <<vars, passing, lasting>>

Refuse == Go([reader EXCEPT !.step = "refused"])

\* r is done with, and this is what was found of it.
Done(r, found) ==
  Go([reader EXCEPT !.step = "read", !.todo = @ \ {r}, !.found = @ \union found])

\* Everything has been read.
Answer ==
  /\ reader # NoReader
  /\ reader.step = "read"
  /\ reader.todo = {}
  /\ Go([reader EXCEPT !.step = "answered"])

Leave ==
  /\ reader # NoReader
  /\ reader.step \in {"answered", "refused", "too_large", "predates"}
  /\ reader' = NoReader
  /\ passing' = {}
  /\ lasting' = {}
  /\ UNCHANGED vars

-----------------------------------------------------------------------------
(* The claim catalog, and the overview: every report, with its payload.    *)

BeginCatalog ==
  Begin("catalog", IF Cardinality(Listed) > MaxReceipts THEN "too_large" ELSE "read",
        Absent, Listed)

\* A payload that is gone is an answer of NOT_FOUND to the whole request.
ReadClaim(r) ==
  /\ Reading("catalog", "read")
  /\ r \in reader.todo
  /\ CASE ~IsReport(r) -> Done(r, {})
       [] IsReport(r) /\ Stored(r) -> Done(r, {r})
       [] OTHER -> Refuse

-----------------------------------------------------------------------------
(* The evidence trace of one report.                                       *)

\* The report is loaded first.
BeginTrace(r) ==
  /\ IsReport(r)
  /\ Begin("trace", IF Stored(r) THEN "list" ELSE "refused", r, {})

\* Mutation: only what the limit admits is looked up.
ScannedOnly(scanned) == scanned

\* A source that is named by its receipt is looked up beyond the limit.
Selected(scanned) == scanned \union (Sources \intersect Listed)

\* What the report does not name is left, and so is the report itself.
ListReceipts ==
  /\ Reading("trace", "list")
  /\ \E scanned \in SUBSET Listed :
       /\ scanned = Listed \/ Cardinality(scanned) = MaxReceipts
       /\ Cardinality(scanned) <= MaxReceipts
       /\ Go([reader EXCEPT !.step = "read",
                !.todo = (Selected(scanned) \intersect Sources) \ {reader.subject}])

Row(r, status) == [id |-> r, status |-> status]

\* _receipt_integrity
ReadSource(r) ==
  /\ Reading("trace", "read")
  /\ r \in reader.todo
  /\ IF Stored(r) THEN Go([reader EXCEPT !.step = "admit", !.subject = r])
     ELSE Done(r, {Row(r, "unavailable")})

\* admit_external_evidence reads the payload again.
AdmitSource ==
  /\ Reading("trace", "admit")
  /\ Done(reader.subject,
          {Row(reader.subject, IF Stored(reader.subject) THEN "verified" ELSE "unavailable")})

-----------------------------------------------------------------------------
(* A page of records: rows of the index, then the receipt of each.         *)

BeginQuery == Begin("query", "read", Absent, Indexed)

\* _hydrate
Hydrate(r) ==
  /\ Reading("query", "read")
  /\ r \in reader.todo
  /\ IF receipts[r] = reader.records[r].receipt THEN Done(r, {r}) ELSE Refuse

-----------------------------------------------------------------------------
(* Verification: the index is taken table by table, and then the files of  *)
(* its records are read.                                                   *)

BeginVerify == Begin("verify", "retention", Absent, Indexed)

SelectRetention ==
  /\ Reading("verify", "retention")
  /\ Go([reader EXCEPT !.step = "deletions", !.retained = Retained])

SelectDeletions ==
  /\ Reading("verify", "deletions")
  /\ Go([reader EXCEPT !.step = "read", !.deleted = Deleted,
                       !.found = Dangling(reader.todo, reader.retained, Deleted)])

\* Mutation: payloads that are gone are passed over.
VerifyPresent(r) ==
  /\ Reading("verify", "read")
  /\ r \in reader.todo
  /\ Done(r, IF Stored(r) THEN RecordIssues(r, reader.records[r], reader.deleted) ELSE {})

VerifyRecord(r) ==
  /\ Reading("verify", "read")
  /\ r \in reader.todo
  /\ Done(r, RecordIssues(r, reader.records[r], reader.deleted))

-----------------------------------------------------------------------------
(* The sweep: each payload that was listed is looked up, and then opened.  *)

BeginSweep == Begin("sweep", "read", Absent, artifacts)

FindPayload(a) ==
  /\ Reading("sweep", "read")
  /\ a \in reader.todo
  /\ IF a \in artifacts THEN Go([reader EXCEPT !.step = "open", !.subject = a])
     ELSE Done(a, {})

OpenPayload ==
  /\ Reading("sweep", "open")
  /\ IF reader.subject \in artifacts THEN Done(reader.subject, {reader.subject})
     ELSE Refuse

-----------------------------------------------------------------------------
(* The data governance page of one record: a context that the host has     *)
(* written, with the deadline and the hold that its policy gives, is held  *)
(* against the record's rows, which are read one after the other.          *)

\* What a context that loads says of its object: a recorded decision has to be
\* the one that the policy, replayed, gives.
Contexts == Retentions

BeginGovernance(r, context) == Begin("governance", "record", r, {context})

ReadRecord ==
  /\ Reading("governance", "record")
  /\ IF rows[reader.subject] = Absent THEN Refuse
     ELSE Go([reader EXCEPT !.step = "retention"])

ReadRetention ==
  /\ Reading("governance", "retention")
  /\ IF retention[reader.subject] \in reader.todo
     THEN Go([reader EXCEPT !.step = "tombstone"])
     ELSE Refuse

\* A tombstone that is older than the deadline is refused.
ReadTombstone ==
  /\ Reading("governance", "tombstone")
  /\ LET deleted == tombstones[reader.subject]
         Early(context) == context.until # NoLimit /\ deleted < context.until IN
     Go([reader EXCEPT !.step = IF deleted # Absent /\ \E context \in reader.todo : Early(context)
                                THEN "predates" ELSE "answered"])

-----------------------------------------------------------------------------
\* What producers and hosts do meanwhile.
Meanwhile ==
  /\ Next
  /\ UNCHANGED reader
  /\ CASE reader # NoReader /\ reader.kind = "verify" ->
            /\ passing' = passing \union IssuesAtOnce'
            /\ lasting' = lasting \intersect IssuesAtOnce'
       [] reader # NoReader /\ reader.kind = "governance" ->
            /\ lasting' = lasting \intersect {retention'[reader.subject]}
            /\ UNCHANGED passing
       [] OTHER -> UNCHANGED <<passing, lasting>>

ReadersNext ==
  \/ Meanwhile
  \/ BeginCatalog \/ BeginQuery \/ BeginVerify \/ BeginSweep
  \/ \E r \in ReceiptIds :
       \/ BeginTrace(r) \/ ReadClaim(r) \/ ReadSource(r) \/ Hydrate(r) \/ VerifyRecord(r)
  \/ ListReceipts \/ AdmitSource
  \/ SelectRetention \/ SelectDeletions
  \/ \E r \in ReceiptIds, context \in Contexts : BeginGovernance(r, context)
  \/ ReadRecord \/ ReadRetention \/ ReadTombstone
  \/ (\E a \in Artifacts : FindPayload(a)) \/ OpenPayload
  \/ Answer \/ Leave

ReadersSpec == Init /\ ReaderInit /\ [][ReadersNext]_readingVars

-----------------------------------------------------------------------------
(* Properties.                                                             *)

\* Retention rows and tombstones of records that were indexed after the
\* records had been selected.
IndexedSince ==
  LET late == Indexed \ {r \in ReceiptIds : reader.records[r] # Absent} IN
  Dangling({}, late, late)

\* A record that was deleted twice, its payload having come in again after its
\* tombstone, is reported missing though it never was without a tombstone.
DeletedAgain ==
  {Issue("ARTIFACT_MISSING", issue.id) :
     issue \in {i \in passing : i.code = "DELETED_ARTIFACT_PRESENT"}}

\* The verification takes no lock and no snapshot, and yet what it reports was
\* so at an instant of it, apart from records that came in between or were
\* deleted twice, and what was so all the time is reported.
VerificationSound ==
  Answered("verify") =>
    /\ reader.found \subseteq passing \union IndexedSince \union DeletedAgain
    /\ lasting \subseteq reader.found

\* The payload was unlinked by a deletion, whether that was recorded, is to be
\* recorded, or ended in between.
Removed(a) ==
  \E r \in Indexed :
    /\ rows[r].receipt.artifact = a
    /\ \/ r \in Deleted
       \/ r \in unrecorded
       \/ \E c \in Clients : pc[c] = "tombstone" /\ job[c].receipt = r

\* A page fails only for a payload that was deleted, never for one on its way
\* in, and a query never fails; a trace shows every source that was there when
\* it was asked for, beyond the limit too, and as unavailable only if deleted;
\* and no deletion is taken for one before its deadline, unless the retention
\* was applied anew, after the deletion or while the page was read.
WorkspacePagesSound ==
  /\ Refused("catalog") => \E r \in reader.todo : IsReport(r) /\ Removed(receipts[r].artifact)
  /\ Refused("trace") => Removed(receipts[reader.subject].artifact)
  /\ Refused("sweep") => Removed(reader.subject)
  /\ ~Refused("query")
  /\ Answered("trace") =>
       /\ \A row \in reader.found :
            row.status = "unavailable" => Removed(receipts[row.id].artifact)
       /\ \A r \in Sources \intersect reader.known :
            IsReport(r) \/ \E row \in reader.found : row.id = r
  /\ Reading("governance", "predates") => reader.subject \in reader.deleted \/ lasting = {}
=============================================================================
