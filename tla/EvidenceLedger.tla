--------------------------- MODULE EvidenceLedger ---------------------------
(***************************************************************************)
(* What a StateWake workspace promises about admitted evidence, with no    *)
(* files, locks, temporary names or crashes:                               *)
(*                                                                         *)
(*   - a receipt identity is bound to one content, once;                   *)
(*   - the operational index lists only receipts that were admitted, with  *)
(*     the content they were admitted with, and a row never changes;       *)
(*   - a deletion tombstone is written once, for an indexed record.        *)
(*                                                                         *)
(* EvidenceWorkspace implements this specification.                        *)
(***************************************************************************)
CONSTANTS
  ReceiptIds,      \* deterministic receipt identities
  Contents,        \* what a receipt file can hold
  Sensitivities,   \* sensitivity recorded with an index row
  Instants,        \* the times a deletion can carry
  Absent           \* no receipt, no row, no tombstone

VARIABLES
  receipts,        \* receipt identity -> content, or Absent
  rows,            \* receipt identity -> indexed record, or Absent
  tombstones       \* receipt identity -> deletion instant, or Absent

ledgerVars == <<receipts, rows, tombstones>>

Init ==
  /\ receipts = [r \in ReceiptIds |-> Absent]
  /\ rows = [r \in ReceiptIds |-> Absent]
  /\ tombstones = [r \in ReceiptIds |-> Absent]

Admit(r, content) ==
  /\ receipts[r] = Absent
  /\ receipts' = [receipts EXCEPT ![r] = content]
  /\ UNCHANGED <<rows, tombstones>>

Index(r, s) ==
  /\ receipts[r] # Absent
  /\ rows[r] = Absent
  /\ rows' = [rows EXCEPT ![r] = [receipt |-> receipts[r], sensitivity |-> s]]
  /\ UNCHANGED <<receipts, tombstones>>

Retire(r, t) ==
  /\ rows[r] # Absent
  /\ tombstones[r] = Absent
  /\ tombstones' = [tombstones EXCEPT ![r] = t]
  /\ UNCHANGED <<receipts, rows>>

Next ==
  \E r \in ReceiptIds :
    \/ \E content \in Contents : Admit(r, content)
    \/ \E s \in Sensitivities : Index(r, s)
    \/ \E t \in Instants : Retire(r, t)

Spec == Init /\ [][Next]_ledgerVars
=============================================================================
