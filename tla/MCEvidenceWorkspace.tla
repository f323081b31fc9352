------------------------- MODULE MCEvidenceWorkspace -------------------------
(***************************************************************************)
(* Small instances of EvidenceWorkspace for TLC.                           *)
(***************************************************************************)
EXTENDS EvidenceWorkspace

CONSTANTS c1, c2, r1, r2, a1, a2, run1, p1, p2

Delivery(r, a, at, run, producer, sens) ==
  [receipt |-> r, artifact |-> a, captured |-> at, run |-> run,
   producer |-> producer, sensitivity |-> sens]

\* One producer event, redelivered with a later captured_at and with another
\* sensitivity; and a second event of another producer in the same run.
\* Every payload belongs to one receipt identity.
OwnContent ==
  {Delivery(r1, a1, 1, run1, p1, "internal"),
   Delivery(r1, a1, 2, run1, p1, "internal"),
   Delivery(r1, a1, 1, run1, p1, "restricted"),
   Delivery(r2, a2, 1, run1, p2, "internal")}

\* The SDK client can carry the same event as the workspace, or a variant.
OwnContentDirect ==
  {Delivery(r1, a1, 1, run1, p1, "internal"),
   Delivery(r1, a1, 2, run1, p1, "internal")}

\* Two producer events with byte-identical payloads, outside any run.
SharedContent ==
  {Delivery(r1, a1, 1, NoRun, p1, "internal"),
   Delivery(r2, a1, 1, NoRun, p1, "internal")}
SharedContentDirect == {Delivery(r1, a1, 1, NoRun, p1, "internal")}

\* One producer event and its later redelivery, each by either route.
OneEvent ==
  {Delivery(r1, a1, 1, run1, p1, "internal"),
   Delivery(r1, a1, 2, run1, p1, "internal")}

OneTime == {1}
TwoTimes == {1, 2}
=============================================================================
