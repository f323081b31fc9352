----------------------------- MODULE KeyLifecycle -----------------------------
(***************************************************************************)
(* What the attestation trust history promises about signing keys: the     *)
(* trusted keys change by whole signed states, a key first appears active, *)
(* a revoked key stays revoked and a superseded one stays superseded by    *)
(* the same key for as long as they are listed, their material never       *)
(* changes, and a superseded key has an active successor.                  *)
(***************************************************************************)
CONSTANTS
  Keys,
  AnchorMaps,   \* sets of anchors, as functions from some of the Keys
  Nothing       \* before the first signed state

VARIABLE trusted

\* The anchor of a key may follow another one of the same key.
MayFollow(new, old) ==
  /\ new.material = old.material
  /\ old.status = "revoked" => new.status = "revoked"
  /\ old.status = "superseded" => new.status = "superseded" /\ new.by = old.by

\* The anchors `next` may follow the anchors `old`.
Succeeds(next, old) ==
  \A k \in DOMAIN next :
    /\ IF k \in DOMAIN old
       THEN MayFollow(next[k], old[k])
       ELSE next[k].status = "active"
    /\ next[k].status = "superseded" =>
         /\ next[k].by \in DOMAIN next
         /\ next[next[k].by].status = "active"

Init == trusted = Nothing

\* The first signed state names any anchors.
Establish ==
  /\ trusted = Nothing
  /\ trusted' \in AnchorMaps

Change ==
  /\ trusted # Nothing
  /\ trusted' \in AnchorMaps
  /\ Succeeds(trusted', trusted)

Next == Establish \/ Change

Spec == Init /\ [][Next]_trusted
=============================================================================
