-------------------------- MODULE ApprovalLifecycle --------------------------
(***************************************************************************)
(* What the human-approval store promises, with no receipts, no clock and  *)
(* no idempotency keys: an approval becomes effective once, may end once,  *)
(* by revocation or by a replacement that becomes effective in the same    *)
(* step, and what ended never becomes effective again.  HumanApproval      *)
(* implements it.                                                          *)
(***************************************************************************)
CONSTANT ApprovalIds

VARIABLE status

Init == status = [i \in ApprovalIds |-> "none"]

Approve(i) ==
  /\ status[i] = "none"
  /\ status' = [status EXCEPT ![i] = "active"]

Supersede(i, j) ==
  /\ status[i] = "active"
  /\ status[j] = "none"
  /\ status' = [status EXCEPT ![i] = "superseded", ![j] = "active"]

Revoke(i) ==
  /\ status[i] = "active"
  /\ status' = [status EXCEPT ![i] = "revoked"]

Next ==
  \/ \E i \in ApprovalIds : Approve(i) \/ Revoke(i)
  \/ \E i, j \in ApprovalIds : Supersede(i, j)

Spec == Init /\ [][Next]_status
=============================================================================
