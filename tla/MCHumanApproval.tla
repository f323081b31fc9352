--------------------------- MODULE MCHumanApproval ---------------------------
(***************************************************************************)
(* Small instances of HumanApproval for TLC.                               *)
(***************************************************************************)
EXTENDS HumanApproval

CONSTANTS b1, b2, k1, k2, k3, k4, u1, u2

Own == [producer |-> "reviewer", duty |-> "publish"]
Other == [producer |-> "auditor", duty |-> "publish"]
BothAuthorities == {Own, Other}

Approval(k, b, u, x, pred) ==
  [key |-> k, basis |-> b, actor |-> u, authority |-> x, predecessor |-> pred]
Revocation(k, b, x, target) ==
  [key |-> k, basis |-> b, authority |-> x, target |-> target]
Of(k) == [producer |-> "reviewer", key |-> k]

\* Two actors approve one basis under three keys, fresh or in place of an
\* earlier approval; one key may come again on another basis, and one actor
\* may act for another producer.
Requests ==
  {Approval(k1, b1, u1, Own, NoReceipt)}
  \union {Approval(k2, b1, u, Own, pred) :
            u \in {u1, u2}, pred \in {NoReceipt, Of(k1)}}
  \union {Approval(k3, b1, u, Own, pred) :
            u \in {u1, u2}, pred \in {NoReceipt, Of(k1), Of(k2)}}
  \union {Approval(k1, b2, u1, Own, NoReceipt),
          Approval(k3, b2, u2, Own, Of(k1)),
          Approval(k2, b1, u1, Other, NoReceipt),
          Approval(k3, b1, u2, Other, Of(k1))}

\* Any of those keys, and a fourth one, may ask for a revocation.
RevocationRequests ==
  {Revocation(k, b1, Own, Of(target)) :
     k \in {k3, k4}, target \in {k1, k2, k3}}
  \union {Revocation(k4, b1, Other, Of(k1)),
          Revocation(k4, b2, Own, Of(k1))}

TwoInstants == {1, 2}
=============================================================================
