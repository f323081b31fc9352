------------------------- MODULE ReliabilityRegister -------------------------
(***************************************************************************)
(* What a reliability-state history promises about its subjects, with no   *)
(* file, no digests, no concurrent writers and no crashes: each subject    *)
(* has one current state, "unknown" at first, and only ever moves along    *)
(* ALLOWED_TRANSITIONS.  ReliabilityHistory implements it on the           *)
(* transactional store.                                                    *)
(***************************************************************************)
CONSTANT Subjects

VARIABLE state

ReliabilityStates == {"unknown", "reliable", "degraded", "unreliable", "recovered"}

AllowedTransitions ==
  [unknown    |-> {"reliable", "degraded", "unreliable"},
   reliable   |-> {"degraded", "unreliable"},
   degraded   |-> {"reliable", "unreliable"},
   unreliable |-> {"recovered", "reliable", "degraded"},
   recovered  |-> {"reliable", "degraded", "unreliable"}]

Init == state = [s \in Subjects |-> "unknown"]

Move(s) ==
  \E target \in AllowedTransitions[state[s]] :
    state' = [state EXCEPT ![s] = target]

Next == \E s \in Subjects : Move(s)

Spec == Init /\ [][Next]_state
=============================================================================
