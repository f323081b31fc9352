----------------------------- MODULE TrustHistory -----------------------------
(***************************************************************************)
(* The history of signed attestation trust states, and the separate file   *)
(* with the current one.  append_attestation_trust_state appends to the    *)
(* history under its lock and then, outside the lock, replaces the current *)
(* file; other publishers, or the end of the process, may come between.    *)
(*                                                                         *)
(* A state is signed by the authority before it gets here, so the states   *)
(* that authenticate are a constant.  Their digests do not collide.        *)
(* A call that raises changes neither file and is not an action, nor is a  *)
(* read.                                                                   *)
(***************************************************************************)
EXTENDS LineFile

CONSTANTS
  Publishers,        \* callers of append_attestation_trust_state
  Keys,              \* identities of signing keys
  Signed,            \* states: [version, issued, digest, previous, anchors]
  NoDigest,          \* previous_digest of an initial state
  NoState,
  MaxInterruptions   \* bound: writes that end before they are complete

VARIABLES
  history,        \* the JSONL file
  current,        \* the state in the current-state file
  publishing,     \* the state each publisher has appended, before the replace
  interruptions

trustVars == <<history, current, publishing>>

Statuses == {"active", "revoked", "superseded"}

\* The anchors of a state: for some of the keys, the key material, the
\* status, and the replacement that a superseded anchor names.
WellFormedAnchors(anchors) ==
  /\ DOMAIN anchors \subseteq Keys
  /\ \A k \in DOMAIN anchors :
       /\ anchors[k].status \in Statuses
       /\ anchors[k].status = "superseded" => anchors[k].by \in DOMAIN anchors

ConstantsAssumption ==
  /\ \A s \in Signed :
       /\ s.version \in Nat \ {0}
       /\ s.issued \in Nat
       /\ WellFormedAnchors(s.anchors)
  /\ \A s, t \in Signed : s.digest = t.digest => s = t
  /\ NoDigest \notin {s.digest : s \in Signed}
  /\ NoState \notin Signed
  /\ NoState \notin {s.anchors : s \in Signed}
  /\ MaxInterruptions \in Nat

TrustTypeOK ==
  /\ history \in Files(Signed)
  /\ current \in Signed \union {NoState}
  /\ publishing \in [Publishers -> Signed \union {NoState}]
  /\ interruptions \in 0..MaxInterruptions

TrustInit ==
  /\ history = EmptyFile
  /\ current = NoState
  /\ publishing = [p \in Publishers |-> NoState]
  /\ interruptions = 0

-----------------------------------------------------------------------------
(* validate_attestation_trust_transition                                   *)

\* The anchors of the state at the tip.
Trusted == IF history.lines = <<>> THEN NoState ELSE history.lines[Len(history.lines)].anchors

Lifecycle == INSTANCE KeyLifecycle
               WITH AnchorMaps <- {s.anchors : s \in Signed},
                    Nothing <- NoState,
                    trusted <- Trusted

\* Mutation: anchors are compared key by key without their status.
SuccessorInChain(s, t) ==
  /\ s.version = t.version + 1
  /\ s.previous = t.digest
  /\ s.issued > t.issued
  /\ \A k \in DOMAIN s.anchors \intersect DOMAIN t.anchors :
       s.anchors[k].material = t.anchors[k].material

\* State s may be appended after state t.
Successor(s, t) ==
  /\ s.version = t.version + 1
  /\ s.previous = t.digest
  /\ s.issued > t.issued
  /\ Lifecycle!Succeeds(s.anchors, t.anchors)

\* s may be appended to the states h.
Follows(s, h) ==
  IF h = <<>> THEN s.previous = NoDigest ELSE Successor(s, h[Len(h)])

-----------------------------------------------------------------------------
(* _parse_history_records: what a read accepts.                            *)

Linked(h) == \A i \in 1..Len(h) : Follows(h[i], SubSeq(h, 1, i - 1))

\* A key that is listed, and was listed before, was never away.
KeysStayOut(h) ==
  \A i \in 2..Len(h), j \in 1..Len(h) :
    j < i - 1 =>
      DOMAIN h[i].anchors \intersect DOMAIN h[j].anchors
        \subseteq DOMAIN h[i - 1].anchors

Readable(file) ==
  /\ file.end # "spoiled"
  /\ Linked(file.lines)
  /\ KeysStayOut(file.lines)

-----------------------------------------------------------------------------
(* append_attestation_trust_state                                          *)

Recorded(s) == \E i \in 1..Len(history.lines) : history.lines[i] = s

\* The state's version is taken, by the same state or by another one.
VersionTaken(s) ==
  \E i \in 1..Len(history.lines) : history.lines[i].version = s.version

\* Mutation: the new state is not compared with the tip.
AppendableUnlinked(s) ==
  /\ Readable(history)
  /\ ~VersionTaken(s)

\* The append reaches its write.
Appendable(s) ==
  /\ Readable(history)
  /\ ~VersionTaken(s)
  /\ Follows(s, history.lines)

AppendState(p, s) ==
  /\ publishing[p] = NoState
  /\ Appendable(s)
  /\ history' = Extended(history, <<s>>)
  /\ publishing' = [publishing EXCEPT ![p] = s]
  /\ UNCHANGED <<current, interruptions>>

\* A state that the history holds already is returned without a write.
ReplayState(p, s) ==
  /\ publishing[p] = NoState
  /\ Readable(history)
  /\ Recorded(s)
  /\ publishing' = [publishing EXCEPT ![p] = s]
  /\ UNCHANGED <<history, current, interruptions>>

\* Mutation: the file is written before the history.
ReplaceCurrentFirst(p) ==
  \E s \in Signed :
    /\ current' = s
    /\ UNCHANGED <<history, publishing, interruptions>>

\* atomic_write_text, after the lock was released.
ReplaceCurrent(p) ==
  /\ publishing[p] # NoState
  /\ current' = publishing[p]
  /\ publishing' = [publishing EXCEPT ![p] = NoState]
  /\ UNCHANGED <<history, interruptions>>

\* No current file is asked for, or its replacement fails.
LeaveCurrent(p) ==
  /\ publishing[p] # NoState
  /\ publishing' = [publishing EXCEPT ![p] = NoState]
  /\ UNCHANGED <<history, current, interruptions>>

AppendInterrupted(p, s) ==
  /\ publishing[p] = NoState
  /\ Appendable(s)
  /\ interruptions < MaxInterruptions
  /\ interruptions' = interruptions + 1
  /\ history' \in Interrupted(history, <<s>>)
  /\ UNCHANGED <<current, publishing>>

Publish ==
  \E p \in Publishers :
    \/ \E s \in Signed :
         AppendState(p, s) \/ ReplayState(p, s) \/ AppendInterrupted(p, s)
    \/ ReplaceCurrent(p)
    \/ LeaveCurrent(p)

-----------------------------------------------------------------------------
(* Properties.                                                             *)

\* "The store rejects ... a key ID that disappears and later reappears":
\* the history never lists a key again that an earlier state had removed.
RemovedKeysStayOut == KeysStayOut(history.lines)

\* What append() accepts, every later read accepts: as long as no removed
\* key was listed again, only an interrupted write can make the history
\* unreadable, and it does so by a line that does not parse.
HistoryReadable ==
  KeysStayOut(history.lines) =>
    /\ Linked(history.lines)
    /\ interruptions = 0 => Readable(history)

\* The states at the tip of the history follow the key lifecycle, whoever
\* publishes and wherever a write is interrupted.
KeyLifecycleSpec == Lifecycle!Spec
=============================================================================
