------------------------------ MODULE TrustAnchors ------------------------------
(***************************************************************************)
(* Checkpoints of a local history in an independent directory.  A host     *)
(* reads the latest checkpoint, has the next one signed by an external     *)
(* signer, and publishes it; nothing locks the directory in between.  A    *)
(* checkpoint is a file of its own, put in place by one rename.            *)
(*                                                                         *)
(* There is one subject.  A digest is what it is taken of, so a checkpoint *)
(* holds the checkpoint before it.  Instants have the resolution of the    *)
(* clock: two checkpoints may be issued at the same one.                   *)
(***************************************************************************)
EXTENDS FiniteSets, Naturals, Sequences

CONSTANTS
  Publishers,       \* processes that publish
  Ids,              \* identities of checkpoints
  Records,          \* records of the local history
  NoPublication,    \* no publication
  NoCheckpoint,
  MaxRecords,       \* bound on the local history
  MaxTime           \* bound on the clock

ConstantsAssumption ==
  /\ NoCheckpoint \notin Ids
  /\ {MaxRecords, MaxTime} \subseteq Nat

VARIABLES
  records,          \* the local history
  now,              \* the wall clock
  anchored,         \* the checkpoint files
  staged,           \* the temporary file of each identity
  publication,      \* what each publisher is doing
  acknowledged,     \* what publish has returned for
  crossed           \* whether two publications were under way at a time

vars == <<records, now, anchored, staged, publication, acknowledged, crossed>>

hostVars == <<records, now>>

Init ==
  /\ records = <<>>
  /\ now = 0
  /\ anchored = [i \in Ids |-> NoCheckpoint]
  /\ staged = [i \in Ids |-> NoCheckpoint]
  /\ publication = [p \in Publishers |-> NoPublication]
  /\ acknowledged = {}
  /\ crossed = FALSE

-----------------------------------------------------------------------------
(* Reading the directory.                                                  *)

Published == {anchored[i] : i \in Ids} \ {NoCheckpoint}

\* The order in which _latest sorts.
Before(c, d) == c.count < d.count \/ (c.count = d.count /\ c.issued < d.issued)

\* ensure_checkpoint_sequence.
FollowsOn(c, d) ==
  IF c = NoCheckpoint THEN d.previous = NoCheckpoint
  ELSE d.previous = c /\ c.count <= d.count

Adjacent(c, d) == Before(c, d) /\ ~\E e \in Published : Before(c, e) /\ Before(e, d)

\* _latest raises when the order is ambiguous or skips a link.  Checkpoints
\* that tie are the latest: publish reads them too, and accepts nothing past them.
LatestReads ==
  /\ \A c, d \in Published : c = d \/ Before(c, d) \/ Before(d, c)
  /\ \A c, d \in Published : Adjacent(c, d) => FollowsOn(c, d)

Latest ==
  IF Published = {} THEN NoCheckpoint
  ELSE CHOOSE c \in Published : ~\E d \in Published : Before(c, d)

-----------------------------------------------------------------------------
(* The host.                                                               *)

\* The local history loses its tail, or is extended.
Extend(r) ==
  /\ Len(records) < MaxRecords
  /\ records' = Append(records, r)
  /\ UNCHANGED <<now, anchored, staged, publication, acknowledged, crossed>>

Truncate ==
  /\ records # <<>>
  /\ records' = SubSeq(records, 1, Len(records) - 1)
  /\ UNCHANGED <<now, anchored, staged, publication, acknowledged, crossed>>

SetClock(t) ==
  /\ t # now
  /\ now' = t
  /\ UNCHANGED <<records, anchored, staged, publication, acknowledged, crossed>>

At(p, pc) == publication[p] # NoPublication /\ publication[p].pc = pc

Goto(p, pc) == publication' = [publication EXCEPT ![p].pc = pc]

End(p) == publication' = [publication EXCEPT ![p] = NoPublication]

\* latest, and the payload that is to be signed.
Prepare(p, i) ==
  /\ publication[p] = NoPublication
  /\ LatestReads
  /\ publication' = [publication EXCEPT ![p] =
       [pc |-> "signing",
        checkpoint |-> [id |-> i, tip |-> records, count |-> Len(records),
                        issued |-> now, previous |-> Latest]]]
  /\ UNCHANGED <<hostVars, anchored, staged, acknowledged, crossed>>

\* The external signer answers, or the checkpoint is given up.
Sign(p) ==
  /\ At(p, "signing")
  /\ Goto(p, "publishing")
  /\ UNCHANGED <<hostVars, anchored, staged, acknowledged, crossed>>

SignerFails(p) ==
  /\ At(p, "signing")
  /\ End(p)
  /\ UNCHANGED <<hostVars, anchored, staged, acknowledged, crossed>>

-----------------------------------------------------------------------------
(* publish.                                                                *)

\* Mutation: an identity that is taken is only noticed if nothing follows it.
TakenByOther(c) == anchored[c.id] = Latest /\ Latest \notin {NoCheckpoint, c}

Taken(c) == anchored[c.id] \notin {NoCheckpoint, c}

\* A repeated checkpoint is accepted; another one of its identity, or one that
\* does not follow the latest, is refused.
Check(p) ==
  /\ At(p, "publishing")
  /\ LET c == publication[p].checkpoint IN
     IF anchored[c.id] = c
     THEN acknowledged' = acknowledged \union {c} /\ End(p) /\ UNCHANGED crossed
     ELSE /\ UNCHANGED acknowledged
          /\ IF ~Taken(c) /\ LatestReads /\ FollowsOn(Latest, c)
             THEN /\ Goto(p, "staging")
                  /\ crossed' = (crossed \/ \E q \in Publishers \ {p} :
                                              At(q, "staging") \/ At(q, "replacing"))
             ELSE End(p) /\ UNCHANGED crossed
  /\ UNCHANGED <<hostVars, anchored, staged>>

Stage(p) ==
  /\ At(p, "staging")
  /\ staged' = [staged EXCEPT ![publication[p].checkpoint.id] = publication[p].checkpoint]
  /\ Goto(p, "replacing")
  /\ UNCHANGED <<hostVars, anchored, acknowledged, crossed>>

\* The temporary file may be another publisher's of the same identity, or gone.
Replace(p) ==
  /\ At(p, "replacing")
  /\ LET c == publication[p].checkpoint IN
     IF staged[c.id] # NoCheckpoint
     THEN /\ anchored' = [anchored EXCEPT ![c.id] = staged[c.id]]
          /\ staged' = [staged EXCEPT ![c.id] = NoCheckpoint]
          /\ acknowledged' = acknowledged \union {c}
     ELSE UNCHANGED <<anchored, staged, acknowledged>>
  /\ End(p)
  /\ UNCHANGED <<hostVars, crossed>>

\* The process stops; a temporary file stays, and is written over later.
Stop(p) ==
  /\ publication[p] # NoPublication
  /\ End(p)
  /\ UNCHANGED <<hostVars, anchored, staged, acknowledged, crossed>>

\* A publication whose answer was lost is repeated with the same checkpoint.
Repeat(p) ==
  /\ publication[p] = NoPublication
  /\ \E c \in acknowledged :
       publication' = [publication EXCEPT ![p] = [pc |-> "publishing", checkpoint |-> c]]
  /\ UNCHANGED <<hostVars, anchored, staged, acknowledged, crossed>>

-----------------------------------------------------------------------------
Next ==
  \/ \E r \in Records : Extend(r)
  \/ Truncate
  \/ \E t \in 0..MaxTime : SetClock(t)
  \/ \E p \in Publishers :
       \/ \E i \in Ids : Prepare(p, i)
       \/ Sign(p) \/ SignerFails(p)
       \/ Check(p) \/ Stage(p) \/ Replace(p) \/ Stop(p) \/ Repeat(p)

Spec == Init /\ [][Next]_vars

-----------------------------------------------------------------------------
(* Properties.                                                             *)

\* A checkpoint of an unchanged history whose time does not lie behind that of
\* its predecessor.
Stalled(c) ==
  /\ c.previous # NoCheckpoint
  /\ c.count = c.previous.count
  /\ c.issued <= c.previous.issued

\* As long as no two publications crossed, a checkpoint that publish returned
\* for is kept as it is, and the directory names a latest checkpoint; unless an
\* unchanged history was anchored again without the clock having moved on.
AcknowledgedAnchored ==
  ~crossed =>
    /\ acknowledged \subseteq Published
    /\ LatestReads \/ \E c \in Published : Stalled(c)
=============================================================================
