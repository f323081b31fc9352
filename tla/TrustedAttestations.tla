-------------------------- MODULE TrustedAttestations --------------------------
(***************************************************************************)
(* Signed outcome attestations over a trust history that publishers move   *)
(* on meanwhile.  attest_signed_reliability_outcome is handed the state of *)
(* the current-state file, reads the tip of the attestation store, calls   *)
(* the external signer, and appends under the store's lock; nothing else   *)
(* holds between these steps.  A verifier resolves the exact trust state   *)
(* that a binding names from the history.                                  *)
(*                                                                         *)
(* The store is a file of lines of two kinds: an outcome, and the binding  *)
(* of an outcome to its signing state.  An outcome's previous_digest is    *)
(* abstracted to its position: outcomes are never removed or changed, so   *)
(* the digest at a position is fixed once it exists.                       *)
(***************************************************************************)
EXTENDS TrustHistory, FiniteSets

CONSTANTS
  Signers,   \* callers of the attestation services
  Ids,       \* attestation_id: chain, transition and time of an outcome
  NoKey,     \* signing_key_id of an unsigned outcome
  NoJob

VARIABLES
  ledger,    \* the attestation store
  job,       \* what each signer is about to record
  phase      \* the step each signer is at

vars == <<history, current, publishing, interruptions, ledger, job, phase>>
ledgerVars == <<ledger, job, phase>>

\* An outcome line has no state; a binding line repeats its outcome.
Outcomes == [id : Ids, key : Keys \union {NoKey}, previous : Nat, state : {NoState}]
Bindings == [id : Ids, key : Keys, previous : Nat, state : Signed]
Jobs == [id : Ids, key : Keys \union {NoKey}, previous : Nat,
         state : Signed \union {NoState}]

AttestationsAssumption ==
  /\ ConstantsAssumption
  /\ NoKey \notin Keys
  /\ NoJob \notin Jobs

TypeOK ==
  /\ TrustTypeOK
  /\ ledger \in Files(Outcomes \union Bindings)
  /\ job \in [Signers -> Jobs \union {NoJob}]
  /\ phase \in [Signers -> {"idle", "build", "record"}]
  /\ \A c \in Signers :
       /\ phase[c] # "idle" => job[c] \in Jobs
       /\ job[c] \in Jobs => (job[c].key = NoKey <=> job[c].state = NoState)

Init ==
  /\ TrustInit
  /\ ledger = EmptyFile
  /\ job = [c \in Signers |-> NoJob]
  /\ phase = [c \in Signers |-> "idle"]

-----------------------------------------------------------------------------
(* Reading the store.                                                      *)

IsBinding(line) == line.state # NoState
OutcomeOf(line) == [line EXCEPT !.state = NoState]

\* The number of outcomes, that is the previous_digest at the tip.
Tip(lines) == Cardinality({i \in 1..Len(lines) : ~IsBinding(lines[i])})

\* An outcome line continues the chain and has a new identity; a binding
\* line follows its outcome, once.
Admissible(line, before) ==
  IF IsBinding(line)
  THEN /\ \E i \in 1..Len(before) : before[i] = OutcomeOf(line)
       /\ \A i \in 1..Len(before) : IsBinding(before[i]) => before[i].id # line.id
  ELSE /\ line.previous = Tip(before)
       /\ \A i \in 1..Len(before) : before[i].id # line.id

ChainAccepted(lines) ==
  \A i \in 1..Len(lines) : Admissible(lines[i], SubSeq(lines, 1, i - 1))

LedgerReads == ledger.end # "spoiled" /\ ChainAccepted(ledger.lines)

\* attestation_signing_key_status
KeyActive(state, key) ==
  key \in DOMAIN state.anchors /\ state.anchors[key].status = "active"

-----------------------------------------------------------------------------
(* attest_signed_reliability_outcome, attest_reliability_outcome           *)

\* The current state is loaded; it lists the key as active, or nothing is
\* signed in the end.
StartSigned(c, id, key) ==
  /\ phase[c] = "idle"
  /\ current # NoState
  /\ KeyActive(current, key)
  /\ job' = [job EXCEPT ![c] =
               [id |-> id, key |-> key, previous |-> 0, state |-> current]]
  /\ phase' = [phase EXCEPT ![c] = "build"]
  /\ UNCHANGED <<trustVars, interruptions, ledger>>

StartUnsigned(c, id) ==
  /\ phase[c] = "idle"
  /\ job' = [job EXCEPT ![c] =
               [id |-> id, key |-> NoKey, previous |-> 0, state |-> NoState]]
  /\ phase' = [phase EXCEPT ![c] = "build"]
  /\ UNCHANGED <<trustVars, interruptions, ledger>>

\* The tip is read; the signer is called between this and the append.
Build(c) ==
  /\ phase[c] = "build"
  /\ LedgerReads
  /\ job' = [job EXCEPT ![c].previous = Tip(ledger.lines)]
  /\ phase' = [phase EXCEPT ![c] = "record"]
  /\ UNCHANGED <<trustVars, interruptions, ledger>>

End(c) ==
  /\ phase' = [phase EXCEPT ![c] = "idle"]
  /\ job' = [job EXCEPT ![c] = NoJob]

\* The call raises, or the process stops, and nothing is written.
Abandon(c) ==
  /\ phase[c] # "idle"
  /\ End(c)
  /\ UNCHANGED <<trustVars, interruptions, ledger>>

SameId(lines, id) == {i \in 1..Len(lines) : lines[i].id = id}

\* Mutation: the outcome's chain position is not compared.
NewLinesUnchained(lines, j) ==
  IF SameId(lines, j.id) = {} THEN
    IF IsBinding(j) THEN <<OutcomeOf(j), j>> ELSE <<j>>
  ELSE <<>>

\* What append and append_signed write.  Nothing, when they raise (another
\* outcome or binding of that identity, a tip that moved) or when they find
\* all of it written already.
NewLines(lines, j) ==
  IF SameId(lines, j.id) = {} THEN
    IF j.previous # Tip(lines) THEN <<>>
    ELSE IF IsBinding(j) THEN <<OutcomeOf(j), j>> ELSE <<j>>
  ELSE IF IsBinding(j) /\ \A i \in SameId(lines, j.id) : lines[i] = OutcomeOf(j)
       THEN <<j>> ELSE <<>>

Record(c) ==
  /\ phase[c] = "record"
  /\ LedgerReads
  /\ ledger' = IF NewLines(ledger.lines, job[c]) = <<>> THEN ledger
               ELSE Extended(ledger, NewLines(ledger.lines, job[c]))
  /\ End(c)
  /\ UNCHANGED <<trustVars, interruptions>>

RecordInterrupted(c) ==
  /\ phase[c] = "record"
  /\ LedgerReads
  /\ interruptions < MaxInterruptions
  /\ interruptions' = interruptions + 1
  /\ ledger' \in Interrupted(ledger, NewLines(ledger.lines, job[c]))
  /\ End(c)
  /\ UNCHANGED trustVars

Next ==
  \/ Publish /\ UNCHANGED ledgerVars
  \/ \E c \in Signers :
       \/ \E id \in Ids, key \in Keys : StartSigned(c, id, key)
       \/ \E id \in Ids : StartUnsigned(c, id)
       \/ Build(c) \/ Record(c) \/ RecordInterrupted(c) \/ Abandon(c)

Spec == Init /\ [][Next]_vars
-----------------------------------------------------------------------------
(* Properties.                                                             *)

\* Mutation: the signing key is looked up in the newest state.
VerifiesAtTip(line) ==
  /\ Readable(history)
  /\ Recorded(line.state)
  /\ KeyActive(history.lines[Len(history.lines)], line.key)

\* verify_persisted_signed_reliability_outcome, with the history: the exact
\* state of the binding is found there, and its key is active in it.
Verifies(line) ==
  /\ Readable(history)
  /\ Recorded(line.state)
  /\ KeyActive(line.state, line.key)

BoundLines == {ledger.lines[i] : i \in {n \in 1..Len(ledger.lines) : IsBinding(ledger.lines[n])}}

\* Whatever signers race for the tip and wherever a write is interrupted,
\* the complete lines of the store are a chain its reader accepts, and only
\* an interrupted write leaves a line that does not parse.
LedgerReadable ==
  /\ ChainAccepted(ledger.lines)
  /\ interruptions = 0 => LedgerReads

\* "Persist one attestation and its signed trust binding atomically in one
\* append": without an interrupted write, every signed outcome is bound.
SignedOutcomesBound ==
  interruptions = 0 =>
    \A i \in 1..Len(ledger.lines) :
      ~IsBinding(ledger.lines[i]) /\ ledger.lines[i].key # NoKey =>
        \E line \in BoundLines : OutcomeOf(line) = ledger.lines[i]

\* The ledger reads back, and every signed outcome is bound.
LedgerSound == LedgerReadable /\ SignedOutcomesBound

\* Every recorded binding verifies as long as the history can be read: its
\* signer loaded a state that publishers may have moved on from, but that
\* state is in the history and its signing key is active there.
BindingsVerify ==
  Readable(history) => \A line \in BoundLines : Verifies(line)

\* "This allows an older attestation to remain verifiable after its signing
\* key has later been revoked or superseded": no step takes verifiability
\* away, except one that makes the history unreadable.
VerifiedStaysVerifiable ==
  [][\A line \in BoundLines :
       Verifies(line) /\ Readable(history)' =>
         line \in BoundLines' /\ Verifies(line)']_vars
=============================================================================
