-------------------------- MODULE ReliabilityHistory --------------------------
(***************************************************************************)
(* The authoritative reliability-state history: transitions of several     *)
(* subjects in one append-only store, each linked to the digest of its     *)
(* subject's previous one.  transition_reliability_state reads the current *)
(* state in one locked call and appends in another, so another writer, or  *)
(* the end of the process, may come between the two.                       *)
(*                                                                         *)
(* Two stores keep the history.  The SQLite store is Transactional.  The   *)
(* JSONL store is a file of lines: an append that is interrupted may leave *)
(* an incomplete line (torn) or a complete record without its newline      *)
(* (open), and every read first truncates a final line that does not       *)
(* parse.                                                                  *)
(*                                                                         *)
(* A digest is abstracted to a Mark: the position of a transition in its   *)
(* subject's chain with the content that can differ at that position.      *)
(* Only the last line of the file is ever lost, so what precedes a         *)
(* position is fixed and two marks are equal exactly if the digests are.   *)
(***************************************************************************)
EXTENDS Integers, Sequences, SequencesExt

CONSTANTS
  Clients,           \* callers of transition_reliability_state
  Subjects,
  Chains,            \* evidence chains: [id, state, decision, recovered]
  Actors,            \* the actor recorded with a transition
  Instants,          \* values of occurred_at
  Transactional,     \* TRUE: SQLite store, FALSE: JSONL store
  NoMark,            \* the empty previous digest
  NoSubject,
  NoJob,
  NoAnswer,
  MaxTransitions,    \* bound: transitions of one subject
  MaxInterruptions   \* bound: calls that stop before they return

States == {"unknown", "reliable", "degraded", "unreliable", "recovered"}

\* ALLOWED_TRANSITIONS
Allowed ==
  [unknown    |-> {"reliable", "degraded", "unreliable"},
   reliable   |-> {"degraded", "unreliable"},
   degraded   |-> {"reliable", "unreliable"},
   unreliable |-> {"recovered", "reliable", "degraded"},
   recovered  |-> {"reliable", "degraded", "unreliable"}]

Marks == [n : Nat \ {0}, chain : Chains, actor : Actors, when : Instants]
Transitions ==
  [from : States, chain : Chains, actor : Actors, when : Instants,
   prev : Marks \union {NoMark}]
Entries == [subject : Subjects, transition : Transitions]

ASSUME ConstantsAssumption ==
  /\ \A k \in Chains : k.state \in States
  /\ Transactional \in BOOLEAN
  /\ NoMark \notin Marks
  /\ NoSubject \notin Subjects
  /\ MaxTransitions \in Nat
  /\ MaxInterruptions \in Nat

VARIABLES
  history,        \* the transitions of each subject, in order
  open,           \* the subject whose last transition has no newline yet
  torn,           \* the file ends in bytes that do not parse
  spoiled,        \* a line in the middle does not parse: every read raises
  pc,             \* the step each client is at
  job,            \* the transition it is about to append, and its subject
  answer,         \* what its last successful call returned
  interruptions

store == <<history, open, torn, spoiled>>
vars == <<history, open, torn, spoiled, pc, job, answer, interruptions>>

TypeOK ==
  /\ history \in [Subjects -> Seq(Transitions)]
  /\ open \in Subjects \union {NoSubject}
  /\ torn \in BOOLEAN
  /\ spoiled \in BOOLEAN
  /\ pc \in [Clients -> {"idle", "reread", "append"}]
  /\ job \in [Clients -> Entries \union {NoJob}]
  /\ \A c \in Clients : pc[c] # "idle" => job[c] \in Entries
  /\ answer \in [Clients -> Entries \union {NoAnswer}]
  /\ interruptions \in 0..MaxInterruptions

Init ==
  /\ history = [s \in Subjects |-> <<>>]
  /\ open = NoSubject
  /\ torn = FALSE
  /\ spoiled = FALSE
  /\ pc = [c \in Clients |-> "idle"]
  /\ job = [c \in Clients |-> NoJob]
  /\ answer = [c \in Clients |-> NoAnswer]
  /\ interruptions = 0

-----------------------------------------------------------------------------
(* Reading.                                                                *)

\* current_reliability_state, as of the first i transitions.
StateAt(h, i) == IF i = 0 THEN "unknown" ELSE h[i].chain.state
StateAfter(h) == StateAt(h, Len(h))

\* Mutation: positions are counted from zero.
MarkFromZero(h, i) ==
  IF i = 0 THEN NoMark
  ELSE [n |-> i - 1, chain |-> h[i].chain, actor |-> h[i].actor, when |-> h[i].when]

\* The digest of the i-th transition, "" before the first.
MarkAt(h, i) ==
  IF i = 0 THEN NoMark
  ELSE [n |-> i, chain |-> h[i].chain, actor |-> h[i].actor, when |-> h[i].when]
MarkAfter(h) == MarkAt(h, Len(h))

\* Mutation: every unterminated final record is taken for a partial one.
RecoveredWithoutOpen(s) ==
  IF open = s THEN Front(history[s]) ELSE history[s]

\* _recover_partial_tail: a final line that does not parse is cut off, with
\* the complete record that started it, if any.
Recovered(s) ==
  IF torn /\ open = s THEN Front(history[s])
  ELSE history[s]

\* Every read of the JSONL store, under its lock, repairs the tail first.
ReadStore ==
  /\ history' = [s \in Subjects |-> Recovered(s)]
  /\ open' = IF torn THEN NoSubject ELSE open
  /\ torn' = FALSE

\* A read by anyone, and a request refused before it reaches the store.
Inspect ==
  /\ torn
  /\ ReadStore
  /\ UNCHANGED <<spoiled, pc, job, answer, interruptions>>

-----------------------------------------------------------------------------
(* transition_reliability_state                                            *)

\* The decision of the chain and the conditions of recovery.
DecisionFor(state) ==
  CASE state \in {"reliable", "recovered"} -> "accept"
    [] state = "degraded" -> "review"
    [] OTHER -> "reject"

\* Mutation: the target is not compared with ALLOWED_TRANSITIONS.
AcceptableByDecision(k, current) == k.decision = DecisionFor(k.state)

Acceptable(k, current) ==
  /\ k.state \in Allowed[current]
  /\ k.decision = DecisionFor(k.state)
  /\ k.state = "recovered" => k.recovered

\* The same chain already produced the current state.
AlreadyThere(h, k) ==
  /\ h # <<>>
  /\ h[Len(h)].chain.state = k.state
  /\ h[Len(h)].chain.id = k.id

\* The first read, and everything decided from it.
Request(c, s, k, actor, when) ==
  LET h == Recovered(s)
  IN  /\ pc[c] = "idle"
      /\ ~spoiled
      /\ ReadStore
      /\ \/ AlreadyThere(h, k) /\ pc' = [pc EXCEPT ![c] = "reread"]
         \/ /\ ~AlreadyThere(h, k)
            /\ Acceptable(k, StateAfter(h))
            /\ Len(h) < MaxTransitions
            /\ pc' = [pc EXCEPT ![c] = "append"]
      /\ job' = [job EXCEPT ![c] =
                   [subject |-> s,
                    transition |-> [from |-> StateAfter(h), chain |-> k,
                                    actor |-> actor, when |-> when,
                                    prev |-> MarkAfter(h)]]]
      /\ UNCHANGED <<spoiled, answer, interruptions>>

Return(c, transition) ==
  /\ pc' = [pc EXCEPT ![c] = "idle"]
  /\ job' = [job EXCEPT ![c] = NoJob]
  /\ answer' = [answer EXCEPT ![c] = [subject |-> job[c].subject,
                                      transition |-> transition]]

Raise(c) ==
  /\ pc' = [pc EXCEPT ![c] = "idle"]
  /\ job' = [job EXCEPT ![c] = NoJob]
  /\ UNCHANGED answer

\* `history = store.read(subject_id); return history[-1]`
Reread(c) ==
  LET h == Recovered(job[c].subject)
  IN  /\ pc[c] = "reread"
      /\ ReadStore
      /\ IF spoiled \/ h = <<>> THEN Raise(c) ELSE Return(c, h[Len(h)])
      /\ UNCHANGED <<spoiled, interruptions>>

\* transition_id is a digest of the previous digest, the chain and the time,
\* not of the actor.
SameId(t, u) == t.prev = u.prev /\ t.chain = u.chain /\ t.when = u.when

Known(h, t) == \E i \in 1..Len(h) : SameId(h[i], t)

\* Mutation: a stored transition of that identity is taken for the caller's.
AppendFindsIdentity(c) ==
  LET h == Recovered(job[c].subject)
  IN  /\ pc[c] = "append"
      /\ ~spoiled
      /\ Known(h, job[c].transition)
      /\ ReadStore
      /\ Return(c, job[c].transition)
      /\ UNCHANGED <<spoiled, interruptions>>

\* append() finds the transition already stored.
AppendFinds(c) ==
  LET h == Recovered(job[c].subject)
  IN  /\ pc[c] = "append"
      /\ ~spoiled
      /\ Known(h, job[c].transition)
      /\ ReadStore
      /\ \E i \in 1..Len(h) :
           /\ SameId(h[i], job[c].transition)
           /\ IF h[i] = job[c].transition THEN Return(c, h[i]) ELSE Raise(c)
      /\ UNCHANGED <<spoiled, interruptions>>

\* Mutation: the tip is not compared.
FromStateFits(h, t) == h # <<>> => t.from = StateAfter(h)

\* The checks of append(): the tip is the one that was read, and the new
\* transition starts where the previous one ended.
Fits(h, t) ==
  /\ t.prev = MarkAfter(h)
  /\ h # <<>> => t.from = StateAfter(h)

\* append() refuses a stale tip, or the history does not parse any more.
AppendRefused(c) ==
  LET h == Recovered(job[c].subject)
  IN  /\ pc[c] = "append"
      /\ spoiled \/ (~Known(h, job[c].transition) /\ ~Fits(h, job[c].transition))
      /\ ReadStore
      /\ Raise(c)
      /\ UNCHANGED <<spoiled, interruptions>>

\* append() reaches its write.
Writing(c) ==
  LET h == Recovered(job[c].subject)
  IN  /\ pc[c] = "append"
      /\ ~spoiled
      /\ ~Known(h, job[c].transition)
      /\ Fits(h, job[c].transition)

\* The tail the write starts from: an open record, unless it was cut off.
OpenTail == IF torn THEN NoSubject ELSE open

Extended(s, t) ==
  [r \in Subjects |-> IF r = s THEN Append(Recovered(r), t) ELSE Recovered(r)]

\* The whole line is written: a record of its own, or the second half of a
\* line that no read will ever parse.
WriteLine(c) ==
  /\ IF OpenTail = NoSubject
     THEN /\ history' = Extended(job[c].subject, job[c].transition)
          /\ UNCHANGED spoiled
     ELSE /\ history' = [s \in Subjects |-> Recovered(s)]
          /\ spoiled' = TRUE
  /\ open' = NoSubject
  /\ torn' = FALSE

AppendWrites(c) ==
  /\ Writing(c)
  /\ WriteLine(c)
  /\ Return(c, job[c].transition)
  /\ UNCHANGED interruptions

-----------------------------------------------------------------------------
(* Interruptions: the process stops, or a write fails.                     *)

Interrupt(c) ==
  /\ interruptions < MaxInterruptions
  /\ interruptions' = interruptions + 1
  /\ Raise(c)

\* Nothing reached the store.
Stop(c) ==
  /\ pc[c] # "idle"
  /\ Interrupt(c)
  /\ UNCHANGED store

\* Everything reached the store, nobody was told.
StopAfterWrite(c) ==
  /\ Writing(c)
  /\ WriteLine(c)
  /\ Interrupt(c)

\* Part of the line reached the file; after an open record, the whole
\* record without its newline is no better.
TearLine(c) ==
  /\ ~Transactional
  /\ Writing(c)
  /\ history' = [s \in Subjects |-> Recovered(s)]
  /\ open' = OpenTail
  /\ torn' = TRUE
  /\ Interrupt(c)
  /\ UNCHANGED spoiled

\* Everything but the newline reached the file.
LeaveLineOpen(c) ==
  /\ ~Transactional
  /\ Writing(c)
  /\ OpenTail = NoSubject
  /\ history' = Extended(job[c].subject, job[c].transition)
  /\ open' = job[c].subject
  /\ torn' = FALSE
  /\ Interrupt(c)
  /\ UNCHANGED spoiled

Next ==
  \/ Inspect
  \/ \E c \in Clients :
       \/ \E s \in Subjects, k \in Chains, actor \in Actors, when \in Instants :
            Request(c, s, k, actor, when)
       \/ Reread(c)
       \/ AppendFinds(c) \/ AppendRefused(c) \/ AppendWrites(c)
       \/ Stop(c) \/ StopAfterWrite(c) \/ TearLine(c) \/ LeaveLineOpen(c)

Spec == Init /\ [][Next]_vars
-----------------------------------------------------------------------------
(* Properties.                                                             *)

WellFormed(h) ==
  \A i \in 1..Len(h) :
    /\ h[i].prev = MarkAt(h, i - 1)
    /\ h[i].from = StateAt(h, i - 1)
    /\ h[i].chain.state \in Allowed[h[i].from]

\* Every stored chain is one the reader accepts and the state machine
\* allows, whoever raced to append: each transition is linked to the digest
\* of the one before it, starts in the state that one ended in, and moves
\* along ALLOWED_TRANSITIONS.
ChainsWellFormed ==
  \A s \in Subjects : WellFormed(history[s])

\* "A valid record is preserved; only an actually malformed final record is
\* truncated": no step takes a transition out of the history, except the
\* truncation of a final line that is malformed as a whole.
ValidRecordsKept ==
  [][\A s \in Subjects :
       (torn /\ open = s) \/ IsPrefix(history[s], history'[s])]_vars

\* A transition that a call returned is part of the history that every later
\* read returns.
AnswersInHistory ==
  \A c \in Clients :
    answer[c] # NoAnswer =>
      /\ ~spoiled
      /\ \E i \in 1..Len(history[answer[c].subject]) :
           history[answer[c].subject][i] = answer[c].transition

\* The current state of every subject follows the abstract register.
Register == INSTANCE ReliabilityRegister
              WITH state <- [s \in Subjects |-> StateAfter(history[s])]
RegisterSpec == Register!Spec
=============================================================================
