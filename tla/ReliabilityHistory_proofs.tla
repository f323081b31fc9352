---------------------- MODULE ReliabilityHistory_proofs ----------------------
(***************************************************************************)
(* Proofs about ReliabilityHistory for every set of clients, subjects and  *)
(* chains, for both stores and any number of interruptions.                *)
(***************************************************************************)
EXTENDS ReliabilityHistory, SequenceTheorems, TLAPS

\* What a pending append relies on: its chain is allowed from the state it
\* read, and it read "unknown" if it read no transition.  append() itself
\* compares from_state only when there is a previous transition, so the
\* second part is the service's to keep.
PendingFits ==
  \A c \in Clients :
    pc[c] = "append" =>
      LET t == job[c].transition
      IN  /\ t.chain.state \in Allowed[t.from]
          /\ t.prev = NoMark => t.from = "unknown"

IInv == TypeOK /\ ChainsWellFormed /\ PendingFits

-----------------------------------------------------------------------------
(* Chains of transitions.                                                  *)

\* The current state of a history is a state, its tip a mark or no mark.
LEMMA TipType ==
  ASSUME NEW h \in Seq(Transitions)
  PROVE  /\ StateAfter(h) \in States
         /\ MarkAfter(h) \in Marks \union {NoMark}
         /\ MarkAfter(h) = NoMark => StateAfter(h) = "unknown"
<1>1. CASE Len(h) = 0
  BY <1>1 DEF StateAfter, StateAt, MarkAfter, MarkAt, States
<1>2. CASE Len(h) # 0
  <2>1. Len(h) \in Nat \ {0} /\ h[Len(h)] \in Transitions
    BY <1>2
  <2>2. MarkAfter(h) \in Marks
    BY <1>2, <2>1 DEF MarkAfter, MarkAt, Marks, Transitions
  <2>3. StateAfter(h) \in States
    BY <1>2, <2>1, ConstantsAssumption DEF StateAfter, StateAt, Transitions
  <2>. QED
    BY <2>2, <2>3, ConstantsAssumption
<1>. QED
  BY <1>1, <1>2

\* The first k elements of a sequence.
LEMMA PrefixProperties ==
  ASSUME NEW T, NEW h \in Seq(T), NEW k \in 0..Len(h)
  PROVE  /\ SubSeq(h, 1, k) \in Seq(T)
         /\ Len(SubSeq(h, 1, k)) = k
         /\ \A i \in 1..k : SubSeq(h, 1, k)[i] = h[i]
<1>1. /\ SubSeq(h, 1, k) \in Seq(T)
      /\ Len(SubSeq(h, 1, k)) = IF 1 <= k THEN k - 1 + 1 ELSE 0
      /\ \A i \in 1..(k - 1 + 1) : SubSeq(h, 1, k)[i] = h[1 + i - 1]
  BY SubSeqProperties
<1>. QED
  BY <1>1

\* A sequence is a prefix of itself and of itself with one more element.
LEMMA PrefixOfAppend ==
  ASSUME NEW T, NEW h \in Seq(T)
  PROVE  /\ IsPrefix(h, h)
         /\ \A t \in T : IsPrefix(h, Append(h, t))
BY DEF IsPrefix

\* Cutting off the last transition leaves a well-formed chain.
LEMMA FrontWellFormed ==
  ASSUME NEW h \in Seq(Transitions), h # <<>>, WellFormed(h)
  PROVE  Front(h) \in Seq(Transitions) /\ WellFormed(Front(h))
<1> DEFINE g == Front(h)
<1>1. Len(h) \in Nat /\ Len(h) >= 1
  OBVIOUS
<1>2. /\ g \in Seq(Transitions)
      /\ Len(g) = Len(h) - 1
      /\ \A i \in 1..Len(h) - 1 : g[i] = h[i]
  <2> DEFINE k == Len(h) - 1
  <2>1. k \in 0..Len(h) /\ Front(h) = SubSeq(h, 1, k)
    BY <1>1 DEF Front
  <2> HIDE DEF k
  <2>2. /\ SubSeq(h, 1, k) \in Seq(Transitions)
        /\ Len(SubSeq(h, 1, k)) = k
        /\ \A i \in 1..k : SubSeq(h, 1, k)[i] = h[i]
    BY <2>1, PrefixProperties
  <2>3. /\ g \in Seq(Transitions)
        /\ Len(g) = k
        /\ \A i \in 1..k : g[i] = h[i]
    BY <2>1, <2>2
  <2>. QED
    BY <2>3 DEF k
<1> HIDE DEF g
<1>3. ASSUME NEW i \in 1..Len(g)
      PROVE  /\ g[i].prev = MarkAt(g, i - 1)
             /\ g[i].from = StateAt(g, i - 1)
             /\ g[i].chain.state \in Allowed[g[i].from]
  <2>1. g[i] = h[i] /\ i \in 1..Len(h) /\ (i - 1 = 0 \/ g[i - 1] = h[i - 1])
    BY <1>1, <1>2
  <2>. QED
    BY <2>1 DEF WellFormed, MarkAt, StateAt
<1>. QED
  BY <1>2, <1>3 DEF WellFormed, g

\* A transition that fits the tip extends a well-formed chain.
LEMMA AppendWellFormed ==
  ASSUME NEW h \in Seq(Transitions), WellFormed(h),
         NEW t \in Transitions, Fits(h, t),
         t.chain.state \in Allowed[t.from],
         t.prev = NoMark => t.from = "unknown"
  PROVE  Append(h, t) \in Seq(Transitions) /\ WellFormed(Append(h, t))
<1> DEFINE g == Append(h, t)
<1>1. /\ g \in Seq(Transitions)
      /\ Len(g) = Len(h) + 1
      /\ \A i \in 1..Len(h) : g[i] = h[i]
      /\ g[Len(h) + 1] = t
  OBVIOUS
<1>2. t.prev = MarkAfter(h) /\ t.from = StateAfter(h)
  <2>1. CASE h = <<>>
    BY <2>1 DEF Fits, MarkAfter, MarkAt, StateAfter, StateAt
  <2>2. CASE h # <<>>
    BY <2>2 DEF Fits
  <2>. QED
    BY <2>1, <2>2
<1> HIDE DEF g
<1>3. ASSUME NEW i \in 1..Len(g)
      PROVE  /\ g[i].prev = MarkAt(g, i - 1)
             /\ g[i].from = StateAt(g, i - 1)
             /\ g[i].chain.state \in Allowed[g[i].from]
  <2>1. CASE i \in 1..Len(h)
    <3>1. g[i] = h[i] /\ (i - 1 = 0 \/ g[i - 1] = h[i - 1])
      BY <1>1, <2>1
    <3>. QED
      BY <2>1, <3>1 DEF WellFormed, MarkAt, StateAt
  <2>2. CASE i = Len(h) + 1
    BY <1>1, <1>2, <2>2 DEF MarkAfter, StateAfter, MarkAt, StateAt
  <2>. QED
    BY <1>1, <2>1, <2>2
<1>. QED
  BY <1>1, <1>3 DEF WellFormed, g

\* What a read returns is a well-formed chain.
LEMMA RecoveredWellFormed ==
  ASSUME TypeOK, ChainsWellFormed, NEW s \in Subjects
  PROVE  Recovered(s) \in Seq(Transitions) /\ WellFormed(Recovered(s))
<1>1. history[s] \in Seq(Transitions) /\ WellFormed(history[s])
  BY DEF TypeOK, ChainsWellFormed
<1>2. CASE history[s] = <<>>
  <2>1. Front(history[s]) = <<>>
    BY <1>2 DEF Front
  <2>. QED
    BY <1>1, <1>2, <2>1 DEF Recovered
<1>3. CASE history[s] # <<>>
  BY <1>1, <1>3, FrontWellFormed DEF Recovered
<1>. QED
  BY <1>2, <1>3

-----------------------------------------------------------------------------
(* Steps.                                                                  *)

\* The part of the invariant that speaks of the store.
StoreOK ==
  /\ history \in [Subjects -> Seq(Transitions)]
  /\ open \in Subjects \union {NoSubject}
  /\ torn \in BOOLEAN
  /\ ChainsWellFormed

\* Repairing the tail keeps the chains of the others and shortens one.
LEMMA ReadStoreOK == TypeOK /\ ChainsWellFormed /\ ReadStore => StoreOK'
<1> SUFFICES ASSUME TypeOK, ChainsWellFormed, ReadStore PROVE StoreOK'
  OBVIOUS
<1>1. /\ history' \in [Subjects -> Seq(Transitions)]
      /\ \A s \in Subjects : WellFormed(history'[s])
  BY RecoveredWellFormed DEF ReadStore
<1>2. (open \in Subjects \union {NoSubject} /\ torn \in BOOLEAN)'
  BY DEF ReadStore, TypeOK
<1>. QED
  BY <1>1, <1>2 DEF StoreOK, ChainsWellFormed

\* The transition a pending append is about to write fits its chain.
LEMMA WritingWellFormed ==
  ASSUME IInv, NEW c \in Clients, Writing(c)
  PROVE  /\ job[c].subject \in Subjects
         /\ job[c].transition \in Transitions
         /\ Append(Recovered(job[c].subject), job[c].transition)
              \in Seq(Transitions)
         /\ WellFormed(Append(Recovered(job[c].subject), job[c].transition))
<1> DEFINE t == job[c].transition
           h == Recovered(job[c].subject)
<1>1. job[c].subject \in Subjects /\ t \in Transitions
  BY DEF IInv, TypeOK, Writing, Entries
<1>2. h \in Seq(Transitions) /\ WellFormed(h)
  BY <1>1, RecoveredWellFormed DEF IInv
<1>3. /\ Fits(h, t)
      /\ t.chain.state \in Allowed[t.from]
      /\ t.prev = NoMark => t.from = "unknown"
  BY DEF Writing, IInv, PendingFits
<1>. QED
  BY <1>1, <1>2, <1>3, AppendWellFormed

\* A write extends one chain with the transition that fits it.
LEMMA ExtendedOK ==
  ASSUME IInv, NEW c \in Clients, Writing(c)
  PROVE  /\ Extended(job[c].subject, job[c].transition)
              \in [Subjects -> Seq(Transitions)]
         /\ \A s \in Subjects :
              WellFormed(Extended(job[c].subject, job[c].transition)[s])
<1> DEFINE q == job[c].subject
           f == Extended(q, job[c].transition)
<1>1. ASSUME NEW s \in Subjects
      PROVE  f[s] \in Seq(Transitions) /\ WellFormed(f[s])
  <2>1. CASE s = q
    BY <2>1, WritingWellFormed DEF Extended
  <2>2. CASE s # q
    BY <2>2, RecoveredWellFormed DEF Extended, IInv
  <2>. QED
    BY <2>1, <2>2
<1>. QED
  BY <1>1 DEF Extended

LEMMA WriteLineOK ==
  ASSUME IInv, NEW c \in Clients, Writing(c), WriteLine(c)
  PROVE  StoreOK' /\ spoiled' \in BOOLEAN
<1>1. /\ history' \in [Subjects -> Seq(Transitions)]
      /\ \A s \in Subjects : WellFormed(history'[s])
  <2>1. CASE OpenTail = NoSubject
    BY <2>1, ExtendedOK DEF WriteLine
  <2>2. CASE OpenTail # NoSubject
    BY <2>2, RecoveredWellFormed DEF WriteLine, IInv
  <2>. QED
    BY <2>1, <2>2
<1>. QED
  BY <1>1 DEF StoreOK, ChainsWellFormed, WriteLine, IInv, TypeOK

\* What a client waits to append, and what it was answered.
ClientsOK ==
  /\ pc \in [Clients -> {"idle", "reread", "append"}]
  /\ job \in [Clients -> Entries \union {NoJob}]
  /\ \A c \in Clients : pc[c] # "idle" => job[c] \in Entries
  /\ answer \in [Clients -> Entries \union {NoAnswer}]
  /\ PendingFits

\* A call that ends leaves the other calls as they were.
LEMMA EndOK ==
  ASSUME IInv, NEW c \in Clients,
         \/ Raise(c)
         \/ /\ job[c].subject \in Subjects
            /\ \E t \in Transitions : Return(c, t)
  PROVE  ClientsOK'
<1>1. /\ pc' = [pc EXCEPT ![c] = "idle"]
      /\ job' = [job EXCEPT ![c] = NoJob]
  BY DEF Raise, Return
<1>2. (answer \in [Clients -> Entries \union {NoAnswer}])'
  BY DEF Raise, Return, IInv, TypeOK, Entries
<1>3. ASSUME NEW e \in Clients, pc'[e] # "idle"
      PROVE  e # c /\ pc'[e] = pc[e] /\ job'[e] = job[e]
  BY <1>1, <1>3 DEF IInv, TypeOK
<1>4. /\ (pc \in [Clients -> {"idle", "reread", "append"}])'
      /\ (job \in [Clients -> Entries \union {NoJob}])'
  BY <1>1 DEF IInv, TypeOK
<1>5. PendingFits'
  BY <1>3 DEF PendingFits, IInv
<1>. QED
  BY <1>2, <1>3, <1>4, <1>5 DEF ClientsOK, IInv, TypeOK

\* A request that passed the checks waits with a transition they admit.
LEMMA RequestOK ==
  ASSUME IInv, NEW c \in Clients, NEW s \in Subjects, NEW k \in Chains,
         NEW actor \in Actors, NEW when \in Instants,
         Request(c, s, k, actor, when)
  PROVE  ClientsOK'
<1> DEFINE h == Recovered(s)
           t == [from |-> StateAfter(h), chain |-> k, actor |-> actor,
                 when |-> when, prev |-> MarkAfter(h)]
<1>1. h \in Seq(Transitions)
  BY RecoveredWellFormed DEF IInv
<1>2. /\ StateAfter(h) \in States
      /\ MarkAfter(h) \in Marks \union {NoMark}
      /\ MarkAfter(h) = NoMark => StateAfter(h) = "unknown"
  BY <1>1, TipType
<1>3. t \in Transitions
  BY <1>2 DEF Transitions
<1>4. job' = [job EXCEPT ![c] = [subject |-> s, transition |-> t]]
  BY DEF Request
<1>5. [subject |-> s, transition |-> t] \in Entries
  BY <1>3 DEF Entries
<1>6. /\ \/ pc' = [pc EXCEPT ![c] = "reread"]
         \/ Acceptable(k, StateAfter(h)) /\ pc' = [pc EXCEPT ![c] = "append"]
      /\ UNCHANGED answer
  BY DEF Request
<1>7. (pc \in [Clients -> {"idle", "reread", "append"}])'
  BY <1>6 DEF IInv, TypeOK
<1>8. (/\ job \in [Clients -> Entries \union {NoJob}]
       /\ \A e \in Clients : pc[e] # "idle" => job[e] \in Entries)'
  BY <1>4, <1>5, <1>6 DEF IInv, TypeOK
<1>9. ASSUME NEW e \in Clients, pc'[e] = "append"
      PROVE  /\ job'[e].transition.chain.state
                  \in Allowed[job'[e].transition.from]
             /\ job'[e].transition.prev = NoMark
                  => job'[e].transition.from = "unknown"
  <2>1. CASE e = c
    <3>1. job'[e].transition = t
      BY <1>4, <2>1 DEF IInv, TypeOK
    <3>2. k.state \in Allowed[StateAfter(h)]
      BY <1>6, <1>9, <2>1 DEF IInv, TypeOK, Acceptable
    <3>. QED
      BY <1>2, <3>1, <3>2
  <2>2. CASE e # c
    BY <1>4, <1>6, <1>9, <2>2 DEF IInv, TypeOK, PendingFits
  <2>. QED
    BY <2>1, <2>2
<1>. QED
  BY <1>6, <1>7, <1>8, <1>9 DEF ClientsOK, PendingFits, IInv, TypeOK

\* Every step keeps the invariant.
LEMMA InvStep == IInv /\ [Next]_vars => IInv'
<1> SUFFICES ASSUME IInv, [Next]_vars PROVE IInv'
  OBVIOUS
<1>a. ASSUME StoreOK', ClientsOK', (spoiled \in BOOLEAN)',
             (interruptions \in 0..MaxInterruptions)'
      PROVE  IInv'
  BY <1>a DEF IInv, TypeOK, StoreOK, ClientsOK
<1>b. ASSUME UNCHANGED <<pc, job, answer>> PROVE ClientsOK'
  BY <1>b DEF ClientsOK, IInv, TypeOK, PendingFits
<1>c. ASSUME NEW c \in Clients, Interrupt(c) PROVE
        /\ ClientsOK'
        /\ (interruptions \in 0..MaxInterruptions)'
  BY <1>c, EndOK, ConstantsAssumption DEF Interrupt, IInv, TypeOK
<1>d. /\ spoiled \in BOOLEAN
      /\ interruptions \in 0..MaxInterruptions
  BY DEF IInv, TypeOK
<1>0. CASE UNCHANGED vars
  BY <1>0 DEF vars, IInv, TypeOK, ChainsWellFormed, PendingFits
<1>1. CASE Inspect
  BY <1>1, <1>a, <1>b, <1>d, ReadStoreOK DEF Inspect, IInv
<1>2. ASSUME NEW c \in Clients, NEW s \in Subjects, NEW k \in Chains,
             NEW actor \in Actors, NEW when \in Instants,
             Request(c, s, k, actor, when)
      PROVE  IInv'
  BY <1>2, <1>a, <1>d, ReadStoreOK, RequestOK DEF Request, IInv
<1>3. ASSUME NEW c \in Clients, Reread(c) PROVE IInv'
  <2> DEFINE h == Recovered(job[c].subject)
  <2>1. job[c].subject \in Subjects /\ h \in Seq(Transitions)
    BY <1>3, RecoveredWellFormed DEF Reread, IInv, TypeOK, Entries
  <2>2. h # <<>> => h[Len(h)] \in Transitions
    BY <2>1
  <2>3. \/ Raise(c)
        \/ \E t \in Transitions : Return(c, t)
    BY <1>3, <2>2 DEF Reread
  <2>. QED
    BY <1>3, <1>a, <1>d, <2>1, <2>3, EndOK, ReadStoreOK DEF Reread, IInv
<1>4. ASSUME NEW c \in Clients, AppendFinds(c) PROVE IInv'
  <2> DEFINE h == Recovered(job[c].subject)
  <2>1. job[c].subject \in Subjects /\ h \in Seq(Transitions)
    BY <1>4, RecoveredWellFormed DEF AppendFinds, IInv, TypeOK, Entries
  <2>2. \A i \in 1..Len(h) : h[i] \in Transitions
    BY <2>1
  <2>3. \/ Raise(c)
        \/ \E t \in Transitions : Return(c, t)
    BY <1>4, <2>2 DEF AppendFinds
  <2>. QED
    BY <1>4, <1>a, <1>d, <2>1, <2>3, EndOK, ReadStoreOK DEF AppendFinds, IInv
<1>5. ASSUME NEW c \in Clients, AppendRefused(c) PROVE IInv'
  BY <1>5, <1>a, <1>d, EndOK, ReadStoreOK DEF AppendRefused, IInv
<1>6. ASSUME NEW c \in Clients, AppendWrites(c) PROVE IInv'
  <2>1. job[c].subject \in Subjects /\ job[c].transition \in Transitions
    BY <1>6, WritingWellFormed DEF AppendWrites
  <2>2. ClientsOK'
    BY <1>6, <2>1, EndOK DEF AppendWrites
  <2>. QED
    BY <1>6, <1>a, <1>d, <2>2, WriteLineOK DEF AppendWrites
<1>7. ASSUME NEW c \in Clients, Stop(c) PROVE IInv'
  <2>1. StoreOK'
    BY <1>7 DEF Stop, store, StoreOK, IInv, TypeOK, ChainsWellFormed
  <2>. QED
    BY <1>7, <1>a, <1>c, <1>d, <2>1 DEF Stop, store
<1>8. ASSUME NEW c \in Clients, StopAfterWrite(c) PROVE IInv'
  BY <1>8, <1>a, <1>c, WriteLineOK DEF StopAfterWrite
<1>9. ASSUME NEW c \in Clients, TearLine(c) PROVE IInv'
  <2>1. StoreOK'
    BY <1>9, RecoveredWellFormed
       DEF TearLine, OpenTail, StoreOK, ChainsWellFormed, IInv, TypeOK
  <2>. QED
    BY <1>9, <1>a, <1>c, <1>d, <2>1 DEF TearLine
<1>10. ASSUME NEW c \in Clients, LeaveLineOpen(c) PROVE IInv'
  <2>1. StoreOK'
    BY <1>10, ExtendedOK, WritingWellFormed
       DEF LeaveLineOpen, StoreOK, ChainsWellFormed
  <2>. QED
    BY <1>10, <1>a, <1>c, <1>d, <2>1 DEF LeaveLineOpen
<1>. QED
  BY <1>0, <1>1, <1>2, <1>3, <1>4, <1>5, <1>6, <1>7, <1>8, <1>9, <1>10
  DEF Next

LEMMA InitIInv == Init => IInv
<1> SUFFICES ASSUME Init PROVE IInv
  OBVIOUS
<1>1. \A s \in Subjects : history[s] = <<>>
  BY DEF Init
<1>2. history \in [Subjects -> Seq(Transitions)]
  BY DEF Init
<1>3. TypeOK
  <2>1. torn \in BOOLEAN /\ spoiled \in BOOLEAN
    BY DEF Init
  <2>2. /\ pc \in [Clients -> {"idle", "reread", "append"}]
        /\ job \in [Clients -> Entries \union {NoJob}]
        /\ answer \in [Clients -> Entries \union {NoAnswer}]
        /\ \A c \in Clients : pc[c] # "idle" => job[c] \in Entries
    BY DEF Init
  <2>3. interruptions \in 0..MaxInterruptions /\ open \in Subjects \union {NoSubject}
    BY ConstantsAssumption DEF Init
  <2>. QED
    BY <1>2, <2>1, <2>2, <2>3 DEF TypeOK
<1>4. ChainsWellFormed
  BY <1>1 DEF ChainsWellFormed, WellFormed
<1>5. PendingFits
  BY DEF Init, PendingFits
<1>. QED
  BY <1>3, <1>4, <1>5 DEF IInv

\* Every stored chain links, continues and moves as the readers and the
\* state machine demand, on either store, however calls race or stop.
THEOREM ChainsAlwaysWellFormed == Spec => []ChainsWellFormed
<1>1. IInv => ChainsWellFormed
  BY DEF IInv
<1>. QED
  BY InitIInv, InvStep, <1>1, PTL DEF Spec

\* Every reachable state is well typed.
THEOREM TypeCorrect == Spec => []TypeOK
<1>1. IInv => TypeOK
  BY DEF IInv
<1>. QED
  BY InitIInv, InvStep, <1>1, PTL DEF Spec

-----------------------------------------------------------------------------
(* The tail of the file.                                                   *)

\* Only the truncation of a malformed final line takes a transition away.
THEOREM OnlyMalformedTailCut == Spec => ValidRecordsKept
<1> DEFINE Kept == \A s \in Subjects :
                     (torn /\ open = s) \/ IsPrefix(history[s], history'[s])
<1>1. IInv /\ [Next]_vars => Kept
  <2> SUFFICES ASSUME IInv, [Next]_vars, NEW s \in Subjects,
                      ~(torn /\ open = s)
               PROVE  IsPrefix(history[s], history'[s])
    OBVIOUS
  <2>1. history[s] \in Seq(Transitions) /\ Recovered(s) = history[s]
    BY DEF IInv, TypeOK, Recovered
  <2>2. \/ history'[s] = history[s]
        \/ \E t \in Transitions : history'[s] = Append(history[s], t)
    <3>1. CASE UNCHANGED vars
      BY <3>1 DEF vars
    <3>2. ASSUME ReadStore PROVE history'[s] = history[s]
      BY <2>1, <3>2 DEF ReadStore
    <3>3. ASSUME NEW c \in Clients, Writing(c),
                 history' = Extended(job[c].subject, job[c].transition)
          PROVE  \/ history'[s] = history[s]
                 \/ \E t \in Transitions : history'[s] = Append(history[s], t)
      BY <2>1, <3>3, WritingWellFormed DEF Extended
    <3>4. ASSUME NEW c \in Clients, Writing(c), WriteLine(c)
          PROVE  \/ history'[s] = history[s]
                 \/ \E t \in Transitions : history'[s] = Append(history[s], t)
      BY <2>1, <3>3, <3>4 DEF WriteLine
    <3>5. ASSUME NEW c \in Clients,
                 Reread(c) \/ AppendFinds(c) \/ AppendRefused(c)
          PROVE  ReadStore
      BY <3>5 DEF Reread, AppendFinds, AppendRefused
    <3>6. CASE Next
      BY <2>1, <3>2, <3>3, <3>4, <3>5, <3>6
         DEF Next, Inspect, Request, AppendWrites, Stop, StopAfterWrite,
             TearLine, LeaveLineOpen, store
    <3>. QED
      BY <3>1, <3>6
  <2>. QED
    BY <2>1, <2>2, PrefixOfAppend
<1>. QED
  BY InitIInv, InvStep, <1>1, PTL DEF Spec, ValidRecordsKept

-----------------------------------------------------------------------------
(* The transactional store.                                                *)

\* There is no tail to repair, and every answer stays in the history.
CleanStore == ~torn /\ ~spoiled /\ open = NoSubject

TInv == IInv /\ CleanStore /\ AnswersInHistory

\* On a clean store a step leaves the history alone or commits one pending
\* transition.
LEMMA TransactionalStep ==
  ASSUME Transactional, IInv, CleanStore, [Next]_vars
  PROVE  /\ CleanStore'
         /\ \/ UNCHANGED history
            \/ \E c \in Clients :
                 /\ Writing(c)
                 /\ history' = Extended(job[c].subject, job[c].transition)
<1>1. \A s \in Subjects : Recovered(s) = history[s]
  BY DEF Recovered, CleanStore
<1>2. [s \in Subjects |-> Recovered(s)] = history
  BY <1>1 DEF IInv, TypeOK
<1>3. OpenTail = NoSubject
  BY DEF OpenTail, CleanStore
<1>4. CASE UNCHANGED vars
  BY <1>4 DEF vars, CleanStore
<1>5. ASSUME ReadStore, UNCHANGED spoiled
      PROVE  CleanStore' /\ UNCHANGED history
  BY <1>2, <1>5 DEF ReadStore, CleanStore
<1>6. ASSUME NEW c \in Clients, Writing(c), WriteLine(c)
      PROVE  /\ CleanStore'
             /\ history' = Extended(job[c].subject, job[c].transition)
  BY <1>3, <1>6 DEF WriteLine, CleanStore
<1>7. ASSUME NEW c \in Clients, NEW s, NEW k, NEW actor, NEW when,
             \/ Request(c, s, k, actor, when) \/ Reread(c)
             \/ AppendFinds(c) \/ AppendRefused(c) \/ Inspect
      PROVE  ReadStore /\ UNCHANGED spoiled
  BY <1>7 DEF Request, Reread, AppendFinds, AppendRefused, Inspect
<1>8. CASE Inspect
  BY <1>5, <1>8 DEF Inspect
<1>9. ASSUME NEW c \in Clients, Stop(c)
      PROVE  CleanStore' /\ UNCHANGED history
  BY <1>9 DEF Stop, store, CleanStore
<1>10. ASSUME NEW c \in Clients, AppendWrites(c) \/ StopAfterWrite(c)
       PROVE  Writing(c) /\ WriteLine(c)
  BY <1>10 DEF AppendWrites, StopAfterWrite
<1>11. ASSUME NEW c \in Clients
       PROVE  ~TearLine(c) /\ ~LeaveLineOpen(c)
  BY DEF TearLine, LeaveLineOpen
<1>. QED
  BY <1>4, <1>5, <1>6, <1>7, <1>8, <1>9, <1>10, <1>11 DEF Next

\* A commit moves its subject along ALLOWED_TRANSITIONS.
LEMMA RegisterStep ==
  ASSUME Transactional, IInv, CleanStore, [Next]_vars
  PROVE  [Register!Next]_([s \in Subjects |-> StateAfter(history[s])])
<1> DEFINE state == [s \in Subjects |-> StateAfter(history[s])]
<1>1. CASE UNCHANGED history
  BY <1>1
<1>2. ASSUME NEW c \in Clients, Writing(c),
             history' = Extended(job[c].subject, job[c].transition)
      PROVE  Register!Next
  <2> DEFINE q == job[c].subject
             t == job[c].transition
             h == history[q]
  <2>1. /\ q \in Subjects /\ t \in Transitions
        /\ h \in Seq(Transitions)
        /\ WellFormed(Append(h, t))
    BY <1>2, WritingWellFormed DEF IInv, TypeOK, Recovered, CleanStore
  <2>2. /\ Len(Append(h, t)) = Len(h) + 1
        /\ Append(h, t)[Len(h) + 1] = t
        /\ \A i \in 1..Len(h) : Append(h, t)[i] = h[i]
        /\ Len(h) \in Nat
    BY <2>1
  <2>3. StateAfter(Append(h, t)) = t.chain.state
    BY <2>2 DEF StateAfter, StateAt
  <2>4. t.from = StateAfter(h) /\ t.chain.state \in Allowed[t.from]
    <3> DEFINE g == Append(h, t)
               n == Len(h) + 1
    <3>a. n \in 1..Len(g) /\ g[n] = t /\ n - 1 = Len(h) /\ WellFormed(g)
      BY <2>1, <2>2
    <3> HIDE DEF g, n
    <3>b. t.from = StateAt(g, n - 1) /\ t.chain.state \in Allowed[t.from]
      BY <3>a DEF WellFormed
    <3>1. /\ t.from = StateAt(Append(h, t), Len(h))
          /\ t.chain.state \in Allowed[t.from]
      BY <3>a, <3>b DEF g
    <3>. QED
      BY <2>2, <3>1 DEF StateAfter, StateAt
  <2>5. \A s \in Subjects :
          history'[s] = IF s = q THEN Append(h, t) ELSE history[s]
    BY <1>2 DEF Extended, Recovered, CleanStore
  <2>6. [s \in Subjects |-> StateAfter(history'[s])] =
          [state EXCEPT ![q] = t.chain.state]
    BY <2>1, <2>3, <2>5
  <2>7. t.chain.state \in Register!AllowedTransitions[state[q]]
    BY <2>1, <2>4 DEF Allowed, Register!AllowedTransitions
  <2>. QED
    BY <2>1, <2>6, <2>7 DEF Register!Next, Register!Move
<1>. QED
  BY <1>1, <1>2, TransactionalStep

\* On the transactional store every answer is, and stays, in the history.
LEMMA AnswersStep ==
  ASSUME Transactional, TInv, [Next]_vars
  PROVE  AnswersInHistory'
<1> DEFINE In(e, f) == \E i \in 1..Len(f[e.subject]) :
                         f[e.subject][i] = e.transition
<1>1. CleanStore'
  BY TransactionalStep DEF TInv
<1>2. ASSUME NEW e \in Entries, In(e, history)
      PROVE  In(e, history')
  <2>1. CASE UNCHANGED history
    BY <1>2, <2>1
  <2>2. ASSUME NEW c \in Clients, Writing(c),
               history' = Extended(job[c].subject, job[c].transition)
        PROVE  In(e, history')
    <3>1. /\ e.subject \in Subjects
          /\ history[e.subject] \in Seq(Transitions)
          /\ job[c].transition \in Transitions
      BY <2>2, WritingWellFormed DEF TInv, IInv, TypeOK, Entries
    <3>2. history'[e.subject] \in
            {history[e.subject], Append(history[e.subject], job[c].transition)}
      BY <2>2, <3>1 DEF Extended, Recovered, TInv, CleanStore
    <3>. QED
      BY <1>2, <3>1, <3>2
  <2>. QED
    BY <2>1, <2>2, TransactionalStep DEF TInv
<1>3. ASSUME NEW c \in Clients, answer'[c] # NoAnswer, answer'[c] = answer[c]
      PROVE  In(answer'[c], history')
  BY <1>2, <1>3 DEF TInv, AnswersInHistory, IInv, TypeOK
<1>4. ASSUME NEW c \in Clients, NEW t \in Transitions, Return(c, t),
             [subject |-> job[c].subject, transition |-> t] \in Entries,
             In([subject |-> job[c].subject, transition |-> t], history')
      PROVE  AnswersInHistory'
  <2>1. answer' = [answer EXCEPT ![c] = [subject |-> job[c].subject,
                                         transition |-> t]]
    BY <1>4 DEF Return
  <2>2. ASSUME NEW d \in Clients, answer'[d] # NoAnswer
        PROVE  In(answer'[d], history')
    BY <1>3, <1>4, <2>1, <2>2 DEF TInv, IInv, TypeOK
  <2>. QED
    BY <1>1, <2>2 DEF AnswersInHistory, CleanStore
<1>5. ASSUME UNCHANGED answer PROVE AnswersInHistory'
  BY <1>1, <1>3, <1>5 DEF AnswersInHistory, CleanStore
<1>6. \A s \in Subjects : Recovered(s) = history[s]
  BY DEF Recovered, TInv, CleanStore
<1>7. ASSUME NEW c \in Clients, Reread(c) \/ AppendFinds(c)
      PROVE  AnswersInHistory'
  <2> DEFINE q == job[c].subject
  <2>1. /\ q \in Subjects
        /\ history[q] \in Seq(Transitions)
        /\ Recovered(q) = history[q]
    BY <1>6, <1>7 DEF Reread, AppendFinds, TInv, IInv, TypeOK, Entries
  <2>2. \/ UNCHANGED answer
        \/ \E i \in 1..Len(history[q]) : Return(c, history[q][i])
    BY <1>7, <2>1 DEF Reread, AppendFinds, Raise
  <2>3. ASSUME NEW i \in 1..Len(history[q]), Return(c, history[q][i])
        PROVE  AnswersInHistory'
    <3>1. history[q][i] \in Transitions
      BY <2>1
    <3>2. [subject |-> q, transition |-> history[q][i]] \in Entries
      BY <2>1, <3>1 DEF Entries
    <3>3. In([subject |-> q, transition |-> history[q][i]], history)
      OBVIOUS
    <3>. QED
      BY <1>2, <1>4, <2>3, <3>1, <3>2, <3>3
  <2>. QED
    BY <1>5, <2>2, <2>3
<1>8. ASSUME NEW c \in Clients, AppendWrites(c)
      PROVE  AnswersInHistory'
  <2> DEFINE q == job[c].subject
             t == job[c].transition
  <2>1. Writing(c) /\ WriteLine(c) /\ Return(c, t)
    BY <1>8 DEF AppendWrites
  <2>2. q \in Subjects /\ t \in Transitions /\ history[q] \in Seq(Transitions)
    BY <2>1, WritingWellFormed DEF TInv, IInv, TypeOK
  <2>3. history'[q] = Append(history[q], t)
    BY <1>6, <2>1, <2>2 DEF WriteLine, OpenTail, Extended, TInv, CleanStore
  <2>4. [subject |-> q, transition |-> t] \in Entries
    BY <2>2 DEF Entries
  <2>5. In([subject |-> q, transition |-> t], history')
    BY <2>2, <2>3
  <2>. QED
    BY <1>4, <2>1, <2>2, <2>4, <2>5
<1>9. ASSUME NEW c \in Clients, NEW s, NEW k, NEW actor, NEW when,
             \/ Request(c, s, k, actor, when) \/ AppendRefused(c) \/ Inspect
             \/ Stop(c) \/ StopAfterWrite(c) \/ TearLine(c) \/ LeaveLineOpen(c)
      PROVE  UNCHANGED answer
  BY <1>9 DEF Request, AppendRefused, Inspect, Stop, StopAfterWrite, TearLine,
              LeaveLineOpen, Interrupt, Raise
<1>10. CASE Inspect
  BY <1>5, <1>10 DEF Inspect
<1>11. CASE UNCHANGED vars
  BY <1>5, <1>11 DEF vars
<1>. QED
  BY <1>5, <1>7, <1>8, <1>9, <1>10, <1>11, TInv DEF Next

\* The invariant of the transactional store.
LEMMA TransactionalInvariance ==
  ASSUME Transactional PROVE Spec => []TInv
<1>1. Init => TInv
  BY InitIInv DEF Init, TInv, CleanStore, AnswersInHistory
<1>2. TInv /\ [Next]_vars => TInv'
  BY InvStep, TransactionalStep, AnswersStep DEF TInv
<1>. QED
  BY <1>1, <1>2, PTL DEF Spec

\* A transition that the SQLite store returned is never lost.
THEOREM AnswersKept ==
  ASSUME Transactional PROVE Spec => []AnswersInHistory
<1>1. TInv => AnswersInHistory
  BY DEF TInv
<1>. QED
  BY TransactionalInvariance, <1>1, PTL

\* On the SQLite store the current state of the subjects implements the
\* abstract register.
THEOREM ImplementsRegister ==
  ASSUME Transactional PROVE Spec => RegisterSpec
<1> DEFINE state == [s \in Subjects |-> StateAfter(history[s])]
<1>1. Init => Register!Init
  BY DEF Init, Register!Init, StateAfter, StateAt
<1>2. TInv /\ [Next]_vars => [Register!Next]_state
  BY RegisterStep DEF TInv
<1>. QED
  BY TransactionalInvariance, <1>1, <1>2, PTL
     DEF Spec, RegisterSpec, Register!Spec
=============================================================================
