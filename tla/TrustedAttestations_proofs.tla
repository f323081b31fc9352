----------------------- MODULE TrustedAttestations_proofs -----------------------
(***************************************************************************)
(* Proofs about TrustHistory, TrustedAttestations and TrustView for any    *)
(* publishers, signers, keys, signed states, identities and bounds.  The   *)
(* argument is that both files only grow: a state that was read from the   *)
(* current file, or that a binding names, is in the history and stays      *)
(* there, and its anchors never change; and what a page has read is in     *)
(* the files still when it answers.                                        *)
(***************************************************************************)
EXTENDS TrustView, LineFile_proofs, FiniteSetTheorems

\* What the publishers keep true.
TrustInv ==
  /\ TrustTypeOK
  /\ Linked(history.lines)
  /\ interruptions = 0 => history.end = "ended"
  /\ current # NoState => Recorded(current)
  /\ \A p \in Publishers : publishing[p] # NoState => Recorded(publishing[p])

\* The state is in the history, and its key is active there.
Backed(line) == Recorded(line.state) /\ KeyActive(line.state, line.key)

\* Every signed outcome among the lines is repeated by a binding.
BoundIn(lines) ==
  \A i \in 1..Len(lines) :
    ~IsBinding(lines[i]) /\ lines[i].key # NoKey =>
      \E k \in 1..Len(lines) : IsBinding(lines[k]) /\ OutcomeOf(lines[k]) = lines[i]

\* What the signers keep true of the store.
LedgerInv ==
  /\ ChainAccepted(ledger.lines)
  /\ interruptions = 0 => ledger.end = "ended" /\ BoundIn(ledger.lines)

IInv ==
  /\ TypeOK
  /\ TrustInv
  /\ LedgerInv
  /\ \A i \in 1..Len(ledger.lines) : IsBinding(ledger.lines[i]) => Backed(ledger.lines[i])
  /\ \A c \in Signers :
       job[c] # NoJob /\ job[c].state # NoState => Backed(job[c])

LEMMA InitIInv ==
  ASSUME AttestationsAssumption, Init
  PROVE  IInv
<1>1. /\ EmptyFile \in Files(Signed) /\ EmptyFile \in Files(Outcomes \union Bindings)
      /\ EmptyFile.lines = <<>> /\ Len(EmptyFile.lines) = 0 /\ EmptyFile.end = "ended"
  BY DEF EmptyFile, Files, Ends
<1>2. TrustTypeOK
  BY <1>1 DEF Init, TrustInit, TrustTypeOK, AttestationsAssumption, ConstantsAssumption
<1>3. TypeOK
  BY <1>1, <1>2 DEF Init, TypeOK, AttestationsAssumption
<1>4. TrustInv
  BY <1>1, <1>2 DEF Init, TrustInit, TrustInv, Linked
<1>5. LedgerInv
  BY <1>1 DEF Init, LedgerInv, ChainAccepted, BoundIn
<1>. QED BY <1>1, <1>3, <1>4, <1>5 DEF Init, IInv

-----------------------------------------------------------------------------
(* The history.                                                            *)

\* A state that follows keeps the chain.
LEMMA LinkedAppend ==
  ASSUME NEW h \in Seq(Signed), NEW s \in Signed, Linked(h), Follows(s, h)
  PROVE  Linked(Append(h, s))
<1> DEFINE g == Append(h, s)
<1>1. /\ Len(g) = Len(h) + 1 /\ Len(h) \in Nat
      /\ \A i \in 1..Len(h) : g[i] = h[i]
      /\ g[Len(h) + 1] = s
  BY AppendedLines
<1>2. \A n \in 0..Len(h) : SubSeq(g, 1, n) = SubSeq(h, 1, n)
  BY PrefixesOfAppend
<1>3. SubSeq(h, 1, Len(h)) = h
  BY SubSeqFull
<1> HIDE DEF g
<1>4. ASSUME NEW i \in 1..Len(g) PROVE Follows(g[i], SubSeq(g, 1, i - 1))
  <2>1. CASE i \in 1..Len(h)
    <3>1. i - 1 \in 0..Len(h) /\ g[i] = h[i]
      BY <1>1, <2>1
    <3>. QED BY <1>2, <2>1, <3>1 DEF Linked
  <2>2. CASE i = Len(h) + 1
    <3>1. i - 1 = Len(h) /\ Len(h) \in 0..Len(h) /\ g[i] = s
      BY <1>1, <2>2
    <3>. QED BY <1>2, <1>3, <3>1
  <2>. QED BY <1>1, <2>1, <2>2
<1>. QED BY <1>4 DEF Linked, g

LEMMA HistoryGrows ==
  ASSUME history \in Files(Signed), NEW s \in Signed, Linked(history.lines),
         Follows(s, history.lines),
         \/ history' = Extended(history, <<s>>)
         \/ history' \in Interrupted(history, <<s>>)
  PROVE  /\ history' \in Files(Signed)
         /\ history'.lines \in {history.lines, Append(history.lines, s)}
         /\ Linked(history'.lines)
         /\ \A t : Recorded(t) => Recorded(t)'
         /\ history' = Extended(history, <<s>>) => Recorded(s)'
<1>1. history.lines \in Seq(Signed)
  BY DEF Files
<1>2. /\ history' \in Files(Signed)
      /\ history'.lines \in {history.lines, Append(history.lines, s)}
      /\ history' = Extended(history, <<s>>) => history'.lines = Append(history.lines, s)
  BY ExtendedOne, InterruptedOne
<1>3. /\ Len(Append(history.lines, s)) = Len(history.lines) + 1
      /\ \A i \in 1..Len(history.lines) : Append(history.lines, s)[i] = history.lines[i]
      /\ Append(history.lines, s)[Len(history.lines) + 1] = s
      /\ Len(history.lines) \in Nat
  BY <1>1, AppendedLines
<1>4. ASSUME NEW t, Recorded(t) PROVE Recorded(t)'
  BY <1>2, <1>3, <1>4 DEF Recorded
<1>5. ASSUME history' = Extended(history, <<s>>) PROVE Recorded(s)'
  BY <1>2, <1>3, <1>5 DEF Recorded
<1>6. Linked(history'.lines)
  BY <1>1, <1>2, LinkedAppend
<1>. QED BY <1>2, <1>4, <1>5, <1>6

\* The publishers keep their invariant, and take no state out of the history.
LEMMA PublishKeeps ==
  ASSUME ConstantsAssumption, TrustInv, Publish
  PROVE  TrustInv' /\ \A t : Recorded(t) => Recorded(t)'
<1>1. PICK p \in Publishers :
        \/ \E s \in Signed : AppendState(p, s) \/ ReplayState(p, s) \/ AppendInterrupted(p, s)
        \/ ReplaceCurrent(p)
        \/ LeaveCurrent(p)
  BY DEF Publish
<1>2. ASSUME NEW s \in Signed, AppendState(p, s)
      PROVE  TrustInv' /\ \A t : Recorded(t) => Recorded(t)'
  <2>1. /\ history' \in Files(Signed) /\ Linked(history'.lines)
        /\ \A t : Recorded(t) => Recorded(t)'
        /\ Recorded(s)'
    BY <1>2, HistoryGrows DEF AppendState, Appendable, TrustInv, TrustTypeOK
  <2>2. UNCHANGED <<current, interruptions>> /\ publishing' = [publishing EXCEPT ![p] = s]
        /\ history' = Extended(history, <<s>>)
    BY <1>2 DEF AppendState
  <2>3. interruptions' = 0 => history'.end = "ended"
    BY <2>2 DEF TrustInv, Extended
  <2>4. TrustTypeOK'
    BY <2>1, <2>2 DEF TrustInv, TrustTypeOK
  <2>5. (current # NoState => Recorded(current))'
    BY <2>1, <2>2 DEF TrustInv
  <2>6. \A q \in Publishers : (publishing[q] # NoState => Recorded(publishing[q]))'
    BY <2>1, <2>2 DEF TrustInv, TrustTypeOK
  <2>. QED BY <2>1, <2>3, <2>4, <2>5, <2>6 DEF TrustInv
<1>3. ASSUME NEW s \in Signed, AppendInterrupted(p, s)
      PROVE  TrustInv' /\ \A t : Recorded(t) => Recorded(t)'
  <2>1. /\ history' \in Files(Signed) /\ Linked(history'.lines)
        /\ \A t : Recorded(t) => Recorded(t)'
    BY <1>3, HistoryGrows DEF AppendInterrupted, Appendable, TrustInv, TrustTypeOK
  <2>2. UNCHANGED <<current, publishing>>
    BY <1>3 DEF AppendInterrupted
  <2>3. interruptions' \in 0..MaxInterruptions /\ interruptions' # 0
    BY <1>3 DEF AppendInterrupted, TrustInv, TrustTypeOK, ConstantsAssumption
  <2>4. TrustTypeOK'
    BY <2>1, <2>2, <2>3 DEF TrustInv, TrustTypeOK
  <2>5. (current # NoState => Recorded(current))'
    BY <2>1, <2>2 DEF TrustInv
  <2>6. \A q \in Publishers : (publishing[q] # NoState => Recorded(publishing[q]))'
    BY <2>1, <2>2 DEF TrustInv
  <2>. QED BY <2>1, <2>3, <2>4, <2>5, <2>6 DEF TrustInv
<1>4. ASSUME NEW s \in Signed, ReplayState(p, s)
      PROVE  TrustInv' /\ \A t : Recorded(t) => Recorded(t)'
  <2>1. /\ UNCHANGED <<history, current, interruptions>> /\ Recorded(s)
        /\ publishing' = [publishing EXCEPT ![p] = s]
    BY <1>4 DEF ReplayState
  <2>2. TrustTypeOK'
    BY <2>1 DEF TrustInv, TrustTypeOK
  <2>3. \A q \in Publishers : (publishing[q] # NoState => Recorded(publishing[q]))'
    BY <2>1 DEF TrustInv, TrustTypeOK, Recorded
  <2>. QED BY <2>1, <2>2, <2>3 DEF TrustInv, Recorded
<1>5. CASE ReplaceCurrent(p) \/ LeaveCurrent(p)
  <2>1. /\ UNCHANGED <<history, interruptions>>
        /\ current' \in {current, publishing[p]}
        /\ publishing[p] # NoState
        /\ publishing' = [publishing EXCEPT ![p] = NoState]
    BY <1>5 DEF ReplaceCurrent, LeaveCurrent
  <2>2. TrustTypeOK'
    BY <2>1 DEF TrustInv, TrustTypeOK
  <2>3. \A q \in Publishers : (publishing[q] # NoState => Recorded(publishing[q]))'
    BY <2>1 DEF TrustInv, TrustTypeOK, Recorded
  <2>4. (current # NoState => Recorded(current))'
    BY <2>1 DEF TrustInv, Recorded
  <2>. QED BY <2>1, <2>2, <2>3, <2>4 DEF TrustInv, Recorded
<1>. QED BY <1>1, <1>2, <1>3, <1>4, <1>5

-----------------------------------------------------------------------------
(* The store of attestations.                                              *)

\* What a signer appends: its outcome, and its binding if it has one.
LEMMA NewLinesTyped ==
  ASSUME AttestationsAssumption, NEW lines, NEW j \in Jobs,
         j.key = NoKey <=> j.state = NoState
  PROVE  /\ NewLines(lines, j) \in Seq(Outcomes \union Bindings)
         /\ \A k \in 1..Len(NewLines(lines, j)) :
              IsBinding(NewLines(lines, j)[k]) => NewLines(lines, j)[k] = j
<1> DEFINE new == NewLines(lines, j)
           o == OutcomeOf(j)
           Lines == Outcomes \union Bindings
<1>0. SUFFICES new \in Seq(Lines) /\ \A k \in 1..Len(new) : IsBinding(new[k]) => new[k] = j
  OBVIOUS
<1>1. j \in Lines
  BY DEF Jobs, Bindings, Outcomes
<1>2. o \in Lines /\ ~IsBinding(o)
  BY DEF OutcomeOf, Jobs, Outcomes, IsBinding
<1>3. new \in {<<>>, <<j>>, <<o, j>>}
  BY Zenon DEF NewLines
<1> HIDE DEF new, o, Lines
<1>4. CASE new = <<>>
  BY <1>4
<1>5. CASE new = <<j>>
  BY <1>1, <1>5
<1>6. CASE new = <<o, j>>
  <2>1. new \in Seq(Lines) /\ Len(new) = 2 /\ new[1] = o /\ new[2] = j
    BY <1>1, <1>2, <1>6
  <2>2. ASSUME NEW k \in 1..Len(new), IsBinding(new[k]) PROVE new[k] = j
    <3>1. k = 1 \/ k = 2
      BY <2>1
    <3>. QED BY <1>2, <2>1, <2>2, <3>1
  <2>. QED BY <2>1, <2>2
<1>. QED BY <1>3, <1>4, <1>5, <1>6, Zenon

\* A line that is admissible after a chain continues it.
LEMMA ChainAppend ==
  ASSUME NEW lines \in Seq(Outcomes \union Bindings), NEW line \in Outcomes \union Bindings,
         ChainAccepted(lines), Admissible(line, lines)
  PROVE  ChainAccepted(Append(lines, line))
<1> DEFINE g == Append(lines, line)
<1>1. /\ Len(g) = Len(lines) + 1 /\ Len(lines) \in Nat
      /\ \A i \in 1..Len(lines) : g[i] = lines[i]
      /\ g[Len(lines) + 1] = line
  BY AppendedLines
<1>2. \A n \in 0..Len(lines) : SubSeq(g, 1, n) = SubSeq(lines, 1, n)
  BY PrefixesOfAppend
<1>3. SubSeq(lines, 1, Len(lines)) = lines
  BY SubSeqFull
<1> HIDE DEF g
<1>4. ASSUME NEW i \in 1..Len(g) PROVE Admissible(g[i], SubSeq(g, 1, i - 1))
  <2>1. CASE i \in 1..Len(lines)
    <3>1. i - 1 \in 0..Len(lines) /\ g[i] = lines[i]
      BY <1>1, <2>1
    <3>. QED BY <1>2, <2>1, <3>1 DEF ChainAccepted
  <2>2. CASE i = Len(lines) + 1
    <3>1. i - 1 = Len(lines) /\ Len(lines) \in 0..Len(lines) /\ g[i] = line
      BY <1>1, <2>2
    <3>. QED BY <1>2, <1>3, <3>1
  <2>. QED BY <1>1, <2>1, <2>2
<1>. QED BY <1>4 DEF ChainAccepted, g

\* Whatever other signers appended since the tip was read, the lines of a
\* signer continue the chain, first the outcome and then its binding.
LEMMA NewLinesAdmissible ==
  ASSUME AttestationsAssumption, NEW lines \in Seq(Outcomes \union Bindings), NEW j \in Jobs
  PROVE  \/ NewLines(lines, j) = <<>>
         \/ NewLines(lines, j) = <<j>> /\ Admissible(j, lines)
         \/ /\ NewLines(lines, j) = <<OutcomeOf(j), j>>
            /\ IsBinding(j)
            /\ Admissible(OutcomeOf(j), lines)
            /\ Admissible(j, Append(lines, OutcomeOf(j)))
<1> DEFINE o == OutcomeOf(j)
<1>1. /\ o.id = j.id /\ o.previous = j.previous /\ ~IsBinding(o)
      /\ o \in Outcomes
  BY DEF OutcomeOf, Jobs, Outcomes, IsBinding
<1>2. CASE SameId(lines, j.id) = {} /\ j.previous = Tip(lines)
  <2>1. \A i \in 1..Len(lines) : lines[i].id # j.id
    BY <1>2 DEF SameId
  <2>2. CASE ~IsBinding(j)
    <3>1. Admissible(j, lines)
      BY <1>2, <2>1, <2>2 DEF Admissible
    <3>. QED BY <1>2, <2>2, <3>1 DEF NewLines
  <2>3. CASE IsBinding(j)
    <3> HIDE DEF o
    <3>1. Admissible(o, lines)
      BY <1>1, <1>2, <2>1 DEF Admissible
    <3> DEFINE g == Append(lines, o)
    <3>2. /\ Len(g) = Len(lines) + 1 /\ Len(lines) \in Nat
          /\ \A i \in 1..Len(lines) : g[i] = lines[i]
          /\ g[Len(lines) + 1] = o
      BY <1>1, AppendedLines
    <3> HIDE DEF g
    <3>3. \E i \in 1..Len(g) : g[i] = o
      BY <3>2
    <3>4. ASSUME NEW i \in 1..Len(g), IsBinding(g[i]) PROVE g[i].id # j.id
      <4>1. CASE i \in 1..Len(lines)
        BY <2>1, <3>2, <4>1
      <4>2. CASE i = Len(lines) + 1
        BY <1>1, <3>2, <3>4, <4>2
      <4>. QED BY <3>2, <4>1, <4>2
    <3>5. Admissible(j, g)
      BY <2>3, <3>3, <3>4 DEF Admissible, o
    <3>. QED BY <1>2, <2>3, <3>1, <3>5 DEF NewLines, g, o
  <2>. QED BY <2>2, <2>3
<1>3. CASE /\ SameId(lines, j.id) # {}
           /\ IsBinding(j) /\ \A i \in SameId(lines, j.id) : lines[i] = OutcomeOf(j)
  <2>1. PICK i \in 1..Len(lines) : lines[i] = o
    BY <1>3 DEF SameId
  <2>2. \A n \in 1..Len(lines) : IsBinding(lines[n]) => lines[n].id # j.id
    BY <1>1, <1>3 DEF SameId
  <2>3. Admissible(j, lines)
    BY <1>3, <2>1, <2>2 DEF Admissible
  <2>. QED BY <1>3, <2>3 DEF NewLines
<1>4. CASE ~(\/ SameId(lines, j.id) = {} /\ j.previous = Tip(lines)
             \/ /\ SameId(lines, j.id) # {}
                /\ IsBinding(j) /\ \A i \in SameId(lines, j.id) : lines[i] = OutcomeOf(j))
  BY <1>4, Zenon DEF NewLines
<1>. QED BY <1>2, <1>3, <1>4, Zenon

\* An outcome with its binding leaves no signed outcome unbound, and neither
\* does a line that is a binding or unsigned.
LEMMA BoundAppend ==
  ASSUME NEW lines \in Seq(Outcomes \union Bindings), NEW line \in Outcomes \union Bindings,
         BoundIn(lines)
  PROVE  /\ IsBinding(line) \/ line.key = NoKey => BoundIn(Append(lines, line))
         /\ \A j \in Outcomes \union Bindings :
              IsBinding(j) /\ line = OutcomeOf(j) => BoundIn(Append(Append(lines, line), j))
<1> DEFINE g == Append(lines, line)
<1>1. /\ g \in Seq(Outcomes \union Bindings)
      /\ Len(g) = Len(lines) + 1 /\ Len(lines) \in Nat
      /\ \A i \in 1..Len(lines) : g[i] = lines[i]
      /\ g[Len(lines) + 1] = line
  BY AppendedLines
<1> HIDE DEF g
<1>2. ASSUME NEW i \in 1..Len(lines), ~IsBinding(lines[i]), lines[i].key # NoKey
      PROVE  \E k \in 1..Len(lines) : IsBinding(g[k]) /\ OutcomeOf(g[k]) = g[i]
  BY <1>1, <1>2 DEF BoundIn
<1>3. ASSUME IsBinding(line) \/ line.key = NoKey PROVE BoundIn(g)
  <2>1. ASSUME NEW i \in 1..Len(g), ~IsBinding(g[i]), g[i].key # NoKey
        PROVE  \E k \in 1..Len(g) : IsBinding(g[k]) /\ OutcomeOf(g[k]) = g[i]
    <3>1. i \in 1..Len(lines) /\ g[i] = lines[i]
      BY <1>1, <1>3, <2>1
    <3>. QED BY <1>1, <1>2, <2>1, <3>1
  <2>. QED BY <2>1 DEF BoundIn
<1>4. ASSUME NEW j \in Outcomes \union Bindings, IsBinding(j), line = OutcomeOf(j)
      PROVE  BoundIn(Append(g, j))
  <2> DEFINE h == Append(g, j)
  <2>1. /\ Len(h) = Len(g) + 1
        /\ \A i \in 1..Len(g) : h[i] = g[i]
        /\ h[Len(g) + 1] = j
    BY <1>1, AppendedLines
  <2> HIDE DEF h
  <2>2. ASSUME NEW i \in 1..Len(h), ~IsBinding(h[i]), h[i].key # NoKey
        PROVE  \E k \in 1..Len(h) : IsBinding(h[k]) /\ OutcomeOf(h[k]) = h[i]
    <3>1. i # Len(g) + 1
      BY <1>4, <2>1, <2>2
    <3>2. CASE i \in 1..Len(lines)
      <4>1. h[i] = lines[i] /\ h[i] = g[i]
        BY <1>1, <2>1, <3>2
      <4>2. PICK k \in 1..Len(lines) : IsBinding(g[k]) /\ OutcomeOf(g[k]) = g[i]
        BY <1>2, <2>2, <3>2, <4>1
      <4>. QED BY <1>1, <2>1, <4>1, <4>2
    <3>3. CASE i = Len(lines) + 1
      <4>1. h[i] = line /\ h[Len(g) + 1] = j /\ Len(g) + 1 \in 1..Len(h)
        BY <1>1, <2>1, <3>3
      <4>. QED BY <1>4, <4>1
    <3>. QED BY <1>1, <2>1, <3>1, <3>2, <3>3
  <2>. QED BY <2>2 DEF BoundIn, h
<1>. QED BY <1>3, <1>4 DEF g

LEMMA LedgerStaysSound ==
  ASSUME AttestationsAssumption, IInv, NEW j \in Jobs, j.key = NoKey <=> j.state = NoState,
         \/ ledger' = ledger
         \/ ledger' = Extended(ledger, NewLines(ledger.lines, j))
         \/ ledger' \in Interrupted(ledger, NewLines(ledger.lines, j))
  PROVE  /\ ChainAccepted(ledger'.lines)
         /\ BoundIn(ledger.lines) /\ ledger' = Extended(ledger, NewLines(ledger.lines, j)) =>
              BoundIn(ledger'.lines)
<1> DEFINE Lines == Outcomes \union Bindings
           new == NewLines(ledger.lines, j)
           o == OutcomeOf(j)
<1>1. /\ ledger \in Files(Lines) /\ ledger.lines \in Seq(Lines)
      /\ ChainAccepted(ledger.lines)
  BY DEF IInv, LedgerInv, TypeOK, Files
<1>2. /\ j \in Lines /\ o \in Outcomes
      /\ IsBinding(j) \/ j.key = NoKey
  BY DEF Jobs, Outcomes, Bindings, OutcomeOf, IsBinding
<1>3. new \in Seq(Lines)
  BY NewLinesTyped
<1>4. \/ new = <<>>
      \/ new = <<j>> /\ Admissible(j, ledger.lines)
      \/ /\ new = <<o, j>>
         /\ IsBinding(j)
         /\ Admissible(o, ledger.lines)
         /\ Admissible(j, Append(ledger.lines, o))
  BY <1>1, NewLinesAdmissible
<1>5. ChainAccepted(ledger'.lines)
  <2>1. CASE ledger' = ledger
    BY <1>1, <2>1
  <2>2. CASE ledger' # ledger
    <3>1. ledger' = Extended(ledger, new) \/ ledger' \in Interrupted(ledger, new)
      BY <2>2
    <3>2. /\ Len(new) <= 2
          /\ Len(new) >= 1 => /\ Admissible(new[1], ledger.lines) /\ new[1] \in Lines
          /\ Len(new) = 2 => /\ Admissible(new[2], Append(ledger.lines, new[1]))
                             /\ new[2] \in Lines
      <4> HIDE DEF new, o, Lines
      <4>1. CASE new = <<>>
        BY <4>1
      <4>2. CASE new = <<j>> /\ Admissible(j, ledger.lines)
        BY <1>2, <4>2
      <4>3. CASE /\ new = <<o, j>>
                 /\ Admissible(o, ledger.lines)
                 /\ Admissible(j, Append(ledger.lines, o))
        BY <1>2, <4>3 DEF Lines
      <4>. QED BY <1>4, <4>1, <4>2, <4>3
    <3>3. \/ ledger'.lines = ledger.lines
          \/ Len(new) >= 1 /\ ledger'.lines = Append(ledger.lines, new[1])
          \/ Len(new) = 2 /\ ledger'.lines = Append(Append(ledger.lines, new[1]), new[2])
      BY <1>1, <1>3, <3>1, <3>2, AtMostTwo
    <3> HIDE DEF new
    <3>4. Len(new) >= 1 => /\ ChainAccepted(Append(ledger.lines, new[1]))
                           /\ Append(ledger.lines, new[1]) \in Seq(Lines)
      BY <1>1, <3>2, ChainAppend
    <3>5. Len(new) = 2 => ChainAccepted(Append(Append(ledger.lines, new[1]), new[2]))
      <4>1. Len(new) = 2 => Len(new) >= 1
        OBVIOUS
      <4>. QED BY <3>2, <3>4, <4>1, ChainAppend
    <3>. QED BY <1>1, <3>3, <3>4, <3>5
  <2>. QED BY <2>1, <2>2
<1>6. ASSUME BoundIn(ledger.lines), ledger' = Extended(ledger, new)
      PROVE  BoundIn(ledger'.lines)
  <2>1. ledger'.lines = ledger.lines \o new
    BY <1>6 DEF Extended
  <2> HIDE DEF new
  <2>2. CASE new = <<>>
    <3>1. ledger'.lines = ledger.lines
      BY <1>1, <2>1, <2>2, ConcatEmptySeq
    <3>. QED BY <1>6, <3>1
  <2>3. CASE new = <<j>>
    <3>1. ledger'.lines = Append(ledger.lines, j)
      BY <1>1, <1>2, <2>1, <2>3, AppendIsConcat
    <3>. QED BY <1>1, <1>2, <1>6, <3>1, BoundAppend
  <2>4. CASE new = <<o, j>> /\ IsBinding(j)
    <3>1. ledger'.lines = Append(Append(ledger.lines, o), j)
      BY <1>1, <1>2, <2>1, <2>4
    <3>. QED BY <1>1, <1>2, <1>6, <2>4, <3>1, BoundAppend
  <2>. QED BY <1>4, <2>2, <2>3, <2>4
<1>. QED BY <1>5, <1>6

\* The store after an append, completed or not.
LEMMA LedgerGrows ==
  ASSUME AttestationsAssumption, IInv, NEW j \in Jobs, j.key = NoKey <=> j.state = NoState,
         j.state # NoState => Backed(j),
         \/ ledger' = ledger
         \/ ledger' = Extended(ledger, NewLines(ledger.lines, j))
         \/ ledger' \in Interrupted(ledger, NewLines(ledger.lines, j))
  PROVE  /\ ledger' \in Files(Outcomes \union Bindings)
         /\ \A i \in 1..Len(ledger'.lines) :
              IsBinding(ledger'.lines[i]) => Backed(ledger'.lines[i])
         /\ Len(ledger.lines) <= Len(ledger'.lines)
         /\ \A i \in 1..Len(ledger.lines) : ledger'.lines[i] = ledger.lines[i]
<1>1. /\ ledger \in Files(Outcomes \union Bindings)
      /\ Len(ledger.lines) \in Nat
      /\ \A i \in 1..Len(ledger.lines) :
           IsBinding(ledger.lines[i]) => Backed(ledger.lines[i])
  BY DEF IInv, TypeOK, Files
<1>2. CASE ledger' = ledger
  BY <1>1, <1>2
<1>3. CASE ledger' # ledger
  <2> DEFINE new == NewLines(ledger.lines, j)
  <2>1. /\ new \in Seq(Outcomes \union Bindings)
        /\ \A k \in 1..Len(new) : IsBinding(new[k]) => new[k] = j
    BY NewLinesTyped
  <2> HIDE DEF new
  <2>2. /\ ledger' \in Files(Outcomes \union Bindings)
        /\ Len(ledger.lines) <= Len(ledger'.lines)
        /\ \A i \in 1..Len(ledger.lines) : ledger'.lines[i] = ledger.lines[i]
        /\ \A i \in 1..Len(ledger'.lines) :
             i > Len(ledger.lines) => \E k \in 1..Len(new) : ledger'.lines[i] = new[k]
    BY <1>1, <1>3, <2>1, GrowsByNew DEF new
  <2>3. ASSUME NEW i \in 1..Len(ledger'.lines), IsBinding(ledger'.lines[i])
        PROVE  Backed(ledger'.lines[i])
    <3>1. CASE i \in 1..Len(ledger.lines)
      BY <1>1, <2>2, <2>3, <3>1
    <3>2. CASE i > Len(ledger.lines)
      <4>1. ledger'.lines[i] = j
        BY <2>1, <2>2, <2>3, <3>2
      <4>. QED BY <2>3, <4>1 DEF IsBinding
    <3>. QED BY <1>1, <3>1, <3>2
  <2>. QED BY <2>2, <2>3
<1>. QED BY <1>2, <1>3
-----------------------------------------------------------------------------
(* The steps of a signer.                                                  *)

\* No step takes a state out of the history or a line out of the store.
Grows ==
  /\ \A t : Recorded(t) => Recorded(t)'
  /\ Len(ledger.lines) <= Len(ledger'.lines)
  /\ \A i \in 1..Len(ledger.lines) : ledger'.lines[i] = ledger.lines[i]

\* The store stays as it is.
LEMMA LedgerStays ==
  ASSUME LedgerInv, UNCHANGED ledger, interruptions' = 0 => interruptions = 0
  PROVE  LedgerInv'
  BY DEF LedgerInv

\* A signer's job changes, and nothing else.
LEMMA JobKeeps ==
  ASSUME AttestationsAssumption, IInv, NEW c \in Signers, NEW j \in Jobs \union {NoJob},
         NEW step \in {"idle", "build", "record"},
         job' = [job EXCEPT ![c] = j], phase' = [phase EXCEPT ![c] = step],
         step # "idle" => j \in Jobs,
         j \in Jobs => (j.key = NoKey <=> j.state = NoState),
         j # NoJob /\ j.state # NoState => Backed(j),
         UNCHANGED <<history, current, publishing, interruptions, ledger>>
  PROVE  IInv' /\ Grows
<1>1. /\ job' \in [Signers -> Jobs \union {NoJob}]
      /\ phase' \in [Signers -> {"idle", "build", "record"}]
      /\ job'[c] = j /\ phase'[c] = step
      /\ \A d \in Signers \ {c} : job'[d] = job[d] /\ phase'[d] = phase[d]
  BY DEF IInv, TypeOK
<1>2. TrustTypeOK' /\ TrustInv'
  BY DEF IInv, TrustInv, TrustTypeOK, Recorded
<1>3. ASSUME NEW d \in Signers
      PROVE  /\ phase'[d] # "idle" => job'[d] \in Jobs
             /\ job'[d] \in Jobs => (job'[d].key = NoKey <=> job'[d].state = NoState)
             /\ job'[d] # NoJob /\ job'[d].state # NoState => Backed(job'[d])
  <2>1. CASE d = c
    BY <1>1, <2>1
  <2>2. CASE d # c
    BY <1>1, <2>2 DEF IInv, TypeOK
  <2>. QED BY <2>1, <2>2
<1>4. TypeOK'
  BY <1>1, <1>2, <1>3 DEF IInv, TypeOK
<1>5. \A i \in 1..Len(ledger.lines) : (IsBinding(ledger.lines[i]) => Backed(ledger.lines[i]))'
  BY DEF IInv, Backed, Recorded
<1>6. \A d \in Signers : (job[d] # NoJob /\ job[d].state # NoState => Backed(job[d]))'
  BY <1>3 DEF Backed, Recorded
<1>7. Grows
  <2>1. Len(ledger.lines) \in Nat
    BY DEF IInv, TypeOK, Files
  <2>. QED BY <2>1 DEF Grows, Recorded
<1>8. LedgerInv'
  BY LedgerStays DEF IInv
<1>. QED BY <1>2, <1>4, <1>5, <1>6, <1>7, <1>8 DEF IInv

LEMMA StartKeepsIInv ==
  ASSUME AttestationsAssumption, IInv, NEW c \in Signers, NEW id \in Ids,
         (\E key \in Keys : StartSigned(c, id, key)) \/ StartUnsigned(c, id)
  PROVE  IInv' /\ Grows
<1>1. ASSUME NEW key \in Keys, StartSigned(c, id, key) PROVE IInv' /\ Grows
  <2> DEFINE j == [id |-> id, key |-> key, previous |-> 0, state |-> current]
  <2>1. current \in Signed /\ Recorded(current) /\ KeyActive(current, key)
    BY <1>1 DEF StartSigned, IInv, TrustInv, TrustTypeOK
  <2>2. j \in Jobs /\ j.key = key /\ j.state = current
    BY <2>1 DEF Jobs
  <2>3. job' = [job EXCEPT ![c] = j] /\ phase' = [phase EXCEPT ![c] = "build"]
        /\ UNCHANGED <<history, current, publishing, interruptions, ledger>>
    BY <1>1 DEF StartSigned, trustVars
  <2>4. key # NoKey /\ current # NoState
    BY <2>1 DEF AttestationsAssumption, ConstantsAssumption
  <2> HIDE DEF j
  <2>5. Backed(j)
    BY <2>1, <2>2 DEF Backed
  <2>. QED BY <2>2, <2>3, <2>4, <2>5, JobKeeps
<1>2. CASE StartUnsigned(c, id)
  <2> DEFINE j == [id |-> id, key |-> NoKey, previous |-> 0, state |-> NoState]
  <2>1. j \in Jobs /\ j.key = NoKey /\ j.state = NoState
    BY DEF Jobs
  <2>2. job' = [job EXCEPT ![c] = j] /\ phase' = [phase EXCEPT ![c] = "build"]
        /\ UNCHANGED <<history, current, publishing, interruptions, ledger>>
    BY <1>2 DEF StartUnsigned, trustVars
  <2> HIDE DEF j
  <2>. QED BY <2>1, <2>2, JobKeeps
<1>. QED BY <1>1, <1>2

LEMMA BuildKeepsIInv ==
  ASSUME AttestationsAssumption, IInv, NEW c \in Signers, Build(c)
  PROVE  IInv' /\ Grows
<1> DEFINE tip == Tip(ledger.lines)
           j == [job[c] EXCEPT !.previous = tip]
<1>1. job[c] \in Jobs /\ job[c] # NoJob
  BY DEF Build, IInv, TypeOK, AttestationsAssumption
<1>2. tip \in Nat
  <2> DEFINE outcomes == {i \in 1..Len(ledger.lines) : ~IsBinding(ledger.lines[i])}
  <2>1. Len(ledger.lines) \in Nat
    BY DEF IInv, TypeOK, Files
  <2>2. IsFiniteSet(1..Len(ledger.lines)) /\ outcomes \subseteq 1..Len(ledger.lines)
    BY <2>1, FS_Interval
  <2>3. IsFiniteSet(outcomes)
    BY <2>2, FS_Subset
  <2>. QED BY <2>3, FS_CardinalityType DEF Tip
<1>3. job' = [job EXCEPT ![c] = j] /\ phase' = [phase EXCEPT ![c] = "record"]
      /\ UNCHANGED <<history, current, publishing, interruptions, ledger>>
  BY DEF Build, trustVars
<1> HIDE DEF tip
<1>4. j \in Jobs /\ j.key = job[c].key /\ j.state = job[c].state
  BY <1>1, <1>2 DEF Jobs
<1> HIDE DEF j
<1>5. j.key = NoKey <=> j.state = NoState
  BY <1>1, <1>4 DEF IInv, TypeOK
<1>6. j.state # NoState => Backed(j)
  BY <1>1, <1>4 DEF IInv, Backed
<1>. QED BY <1>3, <1>4, <1>5, <1>6, JobKeeps

LEMMA AbandonKeepsIInv ==
  ASSUME AttestationsAssumption, IInv, NEW c \in Signers, Abandon(c)
  PROVE  IInv' /\ Grows
<1>1. job' = [job EXCEPT ![c] = NoJob] /\ phase' = [phase EXCEPT ![c] = "idle"]
      /\ UNCHANGED <<history, current, publishing, interruptions, ledger>>
  BY DEF Abandon, End, trustVars
<1>. QED BY <1>1, JobKeeps DEF AttestationsAssumption

LEMMA RecordKeepsIInv ==
  ASSUME AttestationsAssumption, IInv, NEW c \in Signers, Record(c) \/ RecordInterrupted(c)
  PROVE  IInv' /\ Grows
<1>1. /\ job[c] \in Jobs /\ (job[c].key = NoKey <=> job[c].state = NoState)
      /\ job[c].state # NoState => Backed(job[c])
  BY DEF Record, RecordInterrupted, IInv, TypeOK, AttestationsAssumption
<1>2. UNCHANGED <<history, current, publishing>>
  BY DEF Record, RecordInterrupted, trustVars
<1>3. \/ ledger' = ledger
      \/ ledger' = Extended(ledger, NewLines(ledger.lines, job[c]))
      \/ ledger' \in Interrupted(ledger, NewLines(ledger.lines, job[c]))
  BY DEF Record, RecordInterrupted
<1>4. /\ ledger' \in Files(Outcomes \union Bindings)
      /\ \A i \in 1..Len(ledger'.lines) :
           IsBinding(ledger'.lines[i]) => Backed(ledger'.lines[i])
      /\ Len(ledger.lines) <= Len(ledger'.lines)
      /\ \A i \in 1..Len(ledger.lines) : ledger'.lines[i] = ledger.lines[i]
  BY <1>1, <1>3, LedgerGrows
<1>5. /\ interruptions' \in 0..MaxInterruptions
      /\ interruptions' = 0 => interruptions = 0
  BY DEF Record, RecordInterrupted, IInv, TypeOK, TrustTypeOK, AttestationsAssumption,
         ConstantsAssumption
<1>6. TrustTypeOK' /\ TrustInv'
  BY <1>2, <1>5 DEF IInv, TrustInv, TrustTypeOK, Recorded
<1>7. /\ job' \in [Signers -> Jobs \union {NoJob}]
      /\ phase' \in [Signers -> {"idle", "build", "record"}]
      /\ job'[c] = NoJob /\ phase'[c] = "idle"
      /\ \A d \in Signers \ {c} : job'[d] = job[d] /\ phase'[d] = phase[d]
  BY DEF Record, RecordInterrupted, End, IInv, TypeOK
<1>8. ASSUME NEW d \in Signers
      PROVE  /\ phase'[d] # "idle" => job'[d] \in Jobs
             /\ job'[d] \in Jobs => (job'[d].key = NoKey <=> job'[d].state = NoState)
             /\ job'[d] # NoJob /\ job'[d].state # NoState => Backed(job'[d])
  <2>1. CASE d = c
    BY <1>7, <2>1 DEF AttestationsAssumption
  <2>2. CASE d # c
    BY <1>7, <2>2 DEF IInv, TypeOK
  <2>. QED BY <2>1, <2>2
<1>9. TypeOK'
  BY <1>4, <1>6, <1>7, <1>8 DEF TypeOK
<1>10. \A i \in 1..Len(ledger'.lines) :
         (IsBinding(ledger.lines[i]) => Backed(ledger.lines[i]))'
  BY <1>2, <1>4 DEF IsBinding, Backed, Recorded
<1>11. \A d \in Signers : (job[d] # NoJob /\ job[d].state # NoState => Backed(job[d]))'
  BY <1>2, <1>8 DEF Backed, Recorded
<1>12. Grows
  BY <1>2, <1>4 DEF Grows, Recorded
<1>13. LedgerInv'
  <2>1. /\ ChainAccepted(ledger'.lines)
        /\ BoundIn(ledger.lines) /\ ledger' = Extended(ledger, NewLines(ledger.lines, job[c])) =>
             BoundIn(ledger'.lines)
    BY <1>1, <1>3, LedgerStaysSound
  <2>2. CASE Record(c)
    <3>1. interruptions' = interruptions
      BY <2>2 DEF Record, trustVars
    <3>2. \/ ledger' = ledger
          \/ ledger' = Extended(ledger, NewLines(ledger.lines, job[c]))
      BY <2>2 DEF Record
    <3>3. interruptions = 0 => BoundIn(ledger'.lines)
      BY <2>1, <3>2 DEF IInv, LedgerInv
    <3>4. interruptions = 0 => ledger'.end = "ended"
      <4> DEFINE new == NewLines(ledger.lines, job[c])
      <4> HIDE DEF new
      <4>1. ledger' = ledger \/ ledger' = Extended(ledger, new)
        BY <3>2 DEF new
      <4>2. ledger.end = "ended" => Extended(ledger, new).end = "ended"
        BY DEF Extended
      <4>. QED BY <4>1, <4>2 DEF IInv, LedgerInv
    <3>. QED BY <2>1, <3>1, <3>3, <3>4 DEF LedgerInv
  <2>3. CASE RecordInterrupted(c)
    <3>1. interruptions' # 0
      BY <2>3 DEF RecordInterrupted, IInv, TypeOK, TrustTypeOK, AttestationsAssumption,
                  ConstantsAssumption
    <3>. QED BY <2>1, <3>1 DEF LedgerInv
  <2>. QED BY <2>2, <2>3
<1>. QED BY <1>6, <1>9, <1>10, <1>11, <1>12, <1>13 DEF IInv

LEMMA PublishKeepsIInv ==
  ASSUME AttestationsAssumption, IInv, Publish, UNCHANGED ledgerVars
  PROVE  IInv' /\ Grows
<1>1. TrustInv' /\ \A t : Recorded(t) => Recorded(t)'
  BY PublishKeeps DEF AttestationsAssumption, IInv
<1>2. UNCHANGED <<ledger, job, phase>>
  BY DEF ledgerVars
<1>3. TypeOK'
  BY <1>1, <1>2 DEF IInv, TypeOK, TrustInv
<1>4. \A i \in 1..Len(ledger.lines) : (IsBinding(ledger.lines[i]) => Backed(ledger.lines[i]))'
  BY <1>1, <1>2 DEF IInv, Backed
<1>5. \A d \in Signers : (job[d] # NoJob /\ job[d].state # NoState => Backed(job[d]))'
  BY <1>1, <1>2 DEF IInv, Backed
<1>6. Grows
  <2>1. Len(ledger.lines) \in Nat
    BY DEF IInv, TypeOK, Files
  <2>. QED BY <1>1, <1>2, <2>1 DEF Grows
<1>7. interruptions' = 0 => interruptions = 0
  <2>1. interruptions' = interruptions \/ interruptions' = interruptions + 1
    BY Zenon DEF Publish, AppendState, ReplayState, AppendInterrupted, ReplaceCurrent,
                 LeaveCurrent
  <2>2. interruptions \in Nat
    BY DEF IInv, TrustInv, TrustTypeOK, AttestationsAssumption, ConstantsAssumption
  <2>. QED BY <2>1, <2>2
<1>8. LedgerInv'
  BY <1>2, <1>7, LedgerStays DEF IInv
<1>. QED BY <1>1, <1>2, <1>3, <1>4, <1>5, <1>6, <1>8 DEF IInv

LEMMA StepIInv ==
  ASSUME AttestationsAssumption, IInv, [Next]_vars
  PROVE  IInv' /\ Grows
<1>1. CASE Next
  BY <1>1, PublishKeepsIInv, StartKeepsIInv, BuildKeepsIInv, RecordKeepsIInv,
     AbandonKeepsIInv DEF Next
<1>2. CASE UNCHANGED vars
  <2>1. Len(ledger.lines) \in Nat
    BY DEF IInv, TypeOK, Files
  <2>2. Grows
    BY <1>2, <2>1 DEF vars, Grows, Recorded
  <2>3. LedgerInv'
    BY <1>2, LedgerStays DEF vars, IInv
  <2>4. IInv'
    BY <1>2, <2>3 DEF vars, IInv, TypeOK, TrustInv, TrustTypeOK, Recorded, Backed
  <2>. QED BY <2>2, <2>4
<1>. QED BY <1>1, <1>2

LEMMA Invariance ==
  ASSUME AttestationsAssumption
  PROVE  Spec => []IInv
  BY InitIInv, StepIInv, PTL DEF Spec
-----------------------------------------------------------------------------
(* What follows.                                                           *)

\* The history stays, or a state is appended that may follow its tip.
LEMMA HistorySteps ==
  ASSUME AttestationsAssumption, IInv, [Next]_vars
  PROVE  \/ history'.lines = history.lines
         \/ \E s \in Signed : /\ Follows(s, history.lines)
                            /\ history'.lines = Append(history.lines, s)
<1>1. CASE history' = history
  BY <1>1
<1>2. CASE history' # history
  <2>1. PICK p \in Publishers, s \in Signed : AppendState(p, s) \/ AppendInterrupted(p, s)
    BY <1>2 DEF Next, vars, Publish, ReplayState, ReplaceCurrent, LeaveCurrent, trustVars,
                StartSigned, StartUnsigned, Build, Record, RecordInterrupted, Abandon
  <2>2. Follows(s, history.lines) /\ Linked(history.lines) /\ history \in Files(Signed)
    BY <2>1 DEF AppendState, AppendInterrupted, Appendable, IInv, TrustInv, TrustTypeOK
  <2>3. \/ history' = Extended(history, <<s>>)
        \/ history' \in Interrupted(history, <<s>>)
    BY <2>1 DEF AppendState, AppendInterrupted
  <2>. QED BY <2>2, <2>3, HistoryGrows
<1>. QED BY <1>1, <1>2

LEMMA LifecycleStep ==
  ASSUME AttestationsAssumption, IInv, [Next]_vars
  PROVE  [Lifecycle!Next]_Trusted
<1>1. history.lines \in Seq(Signed)
  BY DEF IInv, TrustInv, TrustTypeOK, Files
<1>2. CASE history'.lines = history.lines
  BY <1>2 DEF Trusted
<1>3. ASSUME NEW s \in Signed, Follows(s, history.lines),
             history'.lines = Append(history.lines, s)
      PROVE  Lifecycle!Next
  <2>1. /\ history'.lines # <<>>
        /\ history'.lines[Len(history'.lines)] = s
    BY <1>1, <1>3
  <2>2. Trusted' = s.anchors
    BY <2>1 DEF Trusted
  <2>3. CASE history.lines = <<>>
    BY <2>2, <2>3 DEF Trusted, Lifecycle!Next, Lifecycle!Establish
  <2>4. CASE history.lines # <<>>
    <3>1. history.lines[Len(history.lines)] \in Signed
      BY <1>1, <2>4
    <3>2. /\ Trusted = history.lines[Len(history.lines)].anchors
          /\ Trusted # NoState
      BY <2>4, <3>1 DEF Trusted, AttestationsAssumption, ConstantsAssumption
    <3>3. Lifecycle!Succeeds(s.anchors, history.lines[Len(history.lines)].anchors)
      BY <1>3, <2>4 DEF Follows, Successor
    <3>. QED BY <2>2, <3>2, <3>3 DEF Lifecycle!Next, Lifecycle!Change
  <2>. QED BY <2>3, <2>4
<1>. QED BY <1>2, <1>3, HistorySteps

\* What could be verified before a step can be verified after it, unless the
\* history became unreadable.
LEMMA VerifiableStep ==
  ASSUME AttestationsAssumption, IInv, [Next]_vars
  PROVE  [\A line \in BoundLines :
            Verifies(line) /\ Readable(history)' =>
              line \in BoundLines' /\ Verifies(line)']_vars
<1>1. Grows
  BY StepIInv
<1>2. Len(ledger.lines) \in Nat /\ Len(ledger'.lines) \in Nat
  <2>1. IInv'
    BY StepIInv
  <2>. QED BY <2>1 DEF IInv, TypeOK, Files
<1>3. ASSUME NEW line \in BoundLines, Verifies(line), Readable(history)'
      PROVE  line \in BoundLines' /\ Verifies(line)'
  <2>1. PICK i \in 1..Len(ledger.lines) :
          line = ledger.lines[i] /\ IsBinding(ledger.lines[i])
    BY <1>3 DEF BoundLines
  <2>2. i \in 1..Len(ledger'.lines) /\ ledger'.lines[i] = line
    BY <1>1, <1>2, <2>1 DEF Grows
  <2>3. line \in BoundLines'
    BY <2>1, <2>2 DEF BoundLines
  <2>4. Recorded(line.state)'
    BY <1>1, <1>3 DEF Verifies, Grows
  <2>. QED BY <1>3, <2>3, <2>4 DEF Verifies
<1>. QED BY <1>3

\* Every reachable state is well typed; in particular a signer that is about
\* to record has a job, with a state if and only if it has a key.
THEOREM TypeCorrect ==
  ASSUME AttestationsAssumption
  PROVE  Spec => []TypeOK
<1>1. IInv => TypeOK
  BY DEF IInv
<1>. QED BY Invariance, <1>1, PTL

\* append_attestation_trust_state never writes what its readers reject, save
\* for a key that returns and a write that is interrupted.
THEOREM AcceptedHistoryReads ==
  ASSUME AttestationsAssumption
  PROVE  Spec => []HistoryReadable
<1>1. IInv => HistoryReadable
  BY DEF IInv, TrustInv, HistoryReadable, Readable
<1>. QED BY Invariance, <1>1, PTL

\* A signer's state was current when it was loaded, is in the history since
\* before, and has the signing key active: the binding verifies, whatever
\* publishers do meanwhile.
THEOREM RecordedBindingsVerify ==
  ASSUME AttestationsAssumption
  PROVE  Spec => []BindingsVerify
<1>1. IInv => BindingsVerify
  BY DEF IInv, Backed, BindingsVerify, BoundLines, Verifies
<1>. QED BY Invariance, <1>1, PTL

\* The store of attestations reads back as one chain, whatever signers race
\* for its tip and wherever an append is cut, and as long as none is cut every
\* signed outcome has its binding: append_signed writes both or neither.
THEOREM LedgerStaysReadable ==
  ASSUME AttestationsAssumption
  PROVE  Spec => []LedgerSound
<1>1. ASSUME IInv PROVE LedgerReadable
  BY <1>1 DEF IInv, LedgerInv, LedgerReadable, LedgerReads
<1>2. ASSUME IInv PROVE SignedOutcomesBound
  BY <1>2 DEF IInv, LedgerInv, BoundIn, SignedOutcomesBound, BoundLines
<1>3. IInv => LedgerSound
  BY <1>1, <1>2 DEF LedgerSound
<1>. QED BY Invariance, <1>3, PTL

\* Later revocation or supersession of the key takes no attestation away.
THEOREM VerifiabilityIsKept ==
  ASSUME AttestationsAssumption
  PROVE  Spec => VerifiedStaysVerifiable
<1>1. IInv /\ [Next]_vars =>
        [\A line \in BoundLines :
           Verifies(line) /\ Readable(history)' =>
             line \in BoundLines' /\ Verifies(line)']_vars
  BY VerifiableStep
<1>. QED BY Invariance, <1>1, PTL DEF Spec, VerifiedStaysVerifiable

\* The tip of the history implements the key lifecycle.
THEOREM HistoryImplementsLifecycle ==
  ASSUME AttestationsAssumption
  PROVE  Spec => KeyLifecycleSpec
<1>1. Init => Lifecycle!Init
  BY DEF Init, TrustInit, EmptyFile, Trusted, Lifecycle!Init
<1>2. IInv /\ [Next]_vars => [Lifecycle!Next]_Trusted
  BY LifecycleStep
<1>. QED BY Invariance, <1>1, <1>2, PTL DEF Spec, KeyLifecycleSpec, Lifecycle!Spec

-----------------------------------------------------------------------------
(* The attestation trust page.  What a request has read so far was in the  *)
(* files then, and both files only grow, so that it is there still.        *)

BindingStatuses ==
  {"not-recorded", "trust-state-unavailable", "authority-not-configured", "verified"}

KeyStatuses ==
  {"unsigned", "trust-state-unconfigured", "trust-state-unauthenticated", "untrusted"}
    \union Statuses

Rows ==
  [outcome : Outcomes, key : KeyStatuses, binding : BindingStatuses, everActive : BOOLEAN]

Views ==
  [step : 1..4, result : {"pending", "answered", "refused"}, sources : Configurations,
   lines : Seq(Outcomes \union Bindings), state : Signed \union {NoState},
   states : Seq(Signed), rows : SUBSET Rows, disturbed : BOOLEAN]

ViewTyped == view = NoView \/ view \in Views

\* The lines that were read are still in the store.
LinesHold ==
  /\ \A i \in 1..Len(view.lines) :
       \E k \in 1..Len(ledger.lines) : ledger.lines[k] = view.lines[i]
  /\ interruptions = 0 => BoundIn(view.lines)

\* The states that were read are still in the history.
StatesHold ==
  /\ view.state # NoState => Recorded(view.state)
  /\ \A i \in 1..Len(view.states) : Recorded(view.states[i])

\* The history was read after the attestations.
HistoryCovers ==
  view.step = 4 /\ "history" \in view.sources =>
    \A i \in 1..Len(view.lines) :
      IsBinding(view.lines[i]) =>
        \E k \in 1..Len(view.states) : view.states[k] = view.lines[i].state

\* Without a publication in between, what was read is what there is.
Undisturbed ==
  ~view.disturbed =>
    /\ ~Unsettled
    /\ view.result = "pending" => /\ view.state \in {NoState, current}
                                  /\ view.states \in {<<>>, history.lines}

PageInv ==
  /\ ViewTyped
  /\ view # NoView => LinesHold /\ StatesHold /\ HistoryCovers /\ Undisturbed
  /\ PagesSound
  /\ RefusalsExplained

\* What the other invariant gives a step, or a stutter, of the files.
LEMMA FilesGrow ==
  ASSUME AttestationsAssumption, IInv, [Next]_vars
  PROVE  /\ Grows
         /\ interruptions' = 0 => interruptions = 0
         /\ BoundLines \subseteq BoundLines'
         /\ ~RemovedKeysStayOut => ~RemovedKeysStayOut'
<1>1. IInv' /\ Grows
  BY StepIInv
<1>2. interruptions \in Nat /\ interruptions' \in Nat /\ MaxInterruptions \in Nat
  BY <1>1 DEF IInv, TrustInv, TrustTypeOK, AttestationsAssumption, ConstantsAssumption
<1>3. interruptions' = interruptions \/ interruptions' = interruptions + 1
  BY Zenon DEF Next, vars, Publish, AppendState, ReplayState, AppendInterrupted,
               ReplaceCurrent, LeaveCurrent, StartSigned, StartUnsigned, Build, Record,
               RecordInterrupted, Abandon
<1>4. interruptions' = 0 => interruptions = 0
  BY <1>2, <1>3
<1>5. Len(ledger.lines) \in Nat /\ Len(ledger'.lines) \in Nat
  BY <1>1 DEF IInv, TypeOK, Files
<1>6. BoundLines \subseteq BoundLines'
  <2>1. ASSUME NEW i \in 1..Len(ledger.lines), IsBinding(ledger.lines[i])
        PROVE  /\ i \in 1..Len(ledger'.lines) /\ IsBinding(ledger'.lines[i])
               /\ ledger'.lines[i] = ledger.lines[i]
    BY <1>1, <1>5, <2>1 DEF Grows
  <2>. QED BY <2>1, Zenon DEF BoundLines
<1>7. ~RemovedKeysStayOut => ~RemovedKeysStayOut'
  <2>1. history.lines \in Seq(Signed)
    BY DEF IInv, TrustInv, TrustTypeOK, Files
  <2>2. CASE history'.lines = history.lines
    BY <2>2 DEF RemovedKeysStayOut
  <2>3. ASSUME NEW s \in Signed, history'.lines = Append(history.lines, s)
        PROVE  ~RemovedKeysStayOut => ~RemovedKeysStayOut'
    <3> DEFINE h == history.lines
               g == history'.lines
    <3>1. Len(g) = Len(h) + 1 /\ Len(h) \in Nat /\ \A i \in 1..Len(h) : g[i] = h[i]
      BY <2>1, <2>3, AppendedLines
    <3>2. SUFFICES ASSUME KeysStayOut(g) PROVE KeysStayOut(h)
      BY DEF RemovedKeysStayOut
    <3>3. ASSUME NEW i \in 2..Len(h), NEW j \in 1..Len(h), j < i - 1
          PROVE  /\ i \in 2..Len(g) /\ j \in 1..Len(g)
                 /\ g[i] = h[i] /\ g[j] = h[j] /\ g[i - 1] = h[i - 1]
      <4>1. i \in 1..Len(h) /\ i - 1 \in 1..Len(h) /\ i \in 2..Len(g) /\ j \in 1..Len(g)
        BY <3>1, <3>3
      <4>. QED BY <3>1, <4>1
    <3> HIDE DEF g, h
    <3>. QED BY <3>2, <3>3, Zenon DEF KeysStayOut
  <2>. QED BY <2>2, <2>3, HistorySteps
<1>. QED BY <1>1, <1>4, <1>6, <1>7

\* The first page of nothing.
LEMMA ViewInitInv ==
  ASSUME ViewInit
  PROVE  PageInv
  BY DEF ViewInit, PageInv, ViewTyped, PagesSound, RefusalsExplained, Answered, Refused

\* The page's own promises survive what happens to the files.
LEMMA PromisesKept ==
  ASSUME AttestationsAssumption, IInv, [Next]_vars, PagesSound, RefusalsExplained,
         UNCHANGED trustVars \/ view'.disturbed,
         \/ view' = view
         \/ /\ view \in Views /\ view # NoView
            /\ view' = [view EXCEPT !.disturbed = TRUE]
  PROVE  PagesSound' /\ RefusalsExplained'
<1>1. /\ Grows
      /\ interruptions' = 0 => interruptions = 0
      /\ BoundLines \subseteq BoundLines'
      /\ ~RemovedKeysStayOut => ~RemovedKeysStayOut'
  BY FilesGrow
<1>2. /\ Answered' => Answered
      /\ Answered' => view'.rows = view.rows /\ view'.sources = view.sources
                      /\ view'.state = view.state
  <2>1. CASE view' = view
    BY <2>1 DEF Answered
  <2>2. CASE view \in Views /\ view # NoView /\ view' = [view EXCEPT !.disturbed = TRUE]
    <3>1. /\ view'.result = view.result /\ view'.rows = view.rows
          /\ view'.sources = view.sources /\ view'.state = view.state
      BY <2>2 DEF Views
    <3>. QED BY <2>2, <3>1 DEF Answered
  <2>. QED BY <2>1, <2>2
<1>3. PagesSound'
  <2>1. SUFFICES ASSUME Answered', NEW row \in view'.rows
        PROVE  /\ row.binding = "verified" =>
                    /\ \E line \in BoundLines' :
                         /\ OutcomeOf(line) = row.outcome
                         /\ Recorded(line.state)'
                         /\ KeyActive(line.state, line.key)
                    /\ "history" \in view'.sources => row.everActive
               /\ "history" \in view'.sources => row.binding # "trust-state-unavailable"
               /\ interruptions' = 0 /\ row.outcome.key # NoKey =>
                    row.binding # "not-recorded"
               /\ row.key = "active" => Recorded(view.state)' /\ view'.state = view.state
    BY Zenon DEF PagesSound
  <2>2. Answered /\ row \in view.rows /\ view'.sources = view.sources
        /\ view'.state = view.state
    BY <1>2, <2>1
  <2>. QED BY <1>1, <2>2, Zenon DEF PagesSound, Grows
<1>4. RefusalsExplained'
  <2>1. SUFFICES ASSUME Refused'
        PROVE  view'.disturbed \/ interruptions' > 0 \/ ~RemovedKeysStayOut'
               \/ current' = NoState
    BY DEF RefusalsExplained
  <2>2. CASE view'.disturbed
    BY <2>2
  <2>3. CASE UNCHANGED trustVars /\ ~view'.disturbed
    <3>1. view' = view /\ current' = current
      BY <2>3 DEF trustVars, Views
    <3>2. view.disturbed \/ interruptions > 0 \/ ~RemovedKeysStayOut \/ current = NoState
      BY <2>1, <3>1 DEF RefusalsExplained, Refused
    <3>3. interruptions \in Nat /\ interruptions' \in Nat
      BY StepIInv DEF IInv, TrustInv, TrustTypeOK, AttestationsAssumption,
                      ConstantsAssumption
    <3>4. interruptions > 0 => interruptions' > 0
      BY <1>1, <3>3
    <3>. QED BY <1>1, <2>3, <3>1, <3>2, <3>4
  <2>. QED BY <2>2, <2>3
<1>. QED BY <1>3, <1>4

\* What was read stays there while the files move on.
LEMMA ReadingsKept ==
  ASSUME AttestationsAssumption, IInv, [Next]_vars, view \in Views, LinesHold, StatesHold,
         view'.lines = view.lines, view'.state = view.state, view'.states = view.states
  PROVE  LinesHold' /\ StatesHold'
<1>1. Grows /\ (interruptions' = 0 => interruptions = 0)
  BY FilesGrow
<1>2. Len(ledger.lines) \in Nat /\ Len(ledger'.lines) \in Nat
  BY StepIInv DEF IInv, TypeOK, Files
<1>3. ASSUME NEW k \in 1..Len(ledger.lines)
      PROVE  k \in 1..Len(ledger'.lines) /\ ledger'.lines[k] = ledger.lines[k]
  BY <1>1, <1>2 DEF Grows
<1>4. LinesHold'
  BY <1>1, <1>3, Zenon DEF LinesHold
<1>5. StatesHold'
  BY <1>1, Zenon DEF StatesHold, Grows
<1>. QED BY <1>4, <1>5

LEMMA FilesMove ==
  ASSUME AttestationsAssumption, IInv, PageInv, [Next]_vars,
         view' = IF view = NoView \/ UNCHANGED trustVars THEN view
                 ELSE [view EXCEPT !.disturbed = TRUE]
  PROVE  PageInv'
<1>1. CASE view' = NoView
  BY <1>1 DEF PageInv, ViewTyped, PagesSound, RefusalsExplained, Answered, Refused
<1>2. CASE view' # NoView
  <2>1. view # NoView /\ view \in Views
    BY <1>2, Zenon DEF PageInv, ViewTyped
  <2>2. \/ UNCHANGED trustVars /\ view' = view
        \/ view' = [view EXCEPT !.disturbed = TRUE]
    BY <2>1, Zenon
  <2>3. /\ view' \in Views
        /\ view'.step = view.step /\ view'.result = view.result
        /\ view'.sources = view.sources /\ view'.lines = view.lines
        /\ view'.state = view.state /\ view'.states = view.states
        /\ view'.disturbed \/ (UNCHANGED trustVars /\ ~view.disturbed)
    BY <2>1, <2>2 DEF Views
  <2>4. PagesSound' /\ RefusalsExplained'
    <3>1. UNCHANGED trustVars \/ view'.disturbed
      BY <2>3, Zenon
    <3>. QED BY <2>1, <2>2, <3>1, PromisesKept, Zenon DEF PageInv
  <2>5. LinesHold' /\ StatesHold'
    BY <2>1, <2>3, ReadingsKept, Zenon DEF PageInv
  <2>6. HistoryCovers'
    <3>1. HistoryCovers /\ view'.step = view.step /\ view'.sources = view.sources
          /\ view'.lines = view.lines /\ view'.states = view.states
      BY <2>1, <2>3, Zenon DEF PageInv
    <3>. QED BY <3>1, SMT DEF HistoryCovers, IsBinding
  <2>7. Undisturbed'
    BY <2>1, <2>3 DEF Undisturbed, PageInv, trustVars, Unsettled
  <2>. QED BY <2>3, <2>4, <2>5, <2>6, <2>7, Zenon DEF PageInv, ViewTyped
<1>. QED BY <1>1, <1>2

\* The request alone moves, and is not answered.
LEMMA RequestMoves ==
  ASSUME UNCHANGED vars, view' \in Views, view'.result # "answered",
         LinesHold', StatesHold', HistoryCovers', Undisturbed',
         view'.result = "refused" =>
           view'.disturbed \/ interruptions > 0 \/ ~RemovedKeysStayOut \/ current = NoState
  PROVE  PageInv'
<1>1. interruptions' = interruptions /\ current' = current /\ history' = history
  BY DEF vars
<1>2. PagesSound'
  BY Zenon DEF PagesSound, Answered
<1>3. RefusalsExplained'
  BY <1>1 DEF RefusalsExplained, Refused, RemovedKeysStayOut
<1>. QED BY <1>2, <1>3, Zenon DEF PageInv, ViewTyped

LEMMA BeginKeeps ==
  ASSUME IInv, NEW sources \in Configurations, Begin(sources)
  PROVE  PageInv'
<1>1. view' = [step |-> 1, result |-> "pending", sources |-> sources, lines |-> <<>>,
               state |-> NoState, states |-> <<>>, rows |-> {}, disturbed |-> Unsettled]
  BY Zenon DEF Begin
<1>2. /\ UNCHANGED vars /\ history' = history /\ current' = current
      /\ publishing' = publishing
  BY DEF Begin, vars
<1>3. Unsettled \in BOOLEAN
  BY DEF Unsettled
<1>4. /\ view' \in Views /\ view'.result = "pending" /\ view'.step = 1
      /\ view'.lines = <<>> /\ view'.state = NoState /\ view'.states = <<>>
      /\ view'.disturbed = Unsettled
  BY <1>1, <1>3 DEF Views
<1>5. LinesHold' /\ StatesHold' /\ HistoryCovers'
  BY <1>4 DEF LinesHold, StatesHold, HistoryCovers, BoundIn
<1>6. Unsettled' <=> Unsettled
  BY <1>2 DEF Unsettled
<1>7. Undisturbed'
  BY <1>3, <1>4, <1>6 DEF Undisturbed
<1>. QED BY <1>2, <1>4, <1>5, <1>7, RequestMoves

\* The request is refused with a reason.
LEMMA RefuseKeeps ==
  ASSUME PageInv, view # NoView, Refuse, UNCHANGED vars,
         view.disturbed \/ interruptions > 0 \/ ~RemovedKeysStayOut \/ current = NoState
  PROVE  PageInv'
<1>1. view \in Views /\ view' = [view EXCEPT !.result = "refused"]
  BY DEF PageInv, ViewTyped, Refuse
<1>2. /\ view' \in Views /\ view'.result = "refused" /\ view'.step = view.step
      /\ view'.lines = view.lines /\ view'.state = view.state
      /\ view'.states = view.states /\ view'.disturbed = view.disturbed
      /\ view'.sources = view.sources
  BY <1>1 DEF Views
<1>3. UNCHANGED <<history, current, publishing, ledger, interruptions>>
  BY DEF vars
<1>4. LinesHold' /\ StatesHold' /\ HistoryCovers'
  BY <1>2, <1>3 DEF PageInv, LinesHold, StatesHold, HistoryCovers, Recorded
<1>5. Undisturbed'
  BY <1>2, <1>3 DEF PageInv, Undisturbed, Unsettled
<1>. QED BY <1>2, <1>4, <1>5, RequestMoves

LEMMA ReadingStep ==
  ASSUME PageInv, NEW source \in {"attestations", "state", "history"}, Reading(source)
  PROVE  /\ view \in Views /\ view # NoView /\ view.result = "pending"
         /\ LinesHold /\ StatesHold /\ HistoryCovers /\ Undisturbed
         /\ view.step \in 1..3
         /\ view.step = 3 <=> source = "history"
<1>1. /\ view \in Views /\ view # NoView /\ view.result = "pending"
      /\ LinesHold /\ StatesHold /\ HistoryCovers /\ Undisturbed
      /\ Order[view.step] = source /\ view.step <= Len(Order)
  BY Zenon DEF PageInv, ViewTyped, Reading
<1>2. Len(Order) = 3 /\ view.step \in 1..4
  BY <1>1 DEF Order, Views
<1>3. view.step \in 1..3
  BY <1>1, <1>2
<1>4. view.step = 3 <=> source = "history"
  BY <1>1, <1>3 DEF Order
<1>. QED BY <1>1, <1>3, <1>4

\* The next source.
Stepped == [view EXCEPT !.step = view.step + 1]

LEMMA SteppedFields ==
  ASSUME view \in Views, view.step \in 1..3
  PROVE  /\ Stepped \in Views /\ Stepped.result = view.result
         /\ Stepped.step = view.step + 1 /\ Stepped.lines = view.lines
         /\ Stepped.state = view.state /\ Stepped.states = view.states
         /\ Stepped.disturbed = view.disturbed /\ Stepped.sources = view.sources
  BY DEF Views, Stepped

LEMMA SkipKeeps ==
  ASSUME PageInv, NEW source \in {"attestations", "state", "history"}, Skip(source)
  PROVE  PageInv'
<1>1. /\ Reading(source) /\ source \notin view.sources /\ UNCHANGED vars
      /\ view' = [view EXCEPT !.step = @ + 1]
  BY Zenon DEF Skip
<1>2. /\ view \in Views /\ view # NoView /\ view.result = "pending"
      /\ LinesHold /\ StatesHold /\ HistoryCovers /\ Undisturbed
      /\ view.step \in 1..3 /\ (view.step = 3 <=> source = "history")
  BY <1>1, ReadingStep
<1>3. /\ view' \in Views /\ view'.result = "pending" /\ view'.step = view.step + 1
      /\ view'.lines = view.lines /\ view'.state = view.state
      /\ view'.states = view.states /\ view'.disturbed = view.disturbed
      /\ view'.sources = view.sources
  BY <1>1, <1>2 DEF Views
<1>4. UNCHANGED <<history, current, publishing, ledger, interruptions>>
  BY <1>1 DEF vars
<1>5. LinesHold' /\ StatesHold'
  BY <1>2, <1>3, <1>4 DEF LinesHold, StatesHold, Recorded
<1>6. HistoryCovers'
  BY <1>1, <1>2, <1>3 DEF HistoryCovers
<1>7. Undisturbed'
  BY <1>2, <1>3, <1>4 DEF Undisturbed, Unsettled
<1>. QED BY <1>1, <1>3, <1>5, <1>6, <1>7, RequestMoves

LEMMA ReadAttestationsKeeps ==
  ASSUME AttestationsAssumption, IInv, PageInv, ReadAttestations
  PROVE  PageInv'
<1>1. Reading("attestations") /\ UNCHANGED vars
  BY Zenon DEF ReadAttestations
<1>2. /\ view \in Views /\ view # NoView /\ view.result = "pending"
      /\ LinesHold /\ StatesHold /\ HistoryCovers /\ Undisturbed
      /\ view.step \in 1..2
  <2>1. view.step \in 1..3 /\ view.step # 3
    BY <1>1, ReadingStep
  <2>2. view.step \in 1..2
    BY <2>1
  <2>. QED BY <1>1, <2>2, ReadingStep
<1>3. CASE LedgerReads
  <2>0. view' = [Stepped EXCEPT !.lines = ledger.lines]
    BY <1>3, Zenon DEF ReadAttestations, Stepped
  <2>1. /\ Stepped \in Views /\ Stepped.result = view.result
        /\ Stepped.step = view.step + 1 /\ Stepped.lines = view.lines
        /\ Stepped.state = view.state /\ Stepped.states = view.states
        /\ Stepped.disturbed = view.disturbed /\ Stepped.sources = view.sources
    BY <1>2, SteppedFields
  <2>2. ledger.lines \in Seq(Outcomes \union Bindings)
    BY DEF IInv, TypeOK, Files
  <2>3. /\ view' \in Views /\ view'.result = "pending" /\ view'.step = view.step + 1
        /\ view'.lines = ledger.lines /\ view'.state = view.state
        /\ view'.states = view.states /\ view'.disturbed = view.disturbed
        /\ view'.sources = view.sources
    BY <1>2, <2>0, <2>1, <2>2 DEF Views
  <2>4. UNCHANGED <<history, current, publishing, ledger, interruptions>>
    BY <1>1 DEF vars
  <2>5. LinesHold'
    BY <2>3, <2>4, Zenon DEF LinesHold, IInv, LedgerInv
  <2>6. StatesHold'
    BY <1>2, <2>3, <2>4 DEF StatesHold, Recorded
  <2>7. HistoryCovers'
    BY <1>2, <2>3 DEF HistoryCovers
  <2>8. Undisturbed'
    BY <1>2, <2>3, <2>4 DEF Undisturbed, Unsettled
  <2>. QED BY <1>1, <2>3, <2>5, <2>6, <2>7, <2>8, RequestMoves
<1>4. CASE ~LedgerReads
  <2>1. Refuse
    BY <1>4, Zenon DEF ReadAttestations
  <2>2. interruptions # 0
    BY <1>4 DEF LedgerReads, IInv, LedgerInv
  <2>3. interruptions > 0
    BY <2>2 DEF IInv, TrustInv, TrustTypeOK, AttestationsAssumption, ConstantsAssumption
  <2>. QED BY <1>1, <1>2, <2>1, <2>3, RefuseKeeps
<1>. QED BY <1>3, <1>4

LEMMA ReadStateKeeps ==
  ASSUME AttestationsAssumption, IInv, PageInv, ReadState
  PROVE  PageInv'
<1>1. Reading("state") /\ UNCHANGED vars
  BY Zenon DEF ReadState
<1>2. /\ view \in Views /\ view # NoView /\ view.result = "pending"
      /\ LinesHold /\ StatesHold /\ HistoryCovers /\ Undisturbed
      /\ view.step \in 1..2
  <2>1. view.step \in 1..3 /\ view.step # 3
    BY <1>1, ReadingStep
  <2>2. view.step \in 1..2
    BY <2>1
  <2>. QED BY <1>1, <2>2, ReadingStep
<1>3. CASE current # NoState
  <2>0. view' = [Stepped EXCEPT !.state = current]
    BY <1>3, Zenon DEF ReadState, Stepped
  <2>1. /\ Stepped \in Views /\ Stepped.result = view.result
        /\ Stepped.step = view.step + 1 /\ Stepped.lines = view.lines
        /\ Stepped.state = view.state /\ Stepped.states = view.states
        /\ Stepped.disturbed = view.disturbed /\ Stepped.sources = view.sources
    BY <1>2, SteppedFields
  <2>2. current \in Signed /\ Recorded(current)
    BY <1>3 DEF IInv, TrustInv, TrustTypeOK
  <2>3. /\ view' \in Views /\ view'.result = "pending" /\ view'.step = view.step + 1
        /\ view'.lines = view.lines /\ view'.state = current
        /\ view'.states = view.states /\ view'.disturbed = view.disturbed
        /\ view'.sources = view.sources
    BY <1>2, <2>0, <2>1, <2>2 DEF Views
  <2>4. UNCHANGED <<history, current, publishing, ledger, interruptions>>
    BY <1>1 DEF vars
  <2>5. LinesHold'
    BY <1>2, <2>3, <2>4 DEF LinesHold
  <2>6. StatesHold'
    BY <1>2, <2>2, <2>3, <2>4 DEF StatesHold, Recorded
  <2>7. HistoryCovers'
    BY <1>2, <2>3 DEF HistoryCovers
  <2>8. Undisturbed'
    BY <1>2, <2>3, <2>4 DEF Undisturbed, Unsettled
  <2>. QED BY <1>1, <2>3, <2>5, <2>6, <2>7, <2>8, RequestMoves
<1>4. CASE current = NoState
  <2>1. Refuse
    BY <1>4, Zenon DEF ReadState
  <2>. QED BY <1>1, <1>2, <1>4, <2>1, RefuseKeeps
<1>. QED BY <1>3, <1>4

LEMMA ReadHistoryKeeps ==
  ASSUME AttestationsAssumption, IInv, PageInv, ReadHistory
  PROVE  PageInv'
<1>1. Reading("history") /\ UNCHANGED vars
  BY Zenon DEF ReadHistory
<1>2. /\ view \in Views /\ view # NoView /\ view.result = "pending"
      /\ LinesHold /\ StatesHold /\ HistoryCovers /\ Undisturbed
      /\ view.step \in 1..3
  BY <1>1, ReadingStep
<1>3. CASE Readable(history)
  <2>0. view' = [Stepped EXCEPT !.states = history.lines]
    BY <1>3, Zenon DEF ReadHistory, Stepped
  <2>1. /\ Stepped \in Views /\ Stepped.result = view.result
        /\ Stepped.step = view.step + 1 /\ Stepped.lines = view.lines
        /\ Stepped.state = view.state /\ Stepped.states = view.states
        /\ Stepped.disturbed = view.disturbed /\ Stepped.sources = view.sources
    BY <1>2, SteppedFields
  <2>2. history.lines \in Seq(Signed)
    BY DEF IInv, TrustInv, TrustTypeOK, Files
  <2>3. /\ view' \in Views /\ view'.result = "pending" /\ view'.step = view.step + 1
        /\ view'.lines = view.lines /\ view'.state = view.state
        /\ view'.states = history.lines /\ view'.disturbed = view.disturbed
        /\ view'.sources = view.sources
    BY <1>2, <2>0, <2>1, <2>2 DEF Views
  <2>4. UNCHANGED <<history, current, publishing, ledger, interruptions>>
    BY <1>1 DEF vars
  <2>5. LinesHold'
    BY <1>2, <2>3, <2>4 DEF LinesHold
  <2>6. StatesHold'
    BY <1>2, <2>3, <2>4 DEF StatesHold, Recorded
  <2>7. HistoryCovers'
    <3>1. ASSUME NEW i \in 1..Len(view.lines), IsBinding(view.lines[i])
          PROVE  \E k \in 1..Len(history.lines) : history.lines[k] = view.lines[i].state
      <4>1. PICK k \in 1..Len(ledger.lines) : ledger.lines[k] = view.lines[i]
        BY <1>2 DEF LinesHold
      <4>2. IsBinding(ledger.lines[k])
        BY <3>1, <4>1
      <4>3. Recorded(ledger.lines[k].state)
        BY <4>2, Zenon DEF IInv, Backed
      <4>. QED BY <4>1, <4>3 DEF Recorded
    <3>. QED BY <2>3, <3>1, SMT DEF HistoryCovers, IsBinding
  <2>8. Undisturbed'
    BY <1>2, <2>3, <2>4 DEF Undisturbed, Unsettled
  <2>. QED BY <1>1, <2>3, <2>5, <2>6, <2>7, <2>8, RequestMoves
<1>4. CASE ~Readable(history)
  <2>1. Refuse
    BY <1>4, Zenon DEF ReadHistory
  <2>2. interruptions # 0 \/ ~RemovedKeysStayOut
    BY <1>4 DEF Readable, IInv, TrustInv, RemovedKeysStayOut
  <2>3. interruptions > 0 \/ ~RemovedKeysStayOut
    BY <2>2 DEF IInv, TrustInv, TrustTypeOK, AttestationsAssumption, ConstantsAssumption
  <2>. QED BY <1>1, <1>2, <2>1, <2>3, RefuseKeeps
<1>. QED BY <1>3, <1>4

LEMMA ChangeKeeps ==
  ASSUME AttestationsAssumption, IInv, PageInv, NEW c \in Signers, AttestationsChange(c)
  PROVE  PageInv'
<1>1. Reading("attestations") /\ Record(c)
      /\ view' = [view EXCEPT !.result = "refused", !.disturbed = TRUE]
  BY Zenon DEF AttestationsChange
<1>2. Next
  BY <1>1 DEF Next
<1>3. view \in Views /\ LinesHold /\ StatesHold /\ HistoryCovers
  BY <1>1, ReadingStep
<1> DEFINE refused == [view EXCEPT !.result = "refused"]
<1>4. /\ refused \in Views /\ refused.result = "refused" /\ refused.step = view.step
      /\ refused.lines = view.lines /\ refused.state = view.state
      /\ refused.states = view.states /\ refused.sources = view.sources
  BY <1>3 DEF Views
<1>5. view' = [refused EXCEPT !.disturbed = TRUE]
  BY <1>1, Zenon
<1> HIDE DEF refused
<1>6. /\ view' \in Views /\ view'.result = "refused" /\ view'.step = view.step
      /\ view'.lines = view.lines /\ view'.state = view.state
      /\ view'.states = view.states /\ view'.sources = view.sources
      /\ view'.disturbed
  BY <1>4, <1>5 DEF Views
<1>7. LinesHold' /\ StatesHold'
  BY <1>2, <1>3, <1>6, ReadingsKept
<1>8. HistoryCovers'
  BY <1>3, <1>6, SMT DEF HistoryCovers, IsBinding
<1>9. Undisturbed' /\ PagesSound' /\ RefusalsExplained'
  BY <1>6, SMT DEF Undisturbed, PagesSound, RefusalsExplained, Answered
<1>. QED BY <1>6, <1>7, <1>8, <1>9, Zenon DEF PageInv, ViewTyped

-----------------------------------------------------------------------------
(* What is made of the readings.                                           *)

\* The state that is shown is published, and so are all that were read.
LEMMA ShownRecorded ==
  ASSUME AttestationsAssumption, view \in Views, StatesHold
  PROVE  /\ StateShown \in Signed \union {NoState}
         /\ StateShown # NoState => Recorded(StateShown)
<1>1. view.states \in Seq(Signed) /\ view.state \in Signed \union {NoState}
  BY DEF Views
<1>2. CASE view.states = <<>>
  BY <1>1, <1>2 DEF StateShown, HistoryTip, StatesHold
<1>3. CASE view.states # <<>>
  <2>1. Len(view.states) \in 1..Len(view.states)
    BY <1>1, <1>3
  <2>2. view.states[Len(view.states)] \in Signed
    BY <1>1, <2>1
  <2>. QED BY <1>1, <1>3, <2>1, <2>2 DEF StateShown, HistoryTip, StatesHold
<1>. QED BY <1>2, <1>3

\* Every line that was read is of the store, and its state is published.
LEMMA ViewedLines ==
  ASSUME AttestationsAssumption, IInv, view \in Views, LinesHold
  PROVE  /\ ViewedOutcomes \subseteq Outcomes
         /\ \A line \in ViewedBindings :
              /\ line \in Bindings /\ line \in BoundLines
              /\ line.state # NoState
              /\ OutcomeOf(line).key = line.key
              /\ Backed(line)
         /\ interruptions = 0 =>
              \A outcome \in ViewedOutcomes :
                outcome.key # NoKey =>
                  \E line \in ViewedBindings : OutcomeOf(line) = outcome
<1>1. view.lines \in Seq(Outcomes \union Bindings) /\ NoState \notin Signed
  BY DEF Views, AttestationsAssumption, ConstantsAssumption
<1>2. ASSUME NEW line \in ViewedOutcomes PROVE line \in Outcomes
  <2>1. PICK i \in 1..Len(view.lines) : line = view.lines[i] /\ ~IsBinding(view.lines[i])
    BY <1>2 DEF ViewedOutcomes
  <2>2. line \in Outcomes \union Bindings
    BY <1>1, <2>1
  <2>. QED BY <1>1, <2>1, <2>2 DEF IsBinding, Bindings
<1>3. ASSUME NEW line \in ViewedBindings
      PROVE  /\ line \in Bindings /\ line \in BoundLines
             /\ line.state # NoState
             /\ OutcomeOf(line).key = line.key
             /\ Backed(line)
  <2>1. PICK i \in 1..Len(view.lines) : line = view.lines[i] /\ IsBinding(view.lines[i])
    BY <1>3 DEF ViewedBindings
  <2>2. line \in Outcomes \union Bindings
    BY <1>1, <2>1
  <2>3. line \in Bindings /\ line.state # NoState
    BY <2>1, <2>2 DEF IsBinding, Outcomes
  <2>4. OutcomeOf(line).key = line.key
    BY <2>3 DEF OutcomeOf, Bindings
  <2>5. PICK k \in 1..Len(ledger.lines) : ledger.lines[k] = line
    BY <2>1, Zenon DEF LinesHold
  <2>6. IsBinding(ledger.lines[k])
    BY <2>3, <2>5 DEF IsBinding
  <2>7. Backed(line)
    BY <2>5, <2>6, Zenon DEF IInv
  <2>8. line \in BoundLines
    BY <2>5, <2>6 DEF BoundLines
  <2>. QED BY <2>3, <2>4, <2>7, <2>8
<1>4. ASSUME interruptions = 0, NEW outcome \in ViewedOutcomes, outcome.key # NoKey
      PROVE  \E line \in ViewedBindings : OutcomeOf(line) = outcome
  <2>1. PICK i \in 1..Len(view.lines) : outcome = view.lines[i] /\ ~IsBinding(view.lines[i])
    BY <1>4 DEF ViewedOutcomes
  <2>2. PICK k \in 1..Len(view.lines) :
          IsBinding(view.lines[k]) /\ OutcomeOf(view.lines[k]) = view.lines[i]
    BY <1>4, <2>1, Zenon DEF LinesHold, BoundIn
  <2>3. view.lines[k] \in ViewedBindings
    BY <2>2, Zenon DEF ViewedBindings
  <2>. QED BY <2>1, <2>2, <2>3
<1>. QED BY <1>2, <1>3, <1>4

LEMMA KeyStatusFacts ==
  ASSUME AttestationsAssumption, StateShown \in Signed \union {NoState}, NEW key
  PROVE  /\ KeyStatus(key) \in KeyStatuses
         /\ KeyStatus(key) = "active" => StateShown # NoState
<1> DEFINE anchors == StateShown.anchors
<1>1. StateShown # NoState => \A k \in DOMAIN anchors : anchors[k].status \in Statuses
  BY Zenon DEF AttestationsAssumption, ConstantsAssumption, WellFormedAnchors
<1>2. CASE key = NoKey
  BY <1>2 DEF KeyStatus, KeyStatuses
<1>3. CASE key # NoKey /\ StateShown = NoState
  BY <1>3 DEF KeyStatus, KeyStatuses
<1>4. CASE key # NoKey /\ StateShown # NoState /\ ~Authenticated
  BY <1>4 DEF KeyStatus, KeyStatuses
<1>5. CASE key # NoKey /\ StateShown # NoState /\ Authenticated /\ key \notin DOMAIN anchors
  BY <1>5 DEF KeyStatus, KeyStatuses
<1>6. CASE key # NoKey /\ StateShown # NoState /\ Authenticated /\ key \in DOMAIN anchors
  <2>1. KeyStatus(key) = anchors[key].status
    BY <1>6 DEF KeyStatus
  <2>. QED BY <1>1, <1>6, <2>1 DEF KeyStatuses
<1>. QED BY <1>2, <1>3, <1>4, <1>5, <1>6

\* What a row says of an outcome is so.
LEMMA RowsSound ==
  ASSUME AttestationsAssumption, IInv, view \in Views, view.step = 4,
         LinesHold, StatesHold, HistoryCovers, NEW outcome \in ViewedOutcomes
  PROVE  LET row == Row(outcome) IN
         /\ row \in Rows
         /\ row.outcome = outcome
         /\ row.binding = "verified" =>
              /\ \E line \in BoundLines :
                   /\ OutcomeOf(line) = outcome
                   /\ Recorded(line.state)
                   /\ KeyActive(line.state, line.key)
              /\ "history" \in view.sources => row.everActive
         /\ "history" \in view.sources => row.binding # "trust-state-unavailable"
         /\ interruptions = 0 /\ outcome.key # NoKey => row.binding # "not-recorded"
         /\ row.key = "active" => Recorded(StateShown)
<1> DEFINE row == Row(outcome)
           bound == {line \in ViewedBindings : OutcomeOf(line) = outcome}
<1>1. /\ row.outcome = outcome /\ row.key = KeyStatus(outcome.key)
      /\ row.binding = BindingStatus(outcome) /\ row.everActive = EverActive(outcome.key)
  BY DEF Row
<1>2. outcome \in Outcomes
  BY ViewedLines
<1>3. StateShown \in Signed \union {NoState} /\ (StateShown # NoState => Recorded(StateShown))
  BY ShownRecorded
<1>4. KeyStatus(outcome.key) \in KeyStatuses
      /\ (KeyStatus(outcome.key) = "active" => Recorded(StateShown))
  BY <1>3, KeyStatusFacts
<1>5. BindingStatus(outcome) \in BindingStatuses
  BY DEF BindingStatus, BindingStatuses
<1>6. row \in Rows
  BY <1>2, <1>4, <1>5 DEF Row, Rows, EverActive
<1>7. ASSUME NEW line \in bound
      PROVE  /\ line \in Bindings /\ line \in BoundLines /\ line.state # NoState
             /\ OutcomeOf(line) = outcome
             /\ Recorded(line.state) /\ KeyActive(line.state, line.key)
             /\ line.key = outcome.key
  BY ViewedLines DEF Backed
<1>8. ASSUME NEW line \in bound, "history" \in view.sources
      PROVE  \E k \in 1..Len(view.states) : view.states[k] = line.state
  <2>1. PICK i \in 1..Len(view.lines) : line = view.lines[i] /\ IsBinding(view.lines[i])
    BY <1>8, Zenon DEF ViewedBindings
  <2>. QED BY <1>8, <2>1, SMT DEF HistoryCovers
<1>9. row.binding = "verified" =>
        bound # {} /\ Authenticated /\ \A line \in bound : line.state \in KnownStates
  <2>1. CASE bound = {}
    BY <1>1, <2>1 DEF BindingStatus
  <2>2. CASE \E line \in bound : line.state \notin KnownStates
    BY <1>1, <2>2 DEF BindingStatus
  <2>3. CASE ~Authenticated
    BY <1>1, <2>3 DEF BindingStatus
  <2>. QED BY <2>1, <2>2, <2>3
<1>10. row.binding = "verified" =>
         \E line \in BoundLines :
           OutcomeOf(line) = outcome /\ Recorded(line.state) /\ KeyActive(line.state, line.key)
  BY <1>7, <1>9
<1>11. row.binding = "verified" /\ "history" \in view.sources => row.everActive
  <2>1. SUFFICES ASSUME row.binding = "verified", "history" \in view.sources
                 PROVE  EverActive(outcome.key)
    BY <1>1
  <2>2. PICK line \in bound : TRUE
    BY <1>9, <2>1
  <2>3. PICK k \in 1..Len(view.states) : view.states[k] = line.state
    BY <1>8, <2>1
  <2>4. KeyActive(view.states[k], outcome.key)
    BY <1>7, <2>3
  <2>. QED BY <1>9, <2>1, <2>4 DEF EverActive
<1>12. "history" \in view.sources => row.binding # "trust-state-unavailable"
  <2>1. ASSUME "history" \in view.sources, NEW line \in bound PROVE line.state \in KnownStates
    BY <1>7, <1>8, <2>1 DEF KnownStates
  <2>2. "history" \in view.sources => ~\E line \in bound : line.state \notin KnownStates
    BY <2>1
  <2> HIDE DEF bound
  <2>3. "history" \in view.sources => BindingStatus(outcome) # "trust-state-unavailable"
    BY <2>2 DEF BindingStatus, bound
  <2>. QED BY <1>1, <2>3
<1>13. interruptions = 0 /\ outcome.key # NoKey => row.binding # "not-recorded"
  <2>1. interruptions = 0 /\ outcome.key # NoKey => bound # {}
    BY ViewedLines
  <2> HIDE DEF bound
  <2>2. bound # {} => BindingStatus(outcome) # "not-recorded"
    BY DEF BindingStatus, bound
  <2>. QED BY <1>1, <2>1, <2>2
<1>14. row.key = "active" => Recorded(StateShown)
  BY <1>1, <1>4
<1>. QED BY <1>1, <1>6, <1>10, <1>11, <1>12, <1>13, <1>14

\* The current state was read, and is not the tip of the history.
LEMMA MisalignedDisturbed ==
  ASSUME AttestationsAssumption, IInv, view \in Views, view.result = "pending",
         Undisturbed, ~Aligned
  PROVE  view.disturbed
<1> SUFFICES ASSUME ~view.disturbed PROVE FALSE
  OBVIOUS
<1>1. /\ ~Unsettled
      /\ view.state \in {NoState, current}
      /\ view.states \in {<<>>, history.lines}
  BY Zenon DEF Undisturbed
<1>2. HistoryTip # NoState /\ view.state # NoState /\ view.state # HistoryTip
  BY Zenon DEF Aligned, StateShown
<1>3. view.states # <<>>
  BY <1>2, Zenon DEF HistoryTip
<1>4. view.states = history.lines /\ view.state = current
  BY <1>1, <1>2, <1>3
<1>5. HistoryTip = history.lines[Len(history.lines)]
  BY <1>3, <1>4, Zenon DEF HistoryTip
<1>. QED BY <1>1, <1>2, <1>3, <1>4, <1>5, Zenon DEF Unsettled

LEMMA ProjectKeeps ==
  ASSUME AttestationsAssumption, IInv, PageInv, Project
  PROVE  PageInv'
<1>1. view # NoView /\ view.result = "pending" /\ view.step > Len(Order) /\ UNCHANGED vars
  BY Zenon DEF Project
<1>2. /\ view \in Views /\ LinesHold /\ StatesHold /\ HistoryCovers /\ Undisturbed
  BY <1>1, Zenon DEF PageInv, ViewTyped
<1>3. view.step = 4
  BY <1>1, <1>2 DEF Views, Order
<1>4. BindingsHold
  BY <1>2, ViewedLines, Zenon DEF BindingsHold, Backed, Holds
<1>5. CASE ~Aligned
  <2>1. Refuse
    BY <1>5, Zenon DEF Project
  <2>. QED BY <1>1, <1>2, <1>5, <2>1, MisalignedDisturbed, RefuseKeeps
<1>6. CASE Aligned
  <2> DEFINE rows == {Row(outcome) : outcome \in ViewedOutcomes}
             answered == [view EXCEPT !.result = "answered"]
             shown == [answered EXCEPT !.state = StateShown]
  <2>1. view' = [shown EXCEPT !.rows = rows]
    BY <1>4, <1>6, Zenon DEF Project
  <2>2. rows \subseteq Rows
    BY <1>2, <1>3, RowsSound
  <2>3. StateShown \in Signed \union {NoState} /\ (StateShown # NoState => Recorded(StateShown))
    BY <1>2, ShownRecorded
  <2>4. /\ answered \in Views /\ answered.result = "answered" /\ answered.step = view.step
        /\ answered.lines = view.lines /\ answered.states = view.states
        /\ answered.sources = view.sources /\ answered.disturbed = view.disturbed
    BY <1>2 DEF Views
  <2> HIDE DEF answered
  <2>5. /\ shown \in Views /\ shown.result = "answered" /\ shown.step = view.step
        /\ shown.lines = view.lines /\ shown.states = view.states
        /\ shown.sources = view.sources /\ shown.disturbed = view.disturbed
        /\ shown.state = StateShown
    BY <2>3, <2>4 DEF Views
  <2> HIDE DEF shown, rows
  <2>6. /\ view' \in Views /\ view'.result = "answered" /\ view'.step = view.step
        /\ view'.lines = view.lines /\ view'.states = view.states
        /\ view'.sources = view.sources /\ view'.disturbed = view.disturbed
        /\ view'.state = StateShown /\ view'.rows = rows
    BY <2>1, <2>2, <2>5 DEF Views
  <2>7. UNCHANGED <<history, current, publishing, ledger, interruptions>>
    BY <1>1 DEF vars
  <2>8. LinesHold'
    BY <1>2, <2>6, <2>7 DEF LinesHold
  <2>9. StatesHold'
    BY <1>2, <2>3, <2>6, <2>7 DEF StatesHold, Recorded
  <2>10. HistoryCovers'
    BY <1>2, <2>6, SMT DEF HistoryCovers, IsBinding
  <2>11. Undisturbed'
    BY <1>2, <2>6, <2>7 DEF Undisturbed, Unsettled
  <2>12. /\ BoundLines' = BoundLines
         /\ \A s : Recorded(s)' <=> Recorded(s)
    BY <2>7 DEF BoundLines, Recorded
  <2>13. PagesSound'
    <3>1. SUFFICES ASSUME NEW row \in rows
          PROVE  /\ row.binding = "verified" =>
                      /\ \E line \in BoundLines :
                           /\ OutcomeOf(line) = row.outcome
                           /\ Recorded(line.state)
                           /\ KeyActive(line.state, line.key)
                      /\ "history" \in view.sources => row.everActive
                 /\ "history" \in view.sources => row.binding # "trust-state-unavailable"
                 /\ interruptions = 0 /\ row.outcome.key # NoKey =>
                      row.binding # "not-recorded"
                 /\ row.key = "active" => Recorded(StateShown)
      <4>1. /\ view'.rows = rows /\ view'.sources = view.sources
            /\ view'.state = StateShown /\ interruptions' = interruptions
        BY <2>6, <2>7
      <4>. QED BY <2>12, <4>1, Zenon DEF PagesSound
    <3>2. PICK outcome \in ViewedOutcomes : row = Row(outcome)
      BY <3>1 DEF rows
    <3>. QED BY <1>2, <1>3, <3>2, RowsSound
  <2>14. RefusalsExplained'
    BY <2>6 DEF RefusalsExplained, Refused
  <2>. QED BY <2>6, <2>8, <2>9, <2>10, <2>11, <2>13, <2>14, Zenon DEF PageInv, ViewTyped
<1>. QED BY <1>5, <1>6

LEMMA LeaveKeeps ==
  ASSUME Leave
  PROVE  PageInv'
  BY DEF Leave, PageInv, ViewTyped, PagesSound, RefusalsExplained, Answered, Refused

LEMMA ViewStep ==
  ASSUME AttestationsAssumption, IInv, PageInv, [ViewNext]_viewVars
  PROVE  IInv' /\ PageInv'
<1>1. CASE UNCHANGED viewVars
  <2>1. UNCHANGED vars /\ view' = view
    BY <1>1 DEF viewVars
  <2>2. UNCHANGED trustVars
    BY <2>1 DEF vars, trustVars
  <2>3. view' = IF view = NoView \/ UNCHANGED trustVars THEN view
                ELSE [view EXCEPT !.disturbed = TRUE]
    BY <2>1, <2>2, Zenon
  <2>. QED BY <2>1, <2>3, StepIInv, FilesMove, Zenon
<1>2. CASE Meanwhile
  <2>1. Next /\ view' = IF view = NoView \/ UNCHANGED trustVars THEN view
                        ELSE [view EXCEPT !.disturbed = TRUE]
    BY <1>2, Zenon DEF Meanwhile
  <2>. QED BY <2>1, StepIInv, FilesMove
<1>3. ASSUME NEW sources \in Configurations, Begin(sources) PROVE IInv' /\ PageInv'
  <2>1. UNCHANGED vars
    BY <1>3 DEF Begin
  <2>. QED BY <1>3, <2>1, StepIInv, BeginKeeps
<1>4. ASSUME NEW source \in {"attestations", "state", "history"}, Skip(source)
      PROVE  IInv' /\ PageInv'
  <2>1. UNCHANGED vars
    BY <1>4 DEF Skip
  <2>. QED BY <1>4, <2>1, StepIInv, SkipKeeps
<1>5. CASE ReadAttestations \/ ReadState \/ ReadHistory
  <2>1. UNCHANGED vars
    BY <1>5, Zenon DEF ReadAttestations, ReadState, ReadHistory
  <2>. QED BY <1>5, <2>1, StepIInv, ReadAttestationsKeeps, ReadStateKeeps, ReadHistoryKeeps
<1>6. ASSUME NEW c \in Signers, AttestationsChange(c) PROVE IInv' /\ PageInv'
  <2>1. Next
    BY <1>6, Zenon DEF AttestationsChange, Next
  <2>. QED BY <1>6, <2>1, StepIInv, ChangeKeeps
<1>7. CASE Project \/ Leave
  <2>1. UNCHANGED vars
    BY <1>7, Zenon DEF Project, Leave
  <2>. QED BY <1>7, <2>1, StepIInv, ProjectKeeps, LeaveKeeps
<1>. QED BY <1>1, <1>2, <1>3, <1>4, <1>5, <1>6, <1>7, Zenon DEF ViewNext

\* A page says of a signed outcome what the files said when it was read and
\* still say, and refuses for a reason.
THEOREM TrustPageSound ==
  ASSUME AttestationsAssumption
  PROVE  ViewSpec => [](PagesSound /\ RefusalsExplained)
<1>1. IInv /\ PageInv => PagesSound /\ RefusalsExplained
  BY DEF PageInv
<1>2. Init /\ ViewInit => IInv /\ PageInv
  BY InitIInv, ViewInitInv
<1>3. (IInv /\ PageInv) /\ [ViewNext]_viewVars => (IInv /\ PageInv)'
  BY ViewStep
<1>. QED BY <1>1, <1>2, <1>3, PTL DEF ViewSpec
=============================================================================
