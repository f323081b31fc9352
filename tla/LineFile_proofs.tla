----------------------------- MODULE LineFile_proofs -----------------------------
(***************************************************************************)
(* What an append to a LineFile leaves, for the proofs about the stores    *)
(* that are kept in one: whether it completes or is interrupted, the       *)
(* complete records are the old ones, or those and the new one.            *)
(***************************************************************************)
EXTENDS LineFile, SequenceTheorems, TLAPS

\* A complete append.
LEMMA ExtendedOne ==
  ASSUME NEW R, NEW f \in Files(R), NEW r \in R
  PROVE  /\ Extended(f, <<r>>) \in Files(R)
         /\ Extended(f, <<r>>).lines = Append(f.lines, r)
<1>1. f.lines \in Seq(R) /\ f.end \in Ends
  BY DEF Files
<1>2. f.lines \o <<r>> = Append(f.lines, r)
  BY <1>1, AppendIsConcat
<1>3. Append(f.lines, r) \in Seq(R)
  BY <1>1
<1>. QED BY <1>1, <1>2, <1>3 DEF Extended, Files, Ends

\* An append of one record that is interrupted.
LEMMA InterruptedOne ==
  ASSUME NEW R, NEW f \in Files(R), NEW r \in R, NEW g \in Interrupted(f, <<r>>)
  PROVE  /\ g \in Files(R)
         /\ g.lines \in {f.lines, Append(f.lines, r)}
<1>1. f.lines \in Seq(R) /\ f.end \in Ends
  BY DEF Files
<1>2. CASE g = f
  BY <1>2
<1>3. CASE g # f
  <2>1. g \in [lines : {f.lines \o SubSeq(<<r>>, 1, m) : m \in 0..Len(<<r>>)},
               end : IF f.end = "open" THEN {"spoiled"} ELSE Ends]
    BY <1>3 DEF Interrupted
  <2>2. PICK m \in 0..1 : g.lines = f.lines \o SubSeq(<<r>>, 1, m)
    BY <2>1
  <2>3. f.lines \o SubSeq(<<r>>, 1, m) \in {f.lines, Append(f.lines, r)}
    <3>1. CASE m = 0
      <4>1. SubSeq(<<r>>, 1, m) = <<>>
        BY <3>1, SubSeqEmpty
      <4>. QED BY <1>1, <4>1, ConcatEmptySeq
    <3>2. CASE m = 1
      <4>1. <<r>> \in Seq(R) /\ Len(<<r>>) = 1
        OBVIOUS
      <4>2. SubSeq(<<r>>, 1, 1) = <<r>>
        BY <4>1, SubSeqFull
      <4>. QED BY <1>1, <3>2, <4>2, AppendIsConcat
    <3>3. m = 0 \/ m = 1
      BY <2>2
    <3>. QED BY <3>1, <3>2, <3>3, Zenon
  <2>4. Append(f.lines, r) \in Seq(R)
    BY <1>1
  <2>5. g.lines \in Seq(R) /\ g.lines \in {f.lines, Append(f.lines, r)}
    BY <1>1, <2>2, <2>3, <2>4
  <2>6. g = [lines |-> g.lines, end |-> g.end] /\ g.end \in Ends
    BY <2>1 DEF Ends
  <2>. QED BY <2>5, <2>6 DEF Files
<1>. QED BY <1>2, <1>3

\* A read of what was appended.
LEMMA AppendedLines ==
  ASSUME NEW R, NEW s \in Seq(R), NEW r \in R
  PROVE  /\ Len(Append(s, r)) = Len(s) + 1
         /\ \A i \in 1..Len(s) : Append(s, r)[i] = s[i]
         /\ Append(s, r)[Len(s) + 1] = r
  OBVIOUS

\* What precedes a record is the same before and after an append.
LEMMA PrefixesOfAppend ==
  ASSUME NEW R, NEW s \in Seq(R), NEW r \in R, NEW n \in 0..Len(s)
  PROVE  SubSeq(Append(s, r), 1, n) = SubSeq(s, 1, n)
<1>1. Append(s, r) = s \o <<r>> /\ <<r>> \in Seq(R) /\ Len(s) \in Nat
  BY AppendIsConcat
<1>2. CASE n = 0
  <2>1. SubSeq(Append(s, r), 1, 0) = <<>> /\ SubSeq(s, 1, 0) = <<>>
    BY SubSeqEmpty
  <2>. QED BY <1>2, <2>1
<1>3. CASE n # 0
  <2>1. 1 \in 1..Len(s) /\ n \in 1..Len(s)
    BY <1>1, <1>3
  <2>. QED BY <1>1, <2>1, SubSeqOfConcat1
<1>. QED BY <1>2, <1>3

\* An append of several records: what was there stays where it was, and all
\* that follows is new, whether the append completes or not.
LEMMA GrowsByNew ==
  ASSUME NEW R, NEW f \in Files(R), NEW new \in Seq(R), NEW g,
         g = Extended(f, new) \/ g \in Interrupted(f, new)
  PROVE  /\ g \in Files(R)
         /\ Len(f.lines) <= Len(g.lines)
         /\ \A i \in 1..Len(f.lines) : g.lines[i] = f.lines[i]
         /\ \A i \in 1..Len(g.lines) :
              i > Len(f.lines) => \E k \in 1..Len(new) : g.lines[i] = new[k]
<1>1. f.lines \in Seq(R) /\ f.end \in Ends
  BY DEF Files
<1>2. \E tail \in Seq(R), end \in Ends :
        /\ g = [lines |-> f.lines \o tail, end |-> end]
        /\ \A i \in 1..Len(tail) : \E k \in 1..Len(new) : tail[i] = new[k]
  <2>1. CASE g = Extended(f, new)
    <3>1. PICK end \in Ends : g = [lines |-> f.lines \o new, end |-> end]
      BY <1>1, <2>1 DEF Extended, Ends
    <3>. QED BY <3>1, Zenon
  <2>2. CASE g = f
    <3>1. g = [lines |-> f.lines \o <<>>, end |-> f.end]
      BY <1>1, <2>2, ConcatEmptySeq DEF Files
    <3>4. <<>> \in Seq(R)
      OBVIOUS
    <3>2. PICK tail \in Seq(R) : tail = <<>>
      BY <3>4, Zenon
    <3>3. \A i \in 1..Len(tail) : \E k \in 1..Len(new) : tail[i] = new[k]
      BY <3>2
    <3>. QED BY <1>1, <3>1, <3>2, <3>3, Zenon
  <2>3. CASE g # f /\ g \in Interrupted(f, new)
    <3>1. g \in [lines : {f.lines \o SubSeq(new, 1, m) : m \in 0..Len(new)},
                 end : IF f.end = "open" THEN {"spoiled"} ELSE Ends]
      BY <2>3 DEF Interrupted
    <3>2. PICK m \in 0..Len(new) : g.lines = f.lines \o SubSeq(new, 1, m)
      BY <3>1
    <3>3. g = [lines |-> g.lines, end |-> g.end] /\ g.end \in Ends
      BY <3>1 DEF Ends
    <3>4. /\ SubSeq(new, 1, m) \in Seq(R)
          /\ Len(SubSeq(new, 1, m)) = IF 1 <= m THEN m - 1 + 1 ELSE 0
          /\ \A i \in 1..m - 1 + 1 : SubSeq(new, 1, m)[i] = new[1 + i - 1]
      BY SubSeqProperties
    <3>5. \A i \in 1..Len(SubSeq(new, 1, m)) :
            \E k \in 1..Len(new) : SubSeq(new, 1, m)[i] = new[k]
      BY <3>4
    <3>. QED BY <3>2, <3>3, <3>4, <3>5, Zenon
  <2>. QED BY <2>1, <2>2, <2>3
<1>3. PICK tail \in Seq(R), end \in Ends :
        /\ g = [lines |-> f.lines \o tail, end |-> end]
        /\ \A i \in 1..Len(tail) : \E k \in 1..Len(new) : tail[i] = new[k]
  BY <1>2
<1>4. /\ f.lines \o tail \in Seq(R)
      /\ Len(f.lines \o tail) = Len(f.lines) + Len(tail)
      /\ \A i \in 1..Len(f.lines) : (f.lines \o tail)[i] = f.lines[i]
      /\ \A i \in Len(f.lines) + 1..Len(f.lines) + Len(tail) :
           (f.lines \o tail)[i] = tail[i - Len(f.lines)]
  BY <1>1
<1>5. g.lines = f.lines \o tail
  BY <1>3
<1>6. g \in Files(R)
  BY <1>3, <1>4, Zenon DEF Files
<1>7. Len(f.lines) \in Nat /\ Len(tail) \in Nat
  BY <1>1
<1>8. ASSUME NEW i \in 1..Len(g.lines), i > Len(f.lines)
      PROVE  \E k \in 1..Len(new) : g.lines[i] = new[k]
  <2>1. i - Len(f.lines) \in 1..Len(tail) /\ g.lines[i] = tail[i - Len(f.lines)]
    BY <1>4, <1>5, <1>7, <1>8
  <2>. QED BY <1>3, <2>1
<1>9. Len(f.lines) <= Len(g.lines) /\ \A i \in 1..Len(f.lines) : g.lines[i] = f.lines[i]
  BY <1>4, <1>5, <1>7
<1>. QED BY <1>6, <1>8, <1>9, Zenon

\* The records of an append, one after the other.
LEMMA ConcatAppend ==
  ASSUME NEW R, NEW s \in Seq(R), NEW t \in Seq(R), NEW r \in R
  PROVE  s \o Append(t, r) = Append(s \o t, r)
  OBVIOUS

LEMMA NextOfNew ==
  ASSUME NEW R, NEW s \in Seq(R), NEW new \in Seq(R), NEW n \in 1..Len(new)
  PROVE  s \o SubSeq(new, 1, n) = Append(s \o SubSeq(new, 1, n - 1), new[n])
<1> DEFINE before == SubSeq(new, 1, n - 1)
<1>1. before \in Seq(R) /\ new[n] \in R /\ SubSeq(new, 1, n) = Append(before, new[n])
  OBVIOUS
<1> HIDE DEF before
<1>2. s \o Append(before, new[n]) = Append(s \o before, new[n])
  BY <1>1, ConcatAppend
<1>. QED BY <1>1, <1>2 DEF before

\* An append of at most two records, completed or not.
LEMMA AtMostTwo ==
  ASSUME NEW R, NEW f \in Files(R), NEW new \in Seq(R), Len(new) <= 2, NEW g,
         g = Extended(f, new) \/ g \in Interrupted(f, new)
  PROVE  \/ g.lines = f.lines
         \/ Len(new) >= 1 /\ g.lines = Append(f.lines, new[1])
         \/ Len(new) = 2 /\ g.lines = Append(Append(f.lines, new[1]), new[2])
<1>1. f.lines \in Seq(R) /\ Len(f.lines) \in Nat /\ Len(new) \in Nat
  BY DEF Files
<1>2. /\ f.lines \o SubSeq(new, 1, 0) = f.lines
      /\ Len(new) >= 1 => f.lines \o SubSeq(new, 1, 1) = Append(f.lines, new[1])
      /\ Len(new) = 2 =>
           f.lines \o SubSeq(new, 1, 2) = Append(Append(f.lines, new[1]), new[2])
  <2>1. f.lines \o SubSeq(new, 1, 0) = f.lines
    BY <1>1, SubSeqEmpty, ConcatEmptySeq
  <2>2. Len(new) >= 1 => f.lines \o SubSeq(new, 1, 1) = Append(f.lines, new[1])
    <3>1. Len(new) >= 1 => 1 \in 1..Len(new) /\ 1 - 1 = 0
      BY <1>1
    <3>. QED BY <1>1, <2>1, <3>1, NextOfNew
  <2>3. Len(new) = 2 =>
          f.lines \o SubSeq(new, 1, 2) = Append(f.lines \o SubSeq(new, 1, 1), new[2])
    <3>1. Len(new) = 2 => 2 \in 1..Len(new) /\ 2 - 1 = 1
      BY <1>1
    <3>. QED BY <1>1, <3>1, NextOfNew
  <2>4. Len(new) = 2 => Len(new) >= 1
    BY <1>1
  <2>. QED BY <2>1, <2>2, <2>3, <2>4, Zenon
<1>3. \E n \in 0..Len(new) : g.lines = f.lines \o SubSeq(new, 1, n)
  <2>1. CASE g = Extended(f, new)
    <3>1. SubSeq(new, 1, Len(new)) = new
      BY SubSeqFull
    <3>2. g.lines = f.lines \o new
      BY <2>1 DEF Extended
    <3>3. Len(new) \in 0..Len(new)
      BY <1>1
    <3>. QED BY <3>1, <3>2, <3>3, Zenon
  <2>2. CASE g = f
    <3>1. 0 \in 0..Len(new)
      BY <1>1
    <3>. QED BY <1>2, <2>2, <3>1, Zenon
  <2>3. CASE g # f /\ g \in Interrupted(f, new)
    BY <2>3 DEF Interrupted
  <2>. QED BY <2>1, <2>2, <2>3
<1>4. ASSUME NEW n \in 0..Len(new), g.lines = f.lines \o SubSeq(new, 1, n)
      PROVE  \/ g.lines = f.lines
             \/ Len(new) >= 1 /\ g.lines = Append(f.lines, new[1])
             \/ Len(new) = 2 /\ g.lines = Append(Append(f.lines, new[1]), new[2])
  <2> DEFINE k == Len(new)
  <2>1. k \in Nat /\ k <= 2 /\ n \in 0..k
    BY <1>1
  <2> HIDE DEF k
  <2>2. n = 0 \/ (n = 1 /\ k >= 1) \/ (n = 2 /\ k = 2)
    BY <2>1
  <2>. QED BY <1>2, <1>4, <2>2 DEF k
<1>. QED BY <1>3, <1>4
=============================================================================
