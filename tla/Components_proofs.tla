--------------------------- MODULE Components_proofs ---------------------------
(***************************************************************************)
(* Proofs of what Components promises, for any values of its constants.    *)
(* Of a component with proofs of its own, the instance is the one that is  *)
(* proved there, definition by definition.                                 *)
(***************************************************************************)
EXTENDS Components, LineFile_proofs, SequenceTheorems, FiniteSetTheorems

-----------------------------------------------------------------------------
(* Native capture.  The sink's own state is in two halves: the window of   *)
(* results with the workspace, and the failures with their journal; every  *)
(* call of the sink keeps both and takes nothing back.  Then the phases of *)
(* the callbacks, which only move between calls of the sink.               *)

\* Every acknowledged result is in the workspace.
ResultsInv ==
  /\ results \in Seq(Capture!Results)
  /\ durable \subseteq Capture!Results
  /\ delivered \subseteq Capture!Results
  /\ Capture!AcknowledgedIsDurable

\* As long as no write of it failed in a process, the journal ends with a
\* newline, and counter and window are those of a process that replays it.
JournalInv ==
  /\ failures \in Seq(Capture!Failures)
  /\ failureCount \in Nat
  /\ faulted \in BOOLEAN
  /\ journal \in Files(Capture!Failures)
  /\ faults \in 0..MaxFaults
  /\ up /\ ~faulted => journal.end = "ended"
  /\ Capture!FailuresMatchJournal
  /\ Capture!JournalReplayable

\* What a run or span has left behind, or why it could not.
Named(s) == \E i \in 1..Len(journal.lines) : journal.lines[i].source = s
Accounted(s) ==
  \/ [source |-> s, kind |-> "runtime"] \in durable
  \/ Named(s)
  \/ ~Capture!HasRoom
  \/ faults > 0

\* Whose start may be in the window.
StartsUnderWay ==
  \A s \in started :
    capturing[s] \in {"running", "contract", "contract failed", "finish", "raised", "escaped"}

\* A run is captured only after its start was taken out of the window.
CapturedOnce ==
  \A s \in Runs :
    [source |-> s, kind |-> "runtime"] \in durable =>
      /\ s \notin started
      /\ capturing[s] \in {"runtime", "runtime failed", "done", "raised", "escaped", "lost"}

\* The runtime contract of a span comes first, so that a span whose other
\* contract is captured is accounted for already.
CallbacksInv ==
  /\ up \in BOOLEAN
  /\ started \subseteq Runs
  /\ completed \subseteq Spans
  /\ spanLock \in Spans \union {NoSpan}
  /\ capturing \in [Capture!Sources -> Capture!Phases]
  /\ restarts \in 0..MaxRestarts
  /\ ~up => restarts < MaxRestarts
  /\ StartsUnderWay
  /\ \A s \in Capture!Sources :
       \/ capturing[s] \in {"done", "raised"}
       \/ s \in Spans /\ capturing[s] = "contract"
       => Accounted(s)

CaptureInv == ResultsInv /\ JournalInv /\ CallbacksInv

JournalGrows ==
  /\ Len(journal.lines) <= Len(journal'.lines)
  /\ \A i \in 1..Len(journal.lines) : journal'.lines[i] = journal.lines[i]
  /\ faults <= faults'

\* The journal is a LineFile.
LEMMA JournalIsALineFile ==
  /\ \A R : Capture!Files(R) = Files(R)
  /\ \A f, new : Capture!Extended(f, new) = Extended(f, new)
  /\ \A f, new : Capture!Interrupted(f, new) = Interrupted(f, new)
  /\ Capture!EmptyFile = EmptyFile
  BY Zenon DEF Capture!Files, Files, Capture!Ends, Ends, Capture!Extended, Extended,
     Capture!Interrupted, Interrupted, Capture!EmptyFile, EmptyFile

\* The window of a longer list is that of the window and what was added.
LEMMA WindowTyped ==
  ASSUME Capture!ConstantsAssumption, NEW R, NEW list \in Seq(R)
  PROVE  Capture!Window(list) \in Seq(R)
  BY DEF Capture!Window, Capture!ConstantsAssumption

LEMMA WindowOfWindow ==
  ASSUME Capture!ConstantsAssumption, NEW R, NEW list \in Seq(R), NEW r \in R
  PROVE  Capture!Window(Append(Capture!Window(list), r)) = Capture!Window(Append(list, r))
<1> DEFINE c == FailureCapacity
           n == Len(list)
           w == Capture!Window(list)
           whole == Append(list, r)
           later == Append(w, r)
<1>1. c \in Nat \ {0} /\ n \in Nat /\ w \in Seq(R)
  BY WindowTyped DEF Capture!ConstantsAssumption
<1>2. CASE n <= c
  <2>1. ~(n > c)
    <3> HIDE DEF n, c
    <3>. QED BY <1>1, <1>2
  <2>2. w = SubSeq(list, 1, n)
    BY <2>1, Zenon DEF Capture!Window
  <2>3. w = list
    BY <2>2, SubSeqFull
  <2>. QED BY <2>3, Zenon
<1>3. CASE n > c
  <2>1. w = SubSeq(list, n - c + 1, n)
    BY <1>1, <1>3 DEF Capture!Window
  <2>2. Len(w) = c /\ \A i \in 1..c : w[i] = list[n - c + i]
    BY <1>1, <1>3, <2>1
  <2>3. /\ Len(whole) = n + 1 /\ whole \in Seq(R)
        /\ \A i \in 1..n + 1 : whole[i] = IF i = n + 1 THEN r ELSE list[i]
    BY <1>1
  <2>4. /\ Len(later) = c + 1 /\ later \in Seq(R)
        /\ \A i \in 1..c + 1 : later[i] = IF i = c + 1 THEN r ELSE w[i]
    BY <1>1, <2>2
  <2> HIDE DEF w, whole, later, n, c
  <2>5. Capture!Window(later) = SubSeq(later, 2, c + 1)
    BY <1>1, <2>4 DEF Capture!Window, c
  <2>6. Capture!Window(whole) = SubSeq(whole, n - c + 2, n + 1)
    BY <1>1, <1>3, <2>3 DEF Capture!Window, c
  <2>7. /\ Len(SubSeq(later, 2, c + 1)) = c
        /\ \A i \in 1..c : SubSeq(later, 2, c + 1)[i] = later[i + 1]
    BY <1>1, <2>4
  <2>8. /\ Len(SubSeq(whole, n - c + 2, n + 1)) = c
        /\ \A i \in 1..c : SubSeq(whole, n - c + 2, n + 1)[i] = whole[n - c + 1 + i]
    BY <1>1, <1>3, <2>3
  <2>9. ASSUME NEW i \in 1..c PROVE later[i + 1] = whole[n - c + 1 + i]
    <3>1. CASE i = c
      BY <1>1, <1>3, <2>3, <2>4, <3>1
    <3>2. CASE i # c
      <4>1. i + 1 \in 1..c + 1 /\ i + 1 # c + 1 /\ i + 1 \in 1..c
        BY <1>1, <3>2
      <4>2. later[i + 1] = list[n - c + (i + 1)]
        BY <2>2, <2>4, <4>1
      <4>3. n - c + 1 + i \in 1..n + 1 /\ n - c + 1 + i # n + 1
        BY <1>1, <1>3, <3>2
      <4>4. whole[n - c + 1 + i] = list[n - c + 1 + i]
        BY <2>3, <4>3
      <4>5. n - c + (i + 1) = n - c + 1 + i
        BY <1>1
      <4>. QED BY <4>2, <4>4, <4>5
    <3>. QED BY <3>1, <3>2
  <2>10. /\ SubSeq(later, 2, c + 1) \in Seq(R)
         /\ SubSeq(whole, n - c + 2, n + 1) \in Seq(R)
    BY <1>1, <1>3, <2>3, <2>4
  <2>11. SubSeq(later, 2, c + 1) = SubSeq(whole, n - c + 2, n + 1)
    BY <2>7, <2>8, <2>9, <2>10, SeqEqual
  <2>. QED BY <2>5, <2>6, <2>11 DEF later, whole, w
<1>. QED BY <1>1, <1>2, <1>3

\* The line, the count and the window of a failure.
LEMMA RecordKeeps ==
  ASSUME Capture!ConstantsAssumption, JournalInv, up' = up,
         NEW stage \in Capture!Stages, NEW s \in Capture!Sources,
         Capture!RecordFailure(stage, s)
  PROVE  JournalInv' /\ JournalGrows /\ Named(s)'
<1> DEFINE r == [stage |-> stage, source |-> s]
           lines == journal.lines
<1>1. /\ Capture!HasRoom
      /\ journal' = Extended(journal, <<r>>)
      /\ failureCount' = failureCount + 1
      /\ failures' = Capture!Window(Append(failures, r))
      /\ faulted' = faulted /\ faults' = faults
  BY JournalIsALineFile, Zenon DEF Capture!RecordFailure
<1>2. r \in Capture!Failures
  BY DEF Capture!Failures
<1>3. journal \in Files(Capture!Failures) /\ lines \in Seq(Capture!Failures)
  BY DEF JournalInv, Files
<1>4. journal' \in Files(Capture!Failures) /\ journal'.lines = Append(lines, r)
  BY <1>1, <1>2, <1>3, ExtendedOne
<1>5. journal.end = "ended" => journal'.end = "ended"
  BY <1>1 DEF Extended
<1>6. failures' \in Seq(Capture!Failures)
  <2>1. Append(failures, r) \in Seq(Capture!Failures)
    BY <1>2 DEF JournalInv
  <2>. QED BY <1>1, <2>1, WindowTyped, Zenon
<1>7. /\ Len(journal'.lines) = Len(lines) + 1
      /\ \A i \in 1..Len(lines) : journal'.lines[i] = lines[i]
      /\ journal'.lines[Len(lines) + 1] = r
  BY <1>2, <1>3, <1>4, AppendedLines
<1>8. Len(lines) \in Nat
  BY <1>3
<1>9. JournalGrows
  BY <1>1, <1>7, <1>8 DEF JournalGrows, JournalInv
<1>10. Named(s)'
  BY <1>7, <1>8 DEF Named
<1>11. Capture!FailuresMatchJournal'
  <2>1. SUFFICES ASSUME up, ~faulted
                 PROVE  /\ failureCount' = Len(journal'.lines)
                        /\ failures' = Capture!Window(journal'.lines)
    BY <1>1, Zenon DEF Capture!FailuresMatchJournal, Capture!Window
  <2>2. failureCount = Len(lines) /\ failures = Capture!Window(lines)
    BY <2>1, Zenon DEF JournalInv, Capture!FailuresMatchJournal
  <2>3. Capture!Window(Append(Capture!Window(lines), r)) = Capture!Window(Append(lines, r))
    BY <1>2, <1>3, WindowOfWindow
  <2>4. failures' = Capture!Window(journal'.lines)
    BY <1>1, <1>4, <2>2, <2>3, Zenon
  <2>. QED BY <1>1, <1>7, <2>2, <2>4, Zenon
<1>12. Capture!JournalReplayable'
  <2>1. faults = 0 => journal.end = "ended"
    BY DEF JournalInv, Capture!JournalReplayable, Capture!Replayable
  <2>2. Len(lines) < JournalLimit /\ JournalLimit \in Nat
    BY <1>1 DEF Capture!HasRoom, Capture!ConstantsAssumption
  <2>3. Len(journal'.lines) <= JournalLimit
    BY <1>7, <1>8, <2>2
  <2>. QED
    BY <1>1, <1>5, <2>1, <2>3, Zenon DEF Capture!JournalReplayable, Capture!Replayable
<1>13. up' /\ ~faulted' => journal'.end = "ended"
  BY <1>1, <1>5 DEF JournalInv
<1>14. failureCount' \in Nat /\ faulted' \in BOOLEAN /\ faults' \in 0..MaxFaults
  BY <1>1 DEF JournalInv
<1>. QED
  BY <1>4, <1>6, <1>9, <1>10, <1>11, <1>12, <1>13, <1>14, Zenon DEF JournalInv

\* A line that cannot be written, or not all of it.
LEMMA FaultKeeps ==
  ASSUME Capture!ConstantsAssumption, JournalInv,
         faults < MaxFaults, faults' = faults + 1,
         failures' = failures, failureCount' = failureCount,
         (up' = FALSE /\ faulted' = faulted) \/ (up' = up /\ faulted' = TRUE),
         NEW stage \in Capture!Stages, NEW s \in Capture!Sources,
         journal' \in Capture!Interrupted(journal, <<[stage |-> stage, source |-> s]>>)
  PROVE  JournalInv' /\ JournalGrows /\ faults' > 0
<1> DEFINE r == [stage |-> stage, source |-> s]
           lines == journal.lines
<1>1. r \in Capture!Failures
  BY DEF Capture!Failures
<1>2. journal \in Files(Capture!Failures) /\ lines \in Seq(Capture!Failures)
  BY DEF JournalInv, Files
<1>3. journal' \in Interrupted(journal, <<r>>)
  BY JournalIsALineFile, Zenon
<1>4. /\ journal' \in Files(Capture!Failures)
      /\ journal'.lines \in {lines, Append(lines, r)}
  BY <1>1, <1>2, <1>3, InterruptedOne
<1>5. /\ Len(lines) <= Len(journal'.lines)
      /\ \A i \in 1..Len(lines) : journal'.lines[i] = lines[i]
  <2>1. CASE journal'.lines = lines
    BY <1>2, <2>1
  <2>2. CASE journal'.lines = Append(lines, r)
    BY <1>1, <1>2, <2>2, AppendedLines
  <2>. QED BY <1>4, <2>1, <2>2
<1>6. faults \in Nat /\ faults' \in 0..MaxFaults /\ faults <= faults' /\ faults' > 0
  BY DEF JournalInv, Capture!ConstantsAssumption
<1>7. ~(up' /\ ~faulted')
  OBVIOUS
<1>8. faulted' \in BOOLEAN
  BY DEF JournalInv
<1>9. faults' # 0
  BY <1>6
<1>. QED
  BY <1>4, <1>5, <1>6, <1>7, <1>8, <1>9, Zenon DEF JournalInv, JournalGrows,
     Capture!FailuresMatchJournal, Capture!JournalReplayable

LEMMA JournalStays ==
  ASSUME JournalInv, UNCHANGED <<failures, failureCount, journal, faults>>,
         up' = FALSE \/ up' = up, faulted' = faulted
  PROVE  JournalInv' /\ JournalGrows
<1>1. Len(journal.lines) <= Len(journal.lines) /\ faults <= faults
  BY DEF JournalInv, Files
<1>2. Capture!FailuresMatchJournal' /\ Capture!JournalReplayable'
  BY DEF JournalInv, Capture!FailuresMatchJournal, Capture!Window,
     Capture!JournalReplayable, Capture!Replayable
<1>3. up' /\ ~faulted' => journal'.end = "ended"
  BY DEF JournalInv
<1>4. journal' = journal /\ faults' = faults
  OBVIOUS
<1>. QED BY <1>1, <1>2, <1>3, <1>4 DEF JournalInv, JournalGrows

\* What every call of the sink does, and what none takes back.
SinkKeeps ==
  /\ ResultsInv'
  /\ JournalInv'
  /\ JournalGrows
  /\ durable \subseteq durable'

\* sink.add
LEMMA AcceptKeeps ==
  ASSUME Capture!ConstantsAssumption, ResultsInv, JournalInv,
         UNCHANGED <<up, delivered>>,
         NEW r \in Capture!Results, Capture!Accept(r)
  PROVE  SinkKeeps /\ r \in durable'
<1>1. /\ results' = Append(results, r)
      /\ durable' = durable \union {r}
      /\ UNCHANGED <<failures, failureCount, journal, faults, faulted>>
  BY Zenon DEF Capture!Accept
<1>2. JournalInv' /\ JournalGrows
  BY <1>1, JournalStays
<1>3. results' \in Seq(Capture!Results)
  BY <1>1 DEF ResultsInv
<1>4. Capture!ToSet(results)' \subseteq Capture!ToSet(results) \union {r}
  BY <1>1 DEF ResultsInv, Capture!ToSet
<1>5. Capture!AcknowledgedIsDurable'
  BY <1>1, <1>4 DEF ResultsInv, Capture!AcknowledgedIsDurable
<1>. QED BY <1>1, <1>2, <1>3, <1>5 DEF SinkKeeps, ResultsInv

\* A result that is not acknowledged may be in the workspace all the same.
LEMMA UnacknowledgedKeeps ==
  ASSUME ResultsInv, UNCHANGED <<results, delivered>>,
         NEW r \in Capture!Results, durable' \in {durable, durable \union {r}}
  PROVE  ResultsInv' /\ durable \subseteq durable'
<1>1. Capture!ToSet(results)' = Capture!ToSet(results)
  BY DEF Capture!ToSet
<1>2. Capture!AcknowledgedIsDurable'
  BY <1>1 DEF ResultsInv, Capture!AcknowledgedIsDurable
<1>. QED BY <1>2 DEF ResultsInv

\* _record_failure, whether it writes the line, has no room or fails.
LEMMA FailureKeeps ==
  ASSUME Capture!ConstantsAssumption, JournalInv, up' = up,
         NEW stage \in Capture!Stages, NEW s \in Capture!Sources,
         \/ Capture!RecordFailure(stage, s) \/ Capture!JournalFull
         \/ Capture!JournalFails(stage, s)
  PROVE  JournalInv' /\ JournalGrows /\ Accounted(s)'
<1>1. CASE Capture!RecordFailure(stage, s)
  BY <1>1, RecordKeeps, Zenon DEF Accounted
<1>2. CASE Capture!JournalFull
  <2>1. UNCHANGED <<failures, failureCount, journal, faults, faulted>>
    BY <1>2, Zenon DEF Capture!JournalFull
  <2>2. ~Capture!HasRoom'
    BY <1>2, <2>1, Zenon DEF Capture!JournalFull, Capture!HasRoom
  <2>. QED BY <2>1, <2>2, JournalStays, Zenon DEF Accounted
<1>3. CASE Capture!JournalFails(stage, s)
  <2>1. /\ faults < MaxFaults /\ faults' = faults + 1 /\ faulted' = TRUE
        /\ journal' \in Capture!Interrupted(journal, <<[stage |-> stage, source |-> s]>>)
        /\ failureCount' = failureCount /\ failures' = failures
    BY <1>3, Zenon DEF Capture!JournalFails
  <2>2. (up' = FALSE /\ faulted' = faulted) \/ (up' = up /\ faulted' = TRUE)
    BY <2>1
  <2>3. JournalInv' /\ JournalGrows /\ faults' > 0
    BY <2>1, <2>2, FaultKeeps
  <2>. QED BY <2>3, Zenon DEF Accounted
<1>. QED BY <1>1, <1>2, <1>3

\* sink.add raises.
LEMMA RaiseKeeps ==
  ASSUME Capture!ConstantsAssumption, ResultsInv, JournalInv,
         UNCHANGED <<up, delivered>>,
         NEW r \in Capture!Results, Capture!RaisesValue(r) \/ Capture!RaisesOther(r)
  PROVE  SinkKeeps /\ Accounted(r.source)'
<1>1. PICK stage \in Capture!Stages :
        \/ Capture!RecordFailure(stage, r.source) \/ Capture!JournalFull
        \/ Capture!JournalFails(stage, r.source)
  BY Zenon DEF Capture!RaisesValue, Capture!RaisesOther, Capture!Stages
<1>2. results' = results /\ durable' \in {durable, durable \union {r}}
  BY Zenon DEF Capture!RaisesValue, Capture!RaisesOther
<1>3. r.source \in Capture!Sources
  BY DEF Capture!Results
<1>4. JournalInv' /\ JournalGrows /\ Accounted(r.source)'
  BY <1>1, <1>3, FailureKeeps
<1>5. ResultsInv' /\ durable \subseteq durable'
  BY <1>2, UnacknowledgedKeeps
<1>. QED BY <1>4, <1>5 DEF SinkKeeps

LEMMA SinkStays ==
  ASSUME ResultsInv, JournalInv, UNCHANGED <<up, delivered, Capture!sinkVars>>
  PROVE  SinkKeeps
<1>1. /\ results' = results /\ durable' = durable
      /\ UNCHANGED <<failures, failureCount, journal, faults>> /\ faulted' = faulted
  BY Zenon DEF Capture!sinkVars
<1>2. JournalInv' /\ JournalGrows
  BY <1>1, JournalStays
<1>3. Capture!AcknowledgedIsDurable'
  BY <1>1 DEF ResultsInv, Capture!AcknowledgedIsDurable, Capture!ToSet
<1>. QED BY <1>1, <1>2, <1>3 DEF SinkKeeps, ResultsInv

\* A callback hands a result to the sink.
LEMMA AddResultKeeps ==
  ASSUME Capture!ConstantsAssumption, ResultsInv, JournalInv,
         UNCHANGED <<up, delivered>>,
         NEW s \in Capture!Sources, NEW kind \in Capture!Kinds, NEW next, NEW failed,
         Capture!AddResult(s, kind, next, failed)
  PROVE  /\ SinkKeeps
         /\ \/ Capture!Goto(s, next) /\ (kind = "runtime" => Accounted(s)')
            \/ Capture!Goto(s, failed)
            \/ Capture!Goto(s, "raised") /\ Accounted(s)'
            \/ Capture!Goto(s, "escaped")
<1> DEFINE r == [source |-> s, kind |-> kind]
<1>1. r \in Capture!Results /\ r.source = s
  BY DEF Capture!Results
<1>2. CASE Capture!Accept(r) /\ Capture!Goto(s, next)
  <2>1. SinkKeeps /\ r \in durable'
    BY <1>1, <1>2, AcceptKeeps
  <2>2. kind = "runtime" => Accounted(s)'
    BY <2>1, Zenon DEF Accounted
  <2>. QED BY <1>2, <2>1, <2>2
<1>3. CASE UNCHANGED Capture!sinkVars /\ Capture!Goto(s, failed)
  BY <1>3, SinkStays, Zenon
<1>4. CASE Capture!RaisesValue(r) /\ Capture!Goto(s, failed)
  BY <1>1, <1>4, RaiseKeeps
<1>5. CASE Capture!RaisesOther(r) /\ Capture!Goto(s, "raised")
  <2>1. SinkKeeps /\ Accounted(r.source)'
    BY <1>1, <1>5, RaiseKeeps
  <2>2. Accounted(s)'
    BY <1>1, <2>1, Zenon
  <2>. QED BY <1>5, <2>1, <2>2
<1>6. CASE UNCHANGED Capture!sinkVars /\ Capture!Goto(s, "escaped")
  BY <1>6, SinkStays, Zenon
<1>. QED BY <1>2, <1>3, <1>4, <1>5, <1>6, Zenon DEF Capture!AddResult

\* A callback has a failure recorded.
LEMMA FailThenKeeps ==
  ASSUME Capture!ConstantsAssumption, ResultsInv, JournalInv,
         UNCHANGED <<up, delivered>>,
         NEW s \in Capture!Sources, NEW stage \in Capture!Stages, NEW next,
         Capture!FailThen(s, stage, next)
  PROVE  /\ SinkKeeps
         /\ Capture!Goto(s, next) \/ Capture!Goto(s, "raised")
         /\ Accounted(s)'
<1>1. /\ results' = results /\ durable' = durable
      /\ \/ Capture!RecordFailure(stage, s) \/ Capture!JournalFull
         \/ Capture!JournalFails(stage, s)
      /\ Capture!Goto(s, next) \/ Capture!Goto(s, "raised")
  BY Zenon DEF Capture!FailThen
<1>2. JournalInv' /\ JournalGrows /\ Accounted(s)'
  BY <1>1, FailureKeeps
<1>3. Capture!AcknowledgedIsDurable'
  BY <1>1 DEF ResultsInv, Capture!AcknowledgedIsDurable, Capture!ToSet
<1>. QED BY <1>1, <1>2, <1>3 DEF SinkKeeps, ResultsInv

\* What accounts for a run or span keeps doing so.
LEMMA AccountedStays ==
  ASSUME Capture!ConstantsAssumption, JournalInv, JournalInv',
         JournalGrows, durable \subseteq durable',
         NEW s, Accounted(s)
  PROVE  Accounted(s)'
<1>1. Len(journal.lines) \in Nat /\ Len(journal'.lines) \in Nat /\ JournalLimit \in Nat
  BY DEF JournalInv, Files, Capture!ConstantsAssumption
<1>2. faults \in Nat /\ faults' \in Nat
  BY DEF JournalInv, Capture!ConstantsAssumption
<1>3. CASE [source |-> s, kind |-> "runtime"] \in durable
  BY <1>3, Zenon DEF Accounted
<1>4. CASE Named(s)
  <2>1. PICK i \in 1..Len(journal.lines) : journal.lines[i].source = s
    BY <1>4 DEF Named
  <2>2. i \in 1..Len(journal'.lines) /\ journal'.lines[i].source = s
    BY <1>1, <2>1 DEF JournalGrows
  <2>. QED BY <2>2, Zenon DEF Accounted, Named
<1>5. CASE ~Capture!HasRoom
  BY <1>1, <1>5 DEF Accounted, Capture!HasRoom, JournalGrows
<1>6. CASE faults > 0
  BY <1>2, <1>6 DEF Accounted, JournalGrows
<1>. QED BY <1>3, <1>4, <1>5, <1>6, Zenon DEF Accounted

\* A callback moves on between two calls of the sink, or with one.
LEMMA MoveKeeps ==
  ASSUME Capture!ConstantsAssumption, CaptureInv, SinkKeeps,
         up' = up, restarts' = restarts,
         spanLock' \in Spans \union {NoSpan}, completed' \subseteq Spans,
         NEW s \in Capture!Sources, NEW to \in Capture!Phases, Capture!Goto(s, to),
         to \in {"done", "raised"} \/ (s \in Spans /\ to = "contract") => Accounted(s)',
         started' \subseteq Runs, started' \ {s} \subseteq started,
         s \in started' => to \in {"running", "contract", "contract failed", "finish", "raised", "escaped"}
  PROVE  CaptureInv'
<1>1. capturing' = [capturing EXCEPT ![s] = to]
  BY DEF Capture!Goto
<1>2. capturing' \in [Capture!Sources -> Capture!Phases]
  BY <1>1, Zenon DEF CaptureInv, CallbacksInv
<1>3. /\ capturing'[s] = to
      /\ \A t \in Capture!Sources : t # s => capturing'[t] = capturing[t]
  BY <1>1, Zenon DEF CaptureInv, CallbacksInv
<1>4. StartsUnderWay'
  <2>1. SUFFICES ASSUME NEW t \in started'
                 PROVE  capturing'[t] \in {"running", "contract", "contract failed",
                                           "finish", "raised", "escaped"}
    BY DEF StartsUnderWay
  <2>2. t \in Capture!Sources
    BY DEF Capture!Sources
  <2>3. CASE t = s
    BY <1>3, <2>3
  <2>4. CASE t # s
    <3>1. t \in started /\ capturing'[t] = capturing[t]
      BY <1>3, <2>2, <2>4
    <3>. QED BY <3>1, Zenon DEF CaptureInv, CallbacksInv, StartsUnderWay
  <2>. QED BY <2>3, <2>4
<1>5. ASSUME NEW t \in Capture!Sources,
             capturing'[t] \in {"done", "raised"} \/ (t \in Spans /\ capturing'[t] = "contract")
      PROVE  Accounted(t)'
  <2>1. CASE t = s
    BY <1>3, <1>5, <2>1
  <2>2. CASE t # s
    <3>1. Accounted(t)
      BY <1>3, <1>5, <2>2, Zenon DEF CaptureInv, CallbacksInv
    <3>. QED BY <3>1, AccountedStays DEF CaptureInv, SinkKeeps
  <2>. QED BY <2>1, <2>2
<1>6. CallbacksInv'
  BY <1>2, <1>4, <1>5 DEF CaptureInv, CallbacksInv
<1>. QED BY <1>6 DEF CaptureInv, SinkKeeps

\* Between the callbacks.
LEMMA CallbacksStay ==
  ASSUME Capture!ConstantsAssumption, CaptureInv, SinkKeeps,
         capturing' = capturing, started' = started, completed' = completed,
         spanLock' \in Spans \union {NoSpan},
         \/ up' = up /\ restarts' = restarts
         \/ up' = TRUE /\ restarts' \in 0..MaxRestarts
  PROVE  CaptureInv'
<1>1. ASSUME NEW s \in Capture!Sources,
             capturing[s] \in {"done", "raised"} \/ (s \in Spans /\ capturing[s] = "contract")
      PROVE  Accounted(s)'
  <2>1. Accounted(s)
    BY <1>1, Zenon DEF CaptureInv, CallbacksInv
  <2>. QED BY <2>1, AccountedStays DEF CaptureInv, SinkKeeps
<1>2. StartsUnderWay'
  BY DEF CaptureInv, CallbacksInv, StartsUnderWay
<1>3. CallbacksInv'
  BY <1>1, <1>2 DEF CaptureInv, CallbacksInv
<1>. QED BY <1>3 DEF CaptureInv, SinkKeeps

\* The callbacks of a model run.
LEMMA RunsKeepCaptureInv ==
  ASSUME Capture!ConstantsAssumption, CaptureInv, NEW s \in Runs,
         \/ Capture!AdmitStart(s) \/ Capture!InsertStart(s) \/ Capture!RefuseStart(s)
         \/ Capture!EndRun(s) \/ Capture!Finish(s) \/ Capture!CaptureRun(s)
  PROVE  CaptureInv'
<1>1. /\ s \in Capture!Sources /\ s \notin Spans
      /\ started \subseteq Runs /\ completed \subseteq Spans
      /\ spanLock \in Spans \union {NoSpan}
      /\ ResultsInv /\ JournalInv
  BY DEF Capture!ConstantsAssumption, Capture!Sources, CaptureInv, CallbacksInv
<1>2. s \in started =>
        capturing[s] \in {"running", "contract", "contract failed", "finish", "raised", "escaped"}
  BY Zenon DEF CaptureInv, CallbacksInv, StartsUnderWay
<1>3. CASE Capture!AdmitStart(s)
  <2>1. PICK to \in {"admitted", "refused", "running"} : Capture!Goto(s, to)
    BY <1>3 DEF Capture!AdmitStart
  <2>2. capturing[s] = "new" /\ UNCHANGED <<up, delivered, restarts, Capture!sinkVars>>
        /\ started' = started /\ completed' = completed /\ spanLock' = spanLock
    BY <1>3, Zenon DEF Capture!AdmitStart, Capture!handlerVars
  <2>3. SinkKeeps
    BY <1>1, <2>2, SinkStays
  <2>4. to \in Capture!Phases
    BY DEF Capture!Phases
  <2>. QED BY <1>1, <1>2, <2>1, <2>2, <2>3, <2>4, MoveKeeps
<1>4. CASE Capture!InsertStart(s)
  <2>1. /\ Capture!Goto(s, "running")
        /\ UNCHANGED <<up, delivered, restarts, Capture!sinkVars>>
        /\ started' = started \union {s} /\ completed' = completed /\ spanLock' = spanLock
    BY <1>4, Zenon DEF Capture!InsertStart
  <2>2. SinkKeeps
    BY <1>1, <2>1, SinkStays
  <2>3. "running" \in Capture!Phases
    BY DEF Capture!Phases
  <2>. QED BY <1>1, <2>1, <2>2, <2>3, MoveKeeps
<1>5. CASE Capture!RefuseStart(s)
  <2>1. /\ capturing[s] = "refused" /\ Capture!Goto(s, "running")
        /\ results' = results /\ durable' = durable
        /\ up' = up /\ restarts' = restarts /\ delivered' = delivered
        /\ started' = started /\ completed' = completed /\ spanLock' = spanLock
    BY <1>5, Zenon DEF Capture!RefuseStart, Capture!handlerVars
  <2>2. \/ Capture!RecordFailure("start", s) \/ Capture!JournalFull
        \/ Capture!JournalFails("start", s)
    BY <1>5, Zenon DEF Capture!RefuseStart
  <2>3. "start" \in Capture!Stages /\ "running" \in Capture!Phases
    BY DEF Capture!Stages, Capture!Phases
  <2>4. JournalInv' /\ JournalGrows
    BY <1>1, <2>1, <2>2, <2>3, FailureKeeps
  <2>5. Capture!AcknowledgedIsDurable'
    BY <1>1, <2>1 DEF ResultsInv, Capture!AcknowledgedIsDurable, Capture!ToSet
  <2>6. SinkKeeps
    BY <1>1, <2>1, <2>4, <2>5 DEF SinkKeeps, ResultsInv
  <2>. QED BY <1>1, <1>2, <2>1, <2>3, <2>6, MoveKeeps
<1>6. CASE Capture!EndRun(s)
  <2>1. PICK to \in {"contract", "contract failed", "finish"} : Capture!Goto(s, to)
    BY <1>6 DEF Capture!EndRun
  <2>2. /\ UNCHANGED <<up, delivered, restarts, Capture!sinkVars>>
        /\ started' = started /\ completed' = completed /\ spanLock' = spanLock
    BY <1>6, Zenon DEF Capture!EndRun, Capture!handlerVars
  <2>3. SinkKeeps
    BY <1>1, <2>2, SinkStays
  <2>4. to \in Capture!Phases
    BY DEF Capture!Phases
  <2>. QED BY <1>1, <2>1, <2>2, <2>3, <2>4, MoveKeeps
<1>7. CASE Capture!Finish(s)
  <2>1. PICK to \in {"runtime", "unpaired"} : Capture!Goto(s, to)
    BY <1>7, Zenon DEF Capture!Finish
  <2>2. /\ UNCHANGED <<up, delivered, restarts, Capture!sinkVars>>
        /\ started' = started \ {s} /\ completed' = completed /\ spanLock' = spanLock
    BY <1>7, Zenon DEF Capture!Finish
  <2>3. SinkKeeps
    BY <1>1, <2>2, SinkStays
  <2>4. to \in Capture!Phases
    BY DEF Capture!Phases
  <2>. QED BY <1>1, <2>1, <2>2, <2>3, <2>4, MoveKeeps
<1>8. CASE Capture!CaptureRun(s)
  <2>1. /\ up' = up /\ restarts' = restarts /\ delivered' = delivered
        /\ started' = started /\ completed' = completed /\ spanLock' = spanLock
    BY <1>8, Zenon DEF Capture!CaptureRun, Capture!handlerVars
  <2>2. \E to \in {"contract failed", "finish", "runtime failed", "done", "raised",
                  "escaped"} :
          /\ SinkKeeps
          /\ Capture!Goto(s, to)
          /\ to \in {"done", "raised"} => Accounted(s)'
          /\ s \in started => to \in {"contract failed", "finish", "raised", "escaped"}
    <3>0. /\ {"contract", "unpaired", "runtime"} \subseteq Capture!Stages
          /\ {"contract", "runtime"} \subseteq Capture!Kinds
      BY DEF Capture!Stages, Capture!Kinds
    <3>1. CASE capturing[s] = "contract"
               /\ Capture!AddResult(s, "contract", "finish", "contract failed")
      BY <1>1, <2>1, <3>0, <3>1, AddResultKeeps
    <3>2. CASE capturing[s] = "contract failed" /\ Capture!FailThen(s, "contract", "finish")
      BY <1>1, <2>1, <3>0, <3>2, FailThenKeeps
    <3>3. CASE capturing[s] = "runtime"
               /\ Capture!AddResult(s, "runtime", "done", "runtime failed")
      BY <1>1, <1>2, <2>1, <3>0, <3>3, AddResultKeeps
    <3>4. CASE capturing[s] = "runtime failed" /\ Capture!FailThen(s, "runtime", "done")
      BY <1>1, <1>2, <2>1, <3>0, <3>4, FailThenKeeps
    <3>5. CASE capturing[s] = "unpaired" /\ Capture!FailThen(s, "unpaired", "done")
      BY <1>1, <1>2, <2>1, <3>0, <3>5, FailThenKeeps
    <3>. QED BY <1>8, <3>1, <3>2, <3>3, <3>4, <3>5, Zenon DEF Capture!CaptureRun
  <2>3. {"contract failed", "finish", "runtime failed", "done", "raised", "escaped"}
          \subseteq Capture!Phases
    BY DEF Capture!Phases
  <2>. QED BY <1>1, <2>1, <2>2, <2>3, MoveKeeps
<1>. QED BY <1>3, <1>4, <1>5, <1>6, <1>7, <1>8

\* The end of a span, under the lock of the processor.
LEMMA SpansKeepCaptureInv ==
  ASSUME Capture!ConstantsAssumption, CaptureInv, NEW s \in Spans,
         \/ Capture!EndSpan(s) \/ Capture!CaptureSpan(s) \/ Capture!DescribeSpan(s)
         \/ Capture!CaptureSpanContract(s) \/ Capture!LeaveSpan(s)
  PROVE  CaptureInv'
<1>1. /\ s \in Capture!Sources /\ s \notin Runs /\ s \notin started
      /\ started \subseteq Runs /\ completed \subseteq Spans
      /\ spanLock \in Spans \union {NoSpan}
      /\ ResultsInv /\ JournalInv
      /\ capturing[s] = "contract" => Accounted(s)
  BY DEF Capture!ConstantsAssumption, Capture!Sources, CaptureInv, CallbacksInv
<1>2. /\ {"contract", "runtime", "window"} \subseteq Capture!Stages
      /\ {"contract", "runtime"} \subseteq Capture!Kinds
      /\ {"runtime", "refused", "contract", "contract failed", "runtime failed", "done",
          "raised", "escaped"} \subseteq Capture!Phases
  BY DEF Capture!Stages, Capture!Kinds, Capture!Phases
<1>3. CASE Capture!EndSpan(s)
  <2>1. PICK to \in {"runtime", "refused"} : Capture!Goto(s, to)
    BY <1>3, Zenon DEF Capture!EndSpan
  <2>2. /\ UNCHANGED <<up, delivered, restarts, Capture!sinkVars>>
        /\ started' = started /\ completed' = completed /\ spanLock' = s
    BY <1>3, Zenon DEF Capture!EndSpan
  <2>3. SinkKeeps
    BY <1>1, <2>2, SinkStays
  <2>. QED BY <1>1, <1>2, <2>1, <2>2, <2>3, MoveKeeps
<1>4. CASE Capture!CaptureSpan(s)
  <2>1. /\ up' = up /\ restarts' = restarts /\ delivered' = delivered
        /\ started' = started /\ spanLock' = spanLock
        /\ Capture!AddResult(s, "runtime", "contract", "runtime failed")
    BY <1>4, Zenon DEF Capture!CaptureSpan
  <2>2. completed' \subseteq Spans
    BY <1>1, <1>4 DEF Capture!CaptureSpan
  <2>3. \E to \in {"contract", "runtime failed", "raised", "escaped"} :
          /\ SinkKeeps
          /\ Capture!Goto(s, to)
          /\ to \in {"contract", "raised"} => Accounted(s)'
    BY <1>1, <1>2, <2>1, AddResultKeeps
  <2>. QED BY <1>1, <1>2, <2>1, <2>2, <2>3, MoveKeeps
<1>5. CASE Capture!DescribeSpan(s)
  <2>1. PICK to \in {"done", "contract failed"} : Capture!Goto(s, to)
    BY <1>5, Zenon DEF Capture!DescribeSpan
  <2>2. /\ capturing[s] = "contract"
        /\ UNCHANGED <<up, delivered, restarts, Capture!sinkVars>>
        /\ started' = started /\ completed' = completed /\ spanLock' = spanLock
    BY <1>5, Zenon DEF Capture!DescribeSpan, Capture!handlerVars
  <2>3. SinkKeeps
    BY <1>1, <2>2, SinkStays
  <2>4. Accounted(s)'
    BY <1>1, <2>2, <2>3, AccountedStays DEF SinkKeeps
  <2>. QED BY <1>1, <1>2, <2>1, <2>2, <2>3, <2>4, MoveKeeps
<1>6. CASE Capture!CaptureSpanContract(s)
  <2>1. /\ up' = up /\ restarts' = restarts /\ delivered' = delivered
        /\ started' = started /\ completed' = completed /\ spanLock' = spanLock
    BY <1>6, Zenon DEF Capture!CaptureSpanContract, Capture!handlerVars
  <2>2. \E to \in {"contract failed", "done", "raised", "escaped"} :
          /\ SinkKeeps
          /\ Capture!Goto(s, to)
          /\ to \in {"done", "raised"} => Accounted(s)'
    <3>1. CASE capturing[s] = "contract"
               /\ Capture!AddResult(s, "contract", "done", "contract failed")
      <4>1. SinkKeeps /\ \E to \in {"contract failed", "done", "raised", "escaped"} :
                              Capture!Goto(s, to)
        BY <1>1, <1>2, <2>1, <3>1, AddResultKeeps
      <4>2. Accounted(s)'
        BY <1>1, <3>1, <4>1, AccountedStays DEF SinkKeeps
      <4>. QED BY <4>1, <4>2
    <3>2. CASE /\ capturing[s] = "contract"
               /\ Capture!RaisesOther([source |-> s, kind |-> "contract"])
               /\ Capture!Goto(s, "contract failed")
      <4>1. [source |-> s, kind |-> "contract"] \in Capture!Results
        BY <1>1, <1>2 DEF Capture!Results
      <4>. QED BY <1>1, <2>1, <3>2, <4>1, RaiseKeeps
    <3>3. CASE capturing[s] = "contract failed" /\ Capture!FailThen(s, "contract", "done")
      BY <1>1, <1>2, <2>1, <3>3, FailThenKeeps
    <3>4. CASE capturing[s] = "runtime failed" /\ Capture!FailThen(s, "runtime", "done")
      BY <1>1, <1>2, <2>1, <3>4, FailThenKeeps
    <3>5. CASE capturing[s] = "refused" /\ Capture!FailThen(s, "window", "done")
      BY <1>1, <1>2, <2>1, <3>5, FailThenKeeps
    <3>. QED BY <1>6, <3>1, <3>2, <3>3, <3>4, <3>5, Zenon DEF Capture!CaptureSpanContract
  <2>. QED BY <1>1, <1>2, <2>1, <2>2, MoveKeeps
<1>7. CASE Capture!LeaveSpan(s)
  <2>1. /\ UNCHANGED <<up, delivered, restarts, Capture!sinkVars>>
        /\ capturing' = capturing
        /\ started' = started /\ completed' = completed /\ spanLock' = NoSpan
    BY <1>7, Zenon DEF Capture!LeaveSpan
  <2>2. SinkKeeps
    BY <1>1, <2>1, SinkStays
  <2>. QED BY <1>1, <2>1, <2>2, CallbacksStay
<1>. QED BY <1>3, <1>4, <1>5, <1>6, <1>7

\* The window is drained, or the process ends or starts.
LEMMA ProcessKeepsCaptureInv ==
  ASSUME Capture!ConstantsAssumption, CaptureInv,
         Capture!Drain \/ Capture!Crash \/ Capture!Restart
  PROVE  CaptureInv'
<1>1. ResultsInv /\ JournalInv /\ CallbacksInv
  BY DEF CaptureInv
<1>2. CASE Capture!Drain
  <2>1. /\ delivered' = delivered \union Capture!ToSet(results) /\ results' = <<>>
        /\ up' = up /\ restarts' = restarts /\ capturing' = capturing
        /\ started' = started /\ completed' = completed /\ spanLock' = spanLock
        /\ durable' = durable
        /\ UNCHANGED <<failures, failureCount, journal, faults>> /\ faulted' = faulted
    BY <1>2, Zenon DEF Capture!Drain, Capture!handlerVars
  <2>2. JournalInv' /\ JournalGrows
    BY <1>1, <2>1, JournalStays
  <2>3. ResultsInv'
    <3>1. Capture!ToSet(results) \subseteq Capture!Results
      BY <1>1 DEF ResultsInv, Capture!AcknowledgedIsDurable
    <3>2. Capture!ToSet(results)' = {}
      BY <2>1 DEF Capture!ToSet
    <3>. QED
      BY <1>1, <2>1, <3>1, <3>2 DEF ResultsInv, Capture!AcknowledgedIsDurable
  <2>4. SinkKeeps
    BY <2>1, <2>2, <2>3 DEF SinkKeeps
  <2>. QED BY <1>1, <2>1, <2>4, CallbacksStay DEF CallbacksInv
<1>3. CASE Capture!Crash
  <2>1. /\ up' = FALSE /\ restarts < MaxRestarts /\ restarts' = restarts
        /\ results' = <<>> /\ delivered' = {} /\ durable' = durable
        /\ started' = {} /\ completed' = {} /\ spanLock' = NoSpan
        /\ capturing' = [s \in Capture!Sources |->
                           IF capturing[s] \in {"new", "done", "raised", "escaped"}
                           THEN capturing[s] ELSE "lost"]
        /\ failures' = failures /\ failureCount' = failureCount /\ faulted' = faulted
    BY <1>3, Zenon DEF Capture!Crash
  <2>2. JournalInv' /\ JournalGrows
    <3>1. CASE journal' = journal /\ faults' = faults
      BY <1>1, <2>1, <3>1, JournalStays
    <3>2. CASE /\ faults < MaxFaults
               /\ faults' = faults + 1
               /\ \E s \in Capture!Sources :
                    journal' \in Capture!Interrupted(journal,
                                   <<[stage |-> "native_capture.persist", source |-> s]>>)
      <4>1. "native_capture.persist" \in Capture!Stages
        BY DEF Capture!Stages
      <4>2. (up' = FALSE /\ faulted' = faulted) \/ (up' = up /\ faulted' = TRUE)
        BY <2>1
      <4>. QED BY <1>1, <2>1, <3>2, <4>1, <4>2, FaultKeeps, Zenon
    <3>. QED BY <1>3, <3>1, <3>2 DEF Capture!Crash
  <2>3. ResultsInv'
    <3>1. Capture!ToSet(results)' = {}
      BY <2>1 DEF Capture!ToSet
    <3>. QED BY <1>1, <2>1, <3>1 DEF ResultsInv, Capture!AcknowledgedIsDurable
  <2>4. ASSUME NEW s \in Capture!Sources,
               capturing'[s] \in {"done", "raised"} \/ (s \in Spans /\ capturing'[s] = "contract")
        PROVE  Accounted(s)'
    <3>1. capturing[s] \in {"done", "raised"}
      BY <2>1, <2>4
    <3>2. Accounted(s)
      BY <1>1, <3>1, Zenon DEF CallbacksInv
    <3>. QED BY <1>1, <2>1, <2>2, <3>2, AccountedStays
  <2>5. capturing' \in [Capture!Sources -> Capture!Phases]
    <3>1. \A s \in Capture!Sources : capturing[s] \in Capture!Phases
      BY <1>1 DEF CallbacksInv
    <3>2. "lost" \in Capture!Phases
      BY DEF Capture!Phases
    <3>. QED BY <2>1, <3>1, <3>2
  <2>6. StartsUnderWay'
    BY <2>1 DEF StartsUnderWay
  <2>7. CallbacksInv'
    BY <1>1, <2>1, <2>4, <2>5, <2>6 DEF CallbacksInv
  <2>. QED BY <2>2, <2>3, <2>7 DEF CaptureInv
<1>4. CASE Capture!Restart
  <2>1. /\ ~up /\ up' = TRUE /\ restarts' = restarts + 1
        /\ Capture!Replayable
        /\ failures' = Capture!Window(journal.lines)
        /\ failureCount' = Len(journal.lines)
        /\ faulted' = FALSE
        /\ results' = results /\ capturing' = capturing /\ durable' = durable
        /\ delivered' = delivered /\ journal' = journal /\ faults' = faults
        /\ started' = started /\ completed' = completed /\ spanLock' = spanLock
    BY <1>4, Zenon DEF Capture!Restart, Capture!handlerVars
  <2>2. journal.lines \in Seq(Capture!Failures)
    BY <1>1 DEF JournalInv, Files
  <2>3. Len(journal.lines) \in Nat /\ Capture!Window(journal.lines) \in Seq(Capture!Failures)
    BY <2>2, WindowTyped
  <2>4. Capture!FailuresMatchJournal' /\ Capture!JournalReplayable'
    BY <1>1, <2>1 DEF JournalInv, Capture!FailuresMatchJournal, Capture!Window,
       Capture!JournalReplayable, Capture!Replayable
  <2>5. JournalInv' /\ JournalGrows
    <3>1. /\ failures' \in Seq(Capture!Failures) /\ failureCount' \in Nat
          /\ faulted' \in BOOLEAN /\ journal' \in Files(Capture!Failures)
          /\ faults' \in 0..MaxFaults
      BY <1>1, <2>1, <2>3, Zenon DEF JournalInv
    <3>2. up' /\ ~faulted' => journal'.end = "ended"
      BY <2>1 DEF Capture!Replayable
    <3>3. Len(journal.lines) <= Len(journal.lines) /\ faults <= faults
      BY <1>1, <2>3 DEF JournalInv
    <3>4. JournalGrows
      BY <2>1, <3>3, Zenon DEF JournalGrows
    <3>. QED BY <2>4, <3>1, <3>2, <3>4, Zenon DEF JournalInv
  <2>6. ResultsInv'
    BY <1>1, <2>1 DEF ResultsInv, Capture!AcknowledgedIsDurable, Capture!ToSet
  <2>7. SinkKeeps
    BY <2>1, <2>5, <2>6 DEF SinkKeeps
  <2>8. up' \in BOOLEAN /\ restarts' \in 0..MaxRestarts
    BY <1>1, <2>1 DEF CallbacksInv, Capture!ConstantsAssumption
  <2>. QED BY <1>1, <2>1, <2>7, <2>8, CallbacksStay DEF CallbacksInv
<1>. QED BY <1>2, <1>3, <1>4

LEMMA CaptureInit ==
  ASSUME Capture!ConstantsAssumption, Capture!Init
  PROVE  CaptureInv
<1>1. /\ up = TRUE /\ results = <<>> /\ failures = <<>> /\ failureCount = 0
      /\ started = {} /\ completed = {} /\ spanLock = NoSpan
      /\ capturing = [s \in Capture!Sources |-> "new"]
      /\ faulted = FALSE /\ durable = {} /\ delivered = {}
      /\ journal = EmptyFile /\ faults = 0 /\ restarts = 0
  BY JournalIsALineFile, Zenon DEF Capture!Init
<1>2. journal.lines = <<>> /\ journal.end = "ended"
  BY <1>1 DEF EmptyFile
<1>3. ResultsInv
  BY <1>1 DEF ResultsInv, Capture!AcknowledgedIsDurable, Capture!ToSet
<1>4. Capture!Window(<<>>) = <<>>
  BY SubSeqEmpty DEF Capture!Window, Capture!ConstantsAssumption
<1>5. JournalInv
  <2>1. journal \in Files(Capture!Failures)
    BY <1>1 DEF EmptyFile, Files, Ends
  <2>2. Len(journal.lines) = 0 /\ 0 <= JournalLimit /\ faults \in 0..MaxFaults
    BY <1>1, <1>2 DEF Capture!ConstantsAssumption
  <2>3. Capture!FailuresMatchJournal
    BY <1>1, <1>2, <1>4, <2>2, Zenon DEF Capture!FailuresMatchJournal
  <2>4. Capture!JournalReplayable
    BY <1>2, <2>2, Zenon DEF Capture!JournalReplayable, Capture!Replayable
  <2>5. failures \in Seq(Capture!Failures) /\ failureCount \in Nat
    BY <1>1
  <2>. QED BY <1>1, <1>2, <2>1, <2>2, <2>3, <2>4, <2>5 DEF JournalInv
<1>6. CallbacksInv
  BY <1>1 DEF CallbacksInv, StartsUnderWay, Capture!Phases,
     Capture!ConstantsAssumption
<1>. QED BY <1>3, <1>5, <1>6 DEF CaptureInv

LEMMA CaptureInvStep ==
  ASSUME Capture!ConstantsAssumption, CaptureInv, [Capture!Next]_(Capture!captureVars)
  PROVE  CaptureInv'
<1>1. CASE Capture!Next
  BY <1>1, RunsKeepCaptureInv, SpansKeepCaptureInv, ProcessKeepsCaptureInv, Zenon
     DEF Capture!Next
<1>2. CASE UNCHANGED Capture!captureVars
  <2>1. /\ UNCHANGED <<up, delivered, restarts, Capture!sinkVars>>
        /\ capturing' = capturing
        /\ started' = started /\ completed' = completed /\ spanLock' = spanLock
    BY <1>2, Zenon DEF Capture!captureVars, Capture!sinkVars
  <2>2. SinkKeeps
    BY <2>1, SinkStays DEF CaptureInv
  <2>. QED BY <2>1, <2>2, CallbacksStay DEF CaptureInv, CallbacksInv
<1>. QED BY <1>1, <1>2

LEMMA CaptureInvariance ==
  ASSUME Capture!ConstantsAssumption
  PROVE  Capture!Spec => []CaptureInv
  BY CaptureInit, CaptureInvStep, PTL DEF Capture!Spec

\* What a call of the sink may add to the workspace.
LEMMA SinkAdds ==
  ASSUME NEW s, NEW kind, NEW next, NEW failed, Capture!AddResult(s, kind, next, failed)
  PROVE  durable' \subseteq durable \union {[source |-> s, kind |-> kind]}
<1> DEFINE r == [source |-> s, kind |-> kind]
<1>1. \/ Capture!Accept(r) \/ UNCHANGED Capture!sinkVars
      \/ Capture!RaisesValue(r) \/ Capture!RaisesOther(r)
  BY Zenon DEF Capture!AddResult
<1>. QED
  BY <1>1 DEF Capture!Accept, Capture!RaisesValue, Capture!RaisesOther, Capture!sinkVars

\* A run moves on without a runtime contract, or after its start was taken out.
LEMMA CapturedMove ==
  ASSUME CaptureInv, CapturedOnce, NEW s \in Capture!Sources, NEW to, Capture!Goto(s, to),
         started' \subseteq started \union {s}, NEW kind,
         durable' \subseteq durable \union {[source |-> s, kind |-> kind]},
         s \in Runs /\ [source |-> s, kind |-> "runtime"] \in durable' =>
           /\ s \notin started'
           /\ to \in {"runtime", "runtime failed", "done", "raised", "escaped", "lost"}
  PROVE  CapturedOnce'
<1>1. SUFFICES ASSUME NEW t \in Runs, [source |-> t, kind |-> "runtime"] \in durable'
               PROVE  /\ t \notin started'
                      /\ capturing'[t] \in {"runtime", "runtime failed", "done", "raised",
                                            "escaped", "lost"}
  BY DEF CapturedOnce
<1>2. t \in Capture!Sources /\ capturing \in [Capture!Sources -> Capture!Phases]
  BY DEF Capture!Sources, CaptureInv, CallbacksInv
<1>3. capturing' = [capturing EXCEPT ![s] = to]
  BY DEF Capture!Goto
<1>4. CASE t = s
  BY <1>1, <1>2, <1>3, <1>4
<1>5. CASE t # s
  <2>1. [source |-> t, kind |-> "runtime"] # [source |-> s, kind |-> kind]
    BY <1>5
  <2>2. [source |-> t, kind |-> "runtime"] \in durable
    BY <1>1, <2>1
  <2>3. t \notin started /\ capturing'[t] = capturing[t]
    BY <1>2, <1>3, <1>5, <2>2 DEF CapturedOnce
  <2>. QED BY <1>5, <2>2, <2>3 DEF CapturedOnce
<1>. QED BY <1>4, <1>5

LEMMA CapturedOnceStep ==
  ASSUME Capture!ConstantsAssumption, CaptureInv, CapturedOnce,
         [Capture!Next]_(Capture!captureVars)
  PROVE  CapturedOnce'
<1>1. /\ capturing \in [Capture!Sources -> Capture!Phases]
      /\ Runs \subseteq Capture!Sources /\ Spans \subseteq Capture!Sources
      /\ \A s \in Spans : s \notin Runs /\ s \notin started
      /\ StartsUnderWay
  BY DEF CaptureInv, CallbacksInv, Capture!Sources, Capture!ConstantsAssumption
<1>2. ASSUME NEW s \in Runs,
             \/ Capture!AdmitStart(s) \/ Capture!InsertStart(s) \/ Capture!RefuseStart(s)
             \/ Capture!EndRun(s) \/ Capture!Finish(s)
      PROVE  CapturedOnce'
  <2>1. durable' = durable
    BY <1>2 DEF Capture!AdmitStart, Capture!InsertStart, Capture!RefuseStart, Capture!EndRun,
       Capture!Finish, Capture!sinkVars
  <2>2. PICK to : Capture!Goto(s, to)
    BY <1>2, Zenon DEF Capture!AdmitStart, Capture!InsertStart, Capture!RefuseStart,
       Capture!EndRun, Capture!Finish
  <2>3. started' \subseteq started \union {s}
    BY <1>2 DEF Capture!AdmitStart, Capture!InsertStart, Capture!RefuseStart,
       Capture!EndRun, Capture!Finish, Capture!handlerVars
  <2>4. capturing[s] \in {"new", "admitted", "refused", "running", "finish"}
    BY <1>2, Zenon DEF Capture!AdmitStart, Capture!InsertStart, Capture!RefuseStart,
       Capture!EndRun, Capture!Finish
  <2>5. [source |-> s, kind |-> "runtime"] \notin durable
    BY <2>4 DEF CapturedOnce
  <2>6. durable' \subseteq durable \union {[source |-> s, kind |-> "contract"]}
    BY <2>1
  <2>. QED BY <1>1, <2>1, <2>2, <2>3, <2>5, <2>6, CapturedMove
<1>3. ASSUME NEW s \in Runs, Capture!CaptureRun(s)
      PROVE  CapturedOnce'
  <2>1. started' = started
    BY <1>3, Zenon DEF Capture!CaptureRun, Capture!handlerVars
  <2>2. CASE capturing[s] = "contract"
             /\ Capture!AddResult(s, "contract", "finish", "contract failed")
    <3>1. durable' \subseteq durable \union {[source |-> s, kind |-> "contract"]}
      BY <2>2, SinkAdds
    <3>2. [source |-> s, kind |-> "runtime"] # [source |-> s, kind |-> "contract"]
      OBVIOUS
    <3>3. [source |-> s, kind |-> "runtime"] \notin durable'
      BY <2>2, <3>1, <3>2 DEF CapturedOnce
    <3>4. \E to : Capture!Goto(s, to)
      BY <2>2, Zenon DEF Capture!AddResult
    <3>. QED BY <1>1, <2>1, <3>1, <3>3, <3>4, CapturedMove
  <2>3. CASE capturing[s] = "runtime"
             /\ Capture!AddResult(s, "runtime", "done", "runtime failed")
    <3>1. durable' \subseteq durable \union {[source |-> s, kind |-> "runtime"]}
      BY <2>3, SinkAdds
    <3>2. s \notin started
      BY <1>1, <2>3 DEF StartsUnderWay
    <3>3. PICK to \in {"done", "runtime failed", "raised", "escaped"} : Capture!Goto(s, to)
      BY <2>3 DEF Capture!AddResult
    <3>. QED BY <1>1, <2>1, <3>1, <3>2, <3>3, CapturedMove
  <2>4. CASE \/ capturing[s] = "contract failed" /\ Capture!FailThen(s, "contract", "finish")
             \/ capturing[s] = "unpaired" /\ Capture!FailThen(s, "unpaired", "done")
    <3>1. durable' = durable /\ \E to : Capture!Goto(s, to)
      BY <2>4, Zenon DEF Capture!FailThen
    <3>2. [source |-> s, kind |-> "runtime"] \notin durable'
      BY <2>4, <3>1 DEF CapturedOnce
    <3>3. durable' \subseteq durable \union {[source |-> s, kind |-> "contract"]}
      BY <3>1
    <3>. QED BY <1>1, <2>1, <3>1, <3>2, <3>3, CapturedMove
  <2>5. CASE capturing[s] = "runtime failed" /\ Capture!FailThen(s, "runtime", "done")
    <3>1. durable' \subseteq durable \union {[source |-> s, kind |-> "runtime"]}
      BY <2>5, Zenon DEF Capture!FailThen
    <3>2. s \notin started
      BY <1>1, <2>5 DEF StartsUnderWay
    <3>3. PICK to \in {"done", "raised"} : Capture!Goto(s, to)
      BY <2>5 DEF Capture!FailThen
    <3>. QED BY <1>1, <2>1, <3>1, <3>2, <3>3, CapturedMove
  <2>. QED BY <1>3, <2>2, <2>3, <2>4, <2>5, Zenon DEF Capture!CaptureRun
<1>4. ASSUME NEW s \in Spans,
             \/ Capture!EndSpan(s) \/ Capture!DescribeSpan(s) \/ Capture!CaptureSpan(s)
             \/ Capture!CaptureSpanContract(s)
      PROVE  CapturedOnce'
  <2>1. started' = started
    BY <1>4, Zenon DEF Capture!EndSpan, Capture!DescribeSpan, Capture!CaptureSpan,
       Capture!CaptureSpanContract, Capture!handlerVars
  <2>2. \E to, kind :
          /\ Capture!Goto(s, to)
          /\ durable' \subseteq durable \union {[source |-> s, kind |-> kind]}
    <3>1. CASE Capture!EndSpan(s) \/ Capture!DescribeSpan(s)
      <4>1. durable' = durable /\ \E to : Capture!Goto(s, to)
        BY <3>1, Zenon DEF Capture!EndSpan, Capture!DescribeSpan, Capture!sinkVars
      <4>. QED BY <4>1
    <3>2. ASSUME NEW kind, NEW next, NEW failed, Capture!AddResult(s, kind, next, failed)
          PROVE  \E to, k :
                   /\ Capture!Goto(s, to)
                   /\ durable' \subseteq durable \union {[source |-> s, kind |-> k]}
      <4>1. durable' \subseteq durable \union {[source |-> s, kind |-> kind]}
        BY <3>2, SinkAdds
      <4>2. \E to : Capture!Goto(s, to)
        BY <3>2, Zenon DEF Capture!AddResult
      <4>. QED BY <4>1, <4>2
    <3>3. CASE /\ Capture!RaisesOther([source |-> s, kind |-> "contract"])
               /\ Capture!Goto(s, "contract failed")
      <4>1. durable' \subseteq durable \union {[source |-> s, kind |-> "contract"]}
        BY <3>3 DEF Capture!RaisesOther
      <4>. QED BY <3>3, <4>1
    <3>4. ASSUME NEW stage, NEW next, Capture!FailThen(s, stage, next)
          PROVE  \E to, k :
                   /\ Capture!Goto(s, to)
                   /\ durable' \subseteq durable \union {[source |-> s, kind |-> k]}
      <4>1. durable' = durable /\ \E to : Capture!Goto(s, to)
        BY <3>4, Zenon DEF Capture!FailThen
      <4>. QED BY <4>1
    <3>5. CASE Capture!CaptureSpan(s)
      BY <3>2, <3>5, Zenon DEF Capture!CaptureSpan
    <3>6. CASE Capture!CaptureSpanContract(s)
      BY <3>2, <3>3, <3>4, <3>6, Zenon DEF Capture!CaptureSpanContract
    <3>. QED BY <1>4, <3>1, <3>5, <3>6
  <2>. QED BY <1>1, <2>1, <2>2, CapturedMove
<1>5. ASSUME durable' = durable, started' \subseteq started,
             \A s \in Runs : \/ capturing'[s] = capturing[s] \/ capturing'[s] = "lost"
      PROVE  CapturedOnce'
  BY <1>5 DEF CapturedOnce
<1>6. CASE Capture!Crash
  <2>1. /\ durable' = durable /\ started' = {}
        /\ capturing' = [s \in Capture!Sources |->
                           IF capturing[s] \in {"new", "done", "raised", "escaped"}
                           THEN capturing[s] ELSE "lost"]
    BY <1>6, Zenon DEF Capture!Crash
  <2>2. \A s \in Runs : \/ capturing'[s] = capturing[s] \/ capturing'[s] = "lost"
    BY <1>1, <2>1
  <2>. QED BY <1>5, <2>1, <2>2
<1>7. CASE \/ Capture!Drain \/ Capture!Restart \/ \E s \in Spans : Capture!LeaveSpan(s)
  <2>1. durable' = durable /\ started' = started /\ capturing' = capturing
    BY <1>7, Zenon DEF Capture!Drain, Capture!Restart, Capture!LeaveSpan,
       Capture!handlerVars, Capture!sinkVars
  <2>. QED BY <1>5, <2>1
<1>8. CASE UNCHANGED Capture!captureVars
  <2>1. durable' = durable /\ started' = started /\ capturing' = capturing
    BY <1>8, Zenon DEF Capture!captureVars
  <2>. QED BY <1>5, <2>1
<1>. QED BY <1>2, <1>3, <1>4, <1>6, <1>7, <1>8, Zenon DEF Capture!Next

\* Whatever is observed, refused, cut off or restarted, counter and window of
\* failures agree with the journal, and only a write of it that failed can
\* keep a process from starting.
THEOREM FailuresReplay ==
  ASSUME Capture!ConstantsAssumption
  PROVE  Capture!Spec => []FailuresMatchJournal
<1>1. CaptureInv => FailuresMatchJournal
  BY Zenon DEF CaptureInv, JournalInv, FailuresMatchJournal
<1>. QED BY CaptureInvariance, <1>1, PTL

\* What a sink acknowledged is in the workspace, and a run or span whose
\* callbacks have ended is there or in the journal, unless that is full or
\* could not be written, or a callback let an exception out that came up before
\* the sink was called.
THEOREM NothingCapturedIsLost ==
  ASSUME Capture!ConstantsAssumption
  PROVE  Capture!Spec => []CapturesKept
<1>1. CaptureInv => CapturesKept
  BY Zenon DEF CaptureInv, ResultsInv, CallbacksInv, CapturesKept,
     Capture!NothingLostSilently, Accounted, Named
<1>. QED BY CaptureInvariance, <1>1, PTL

\* The handler's window of starts keeps only runs that are under way and, for
\* good, those whose callback raised to the SDK; it keeps no run that was
\* captured.
THEOREM StartsAreReleased ==
  ASSUME Capture!ConstantsAssumption
  PROVE  Capture!Spec => []StartsReleased
<1>1. CaptureInv /\ CapturedOnce => StartsReleased
  BY DEF CaptureInv, CallbacksInv, StartsUnderWay, CapturedOnce, StartsReleased,
     Capture!StartsReleased, Capture!Underway
<1>2. Capture!Init => CapturedOnce
  BY DEF Capture!Init, CapturedOnce
<1>3. CaptureInv /\ CapturedOnce /\ [Capture!Next]_(Capture!captureVars) => CapturedOnce'
  BY CapturedOnceStep
<1>. QED BY CaptureInvariance, <1>1, <1>2, <1>3, PTL DEF Capture!Spec

-----------------------------------------------------------------------------
(* Release proofs.  What a call has read binds its later reads: the        *)
(* attestation fixes the chain it is verified with, that chain the sources *)
(* that are staged, and the basis the attestation.  StepsBound says how    *)
(* far this has come at each step.                                         *)

\* What holds of a call from a step on.
StepsBound ==
  build # NoBuild =>
    /\ approved \subseteq build.active
    /\ build.step \in {"gather", "attach", "enclose", "stage", "open", "export", "basis",
                       "approval", "write"} => build.attested = build.chain
    /\ build.step \in {"open", "export", "basis", "approval", "write"} =>
         build.bundle.sources = build.chain
    /\ build.step \in {"basis", "approval", "write"} => bundleFile = build.bundle
    /\ build.step \in {"basis", "approval"} => build.reconcile
    /\ build.reconcile /\ build.step \in {"approval", "write"} =>
         /\ build.basis # NoReport
         /\ build.basis.candidate = build.claimed
         /\ build.basis.outcome = build.attested
    /\ build.reconcile /\ build.step = "write" => build.basis.number \in build.active

ReleaseInv == Releasing!TypeOK /\ StepsBound /\ Releasing!ApprovedSourcesPackaged

LEMMA ReleaseInit ==
  ASSUME Releasing!ConstantsAssumption, Releasing!Init
  PROVE  ReleaseInv
  BY SMT DEF Releasing!ConstantsAssumption, Releasing!Init, ReleaseInv,
     Releasing!TypeOK, StepsBound, Releasing!ApprovedSourcesPackaged

\* What others do leaves the call as it is, but for the approvals it has seen.
LEMMA OthersKeepReleaseInv ==
  ASSUME Releasing!ConstantsAssumption, ReleaseInv,
         Releasing!Replace \/ Releasing!Approve \/ Releasing!Revoke
  PROVE  ReleaseInv'
<1> USE DEF Releasing!ConstantsAssumption, ReleaseInv, Releasing!TypeOK, StepsBound,
            Releasing!ApprovedSourcesPackaged
<1>1. CASE Releasing!Replace
  BY <1>1, SMT DEF Releasing!Replace
<1>2. CASE Releasing!Approve
  <2>1. PICK n \in (1..generated) \ approved :
          /\ approved' = approved \union {n}
          /\ build' = IF build = NoBuild THEN build
                      ELSE [build EXCEPT !.active = @ \union {n}]
    BY <1>2, Zenon DEF Releasing!Approve
  <2>2. n \in 1..MaxReports
    BY <2>1, SMT
  <2>3. UNCHANGED <<Releasing!inputVars, basisReport, generated, bundleFile, releases>>
    BY <1>2, Zenon DEF Releasing!Approve
  <2>4. build # NoBuild => build' # NoBuild /\ build' \in Releasing!Builds
    BY <2>1, <2>2, SMT DEF Releasing!Builds
  <2>5. Releasing!TypeOK'
    BY <2>1, <2>2, <2>3, <2>4, SMT DEF Releasing!inputVars
  <2>6. StepsBound'
    BY <2>1, <2>3, SMT DEF Releasing!Builds
  <2>. QED BY <2>3, <2>5, <2>6
<1>3. CASE Releasing!Revoke
  BY <1>3, SMT DEF Releasing!Revoke, Releasing!inputVars
<1>. QED BY <1>1, <1>2, <1>3

\* The steps that only move the call on.
LEMMA ReadsKeepReleaseInv ==
  ASSUME Releasing!ConstantsAssumption, ReleaseInv,
         \/ \E reconcile \in BOOLEAN : Releasing!Begin(reconcile)
         \/ Releasing!Abandon \/ Releasing!LoadChain \/ Releasing!VerifyChain
         \/ Releasing!LoadAttestation \/ Releasing!LoadChainAgain
         \/ Releasing!VerifyOutcome \/ Releasing!GatherSources
         \/ Releasing!Attach \/ Releasing!Enclose \/ Releasing!StageSources
         \/ Releasing!CompareBasis \/ Releasing!FindApproval
  PROVE  ReleaseInv'
<1>0. /\ chainFile \in Versions /\ attestationFile \in Versions /\ sourceFiles \in Versions
      /\ basisReport # NoReport => basisReport \in Releasing!Reports
      /\ build # NoBuild => build \in Releasing!Builds
  BY DEF ReleaseInv, Releasing!TypeOK
<1> USE DEF Releasing!ConstantsAssumption, Releasing!TypeOK, Releasing!At,
            Releasing!others, Releasing!inputVars, ReleaseInv, StepsBound,
            Releasing!ApprovedSourcesPackaged
<1>a. NoBuild \notin Releasing!Builds
  BY DEF Releasing!ConstantsAssumption
<1>1. ASSUME NEW reconcile \in BOOLEAN, Releasing!Begin(reconcile) PROVE ReleaseInv'
  BY <1>1, SMT DEF Releasing!Begin, Releasing!Builds, Releasing!Bundles, Releasing!Steps
<1>2. CASE Releasing!Abandon
  BY <1>2, SMT DEF Releasing!Abandon
<1>3. CASE Releasing!LoadChain
  <2>1. build' \in Releasing!Builds
    BY <1>0, <1>3, Zenon DEF Releasing!LoadChain, Releasing!At, Releasing!Builds,
       Releasing!Bundles, Releasing!Steps
  <2>2. /\ build'.step = "verify"
        /\ build'.active = build.active
    BY <1>0, <1>3, SMT DEF Releasing!LoadChain, Releasing!At, Releasing!Builds,
       Releasing!Bundles
  <2>. QED BY <1>a, <1>3, <2>1, <2>2, SMT DEF Releasing!LoadChain
<1>4. CASE Releasing!VerifyChain
  BY <1>4, SMT DEF Releasing!VerifyChain, Releasing!Builds, Releasing!Bundles,
     Releasing!Steps
<1>5. CASE Releasing!LoadAttestation
  <2>1. build' \in Releasing!Builds
    BY <1>0, <1>5, Zenon DEF Releasing!LoadAttestation, Releasing!At, Releasing!Builds,
       Releasing!Bundles, Releasing!Steps
  <2>2. /\ build'.step = "chain"
        /\ build'.active = build.active
    BY <1>0, <1>5, SMT DEF Releasing!LoadAttestation, Releasing!At, Releasing!Builds,
       Releasing!Bundles
  <2>. QED BY <1>a, <1>5, <2>1, <2>2, SMT DEF Releasing!LoadAttestation
<1>6. CASE Releasing!LoadChainAgain
  <2>1. build' \in Releasing!Builds
    BY <1>0, <1>6, Zenon DEF Releasing!LoadChainAgain, Releasing!At, Releasing!Builds,
       Releasing!Bundles, Releasing!Steps
  <2>2. /\ build'.step = "outcome"
        /\ build'.active = build.active
    BY <1>0, <1>6, SMT DEF Releasing!LoadChainAgain, Releasing!At, Releasing!Builds,
       Releasing!Bundles
  <2>. QED BY <1>a, <1>6, <2>1, <2>2, SMT DEF Releasing!LoadChainAgain
<1>7. CASE Releasing!VerifyOutcome
  BY <1>7, SMT DEF Releasing!VerifyOutcome, Releasing!Builds, Releasing!Bundles,
     Releasing!Steps
<1>8. CASE Releasing!GatherSources
  BY <1>8, SMT DEF Releasing!GatherSources, Releasing!Builds, Releasing!Bundles,
     Releasing!Steps
<1>9. CASE Releasing!Attach
  <2>1. build' \in Releasing!Builds
    BY <1>0, <1>9, Zenon DEF Releasing!Attach, Releasing!At, Releasing!Builds,
       Releasing!Bundles, Releasing!Steps
  <2>2. /\ build'.step = "enclose"
        /\ build'.attested = build.attested /\ build'.chain = build.chain
        /\ build'.active = build.active
    BY <1>0, <1>9, SMT DEF Releasing!Attach, Releasing!At, Releasing!Builds,
       Releasing!Bundles
  <2>. QED BY <1>a, <1>9, <2>1, <2>2, SMT DEF Releasing!Attach
<1>10. CASE Releasing!Enclose
  <2>1. build' \in Releasing!Builds
    BY <1>0, <1>10, Zenon DEF Releasing!Enclose, Releasing!At, Releasing!Builds,
       Releasing!Bundles, Releasing!Steps
  <2>2. /\ build'.step = "stage"
        /\ build'.attested = build.attested /\ build'.chain = build.chain
        /\ build'.active = build.active
    BY <1>0, <1>10, SMT DEF Releasing!Enclose, Releasing!At, Releasing!Builds,
       Releasing!Bundles
  <2>. QED BY <1>a, <1>10, <2>1, <2>2, SMT DEF Releasing!Enclose
<1>11. CASE Releasing!StageSources
  <2>1. build' \in Releasing!Builds
    BY <1>0, <1>11, Zenon DEF Releasing!StageSources, Releasing!At, Releasing!Builds,
       Releasing!Bundles, Releasing!Steps
  <2>2. /\ build'.step = "open"
        /\ build'.attested = build.attested /\ build'.chain = build.chain
        /\ build'.bundle.sources = sourceFiles
        /\ build'.active = build.active
    BY <1>0, <1>11, SMT DEF Releasing!StageSources, Releasing!At, Releasing!Builds,
       Releasing!Bundles
  <2>. QED BY <1>a, <1>11, <2>1, <2>2, SMT DEF Releasing!StageSources
<1>12. CASE Releasing!CompareBasis
  <2>1. build' \in Releasing!Builds
    BY <1>0, <1>12, Zenon DEF Releasing!CompareBasis, Releasing!At, Releasing!Builds,
       Releasing!Bundles, Releasing!Steps
  <2>2. /\ build'.step = "approval"
        /\ build'.attested = build.attested /\ build'.chain = build.chain
        /\ build'.claimed = build.claimed /\ build'.reconcile = build.reconcile
        /\ build'.bundle = build.bundle
        /\ build'.basis = basisReport
        /\ build'.active = build.active
    BY <1>0, <1>12, SMT DEF Releasing!CompareBasis, Releasing!At, Releasing!Builds,
       Releasing!Bundles
  <2>. QED BY <1>a, <1>12, <2>1, <2>2, SMT DEF Releasing!CompareBasis
<1>13. CASE Releasing!FindApproval
  BY <1>13, SMT DEF Releasing!FindApproval, Releasing!Builds, Releasing!Bundles,
     Releasing!Steps
<1>. QED
  BY <1>1, <1>2, <1>3, <1>4, <1>5, <1>6, <1>7, <1>8, <1>9, <1>10, <1>11, <1>12, <1>13,
  Zenon

\* The steps that write the bundle or a report.
LEMMA WritesKeepReleaseInv ==
  ASSUME Releasing!ConstantsAssumption, ReleaseInv,
         Releasing!OpenBundle \/ Releasing!ExportBundle \/ Releasing!WriteBasis
         \/ Releasing!WriteApproved
  PROVE  ReleaseInv'
<1> USE DEF Releasing!ConstantsAssumption, ReleaseInv, Releasing!TypeOK, StepsBound,
            Releasing!ApprovedSourcesPackaged,
            Releasing!At, Releasing!others, Releasing!inputVars, Releasing!Builds,
            Releasing!Bundles, Releasing!Steps
<1>1. CASE Releasing!OpenBundle
  BY <1>1, SMT DEF Releasing!OpenBundle
<1>2. CASE Releasing!ExportBundle
  BY <1>2, SMT DEF Releasing!ExportBundle
<1>3. CASE Releasing!WriteBasis
  BY <1>3, SMT DEF Releasing!WriteBasis, Releasing!Reports
<1>4. CASE Releasing!WriteApproved
  BY <1>4, SMT DEF Releasing!WriteApproved, Releasing!Reports, Releasing!Releases
<1>. QED BY <1>1, <1>2, <1>3, <1>4

LEMMA ReleaseInvStep ==
  ASSUME Releasing!ConstantsAssumption, ReleaseInv, [Releasing!Next]_(Releasing!proofVars)
  PROVE  ReleaseInv'
<1>1. CASE Releasing!Next
  BY <1>1, OthersKeepReleaseInv, ReadsKeepReleaseInv, WritesKeepReleaseInv,
  Zenon DEF Releasing!Next
<1>2. CASE UNCHANGED Releasing!proofVars
  BY <1>2, Zenon DEF Releasing!proofVars, Releasing!inputVars, ReleaseInv,
     Releasing!TypeOK, StepsBound, Releasing!ApprovedSourcesPackaged
<1>. QED BY <1>1, <1>2

LEMMA ReleaseInvariance ==
  ASSUME Releasing!ConstantsAssumption
  PROVE  Releasing!Spec => []ReleaseInv
  BY ReleaseInit, ReleaseInvStep, PTL DEF Releasing!Spec

\* Every reachable state is well typed; in particular an approved report is
\* only written when there is a complete bundle.
THEOREM ReleaseTypeCorrect ==
  ASSUME Releasing!ConstantsAssumption
  PROVE  Releasing!Spec => []Releasing!TypeOK
<1>1. ReleaseInv => Releasing!TypeOK
  BY DEF ReleaseInv
<1>. QED BY ReleaseInvariance, <1>1, PTL

\* Whatever files are replaced while a proof is built, an approved report
\* stands beside the sources of the outcome that was approved.
THEOREM ApprovedReportsBacked ==
  ASSUME Releasing!ConstantsAssumption
  PROVE  Releasing!Spec => []ApprovedSourcesPackaged
<1>1. ReleaseInv => ApprovedSourcesPackaged
  BY DEF ReleaseInv, ApprovedSourcesPackaged
<1>. QED BY ReleaseInvariance, <1>1, PTL

-----------------------------------------------------------------------------
(* Publication of a release.  What a call has downloaded with the          *)
(* permitted bytes was uploaded with them, and stays so (ReadSoundly); and *)
(* the number of observations only grows, so that a call whose predecessor *)
(* is still the tip has seen no other one appear (TipFollowed).            *)

PermittedUploaded == \A n \in Names : uploaded[n] = "permitted"
ObservedSoFar == Len(observations.lines)
CompleteStatuses == {"available", "yanked"}

ReadSoundly(c) ==
  /\ \A n \in Names : c.got[n] = "permitted" => uploaded[n] = "permitted"
  /\ c.step = "append" /\ c.status \in CompleteStatuses => PermittedUploaded

TipFollowed(c) ==
  /\ c.step = "append" => c.script = "lifecycle"
  /\ c.script = "lifecycle" => c.receipt \in Publication!Receipts
  /\ c.previous <= ObservedSoFar
  /\ c.step # "index" => c.previous <= c.index.seen /\ c.index.seen <= ObservedSoFar

RegistryInv ==
  /\ Publication!TypeOK
  /\ ObservedSoFar <= MaxRecords
  /\ Publication!PublishedBytesPermitted
  /\ Publication!ObservationsInOrder
  /\ \A p \in Callers : call[p] # NoCall => ReadSoundly(call[p]) /\ TipFollowed(call[p])

\* What LineFile_proofs says is about the files of the instance.
LEMMA SameObservationFiles ==
  /\ Publication!Files(Publication!Observations) = Files(Publication!Observations)
  /\ \A f, r : Publication!Interrupted(f, <<r>>) = Interrupted(f, <<r>>)
  /\ \A f, r : Publication!Extended(f, <<r>>) = Extended(f, <<r>>)
<1>1. Publication!Files(Publication!Observations) = Files(Publication!Observations)
  BY Zenon DEF Publication!Files, Files, Publication!Ends, Ends
<1>2. \A f, r : Publication!Interrupted(f, <<r>>) = Interrupted(f, <<r>>)
  BY Zenon DEF Publication!Interrupted, Interrupted, Publication!Ends, Ends
<1>3. \A f, r : Publication!Extended(f, <<r>>) = Extended(f, <<r>>)
  BY Zenon DEF Publication!Extended, Extended
<1>. QED BY <1>1, <1>2, <1>3

LEMMA RegistryInit ==
  ASSUME Publication!ConstantsAssumption, Publication!Init
  PROVE  RegistryInv
<1>1. Publication!EmptyFile \in Publication!Files(Publication!Observations)
      /\ Len(Publication!EmptyFile.lines) = 0
  BY DEF Publication!EmptyFile, Publication!Files, Publication!Ends
<1>2. uploaded \in [Publication!AllNames -> Publication!Bytes \union {"none"}]
  BY DEF Publication!Init
<1>5. call \in [Callers -> Publication!Calls \union {NoCall}]
  BY DEF Publication!Init
<1>6. 0 \in Publication!Times /\ 0 \in 0..MaxChanges /\ 0 \in 0..MaxCuts
  BY DEF Publication!ConstantsAssumption, Publication!Times
<1>3. Publication!TypeOK
  BY <1>1, <1>2, <1>5, <1>6, Zenon DEF Publication!Init, Publication!TypeOK
<1>4. Publication!PublishedBytesPermitted /\ Publication!ObservationsInOrder
      /\ ObservedSoFar <= MaxRecords
  BY <1>1 DEF Publication!ConstantsAssumption, Publication!Init,
     Publication!PublishedBytesPermitted, Publication!ObservationsInOrder, ObservedSoFar
<1>. QED BY <1>3, <1>4 DEF Publication!Init, RegistryInv

-----------------------------------------------------------------------------
(* The steps of a call that write nothing.                                 *)

LEMMA CallKeepsRegistryInv ==
  ASSUME Publication!ConstantsAssumption, RegistryInv, NEW p \in Callers,
         NEW c \in Publication!Calls \union {NoCall},
         Publication!Goto(p, c), c # NoCall => ReadSoundly(c) /\ TipFollowed(c),
         UNCHANGED <<Publication!registryVars, clock, receipt, observations, cuts>>
  PROVE  RegistryInv'
<1>1. /\ call' \in [Callers -> Publication!Calls \union {NoCall}]
      /\ call'[p] = c
      /\ \A q \in Callers \ {p} : call'[q] = call[q]
  BY DEF Publication!Goto, RegistryInv, Publication!TypeOK
<1>2. UNCHANGED <<uploaded, listed, present, yankedNow, changes>>
  BY DEF Publication!registryVars
<1>3. Publication!TypeOK'
  BY <1>1, <1>2 DEF RegistryInv, Publication!TypeOK
<1>4. ASSUME NEW q \in Callers, call'[q] # NoCall
      PROVE  ReadSoundly(call[q])' /\ TipFollowed(call[q])'
  <2>1. CASE q = p
    BY <1>1, <1>2, <1>4, <2>1 DEF ReadSoundly, TipFollowed, PermittedUploaded,
       ObservedSoFar
  <2>2. CASE q # p
    BY <1>1, <1>2, <1>4, <2>2 DEF RegistryInv, ReadSoundly, TipFollowed,
       PermittedUploaded, ObservedSoFar
  <2>. QED BY <2>1, <2>2
<1>5. Publication!PublishedBytesPermitted' /\ Publication!ObservationsInOrder'
      /\ ObservedSoFar' <= MaxRecords
  BY <1>2 DEF RegistryInv, Publication!PublishedBytesPermitted,
     Publication!ObservationsInOrder, ObservedSoFar
<1>. QED BY <1>3, <1>4, <1>5 DEF RegistryInv

LEMMA ReturnKeepsRegistryInv ==
  ASSUME Publication!ConstantsAssumption, RegistryInv, NEW p \in Callers,
         Publication!Return(p),
         UNCHANGED <<Publication!registryVars, clock, receipt, observations, cuts>>
  PROVE  RegistryInv'
<1>1. Publication!Goto(p, NoCall)
  BY DEF Publication!Return, Publication!Goto
<1>. QED BY <1>1, CallKeepsRegistryInv

LEMMA BeginPublicationKeepsRegistryInv ==
  ASSUME Publication!ConstantsAssumption, RegistryInv, NEW p \in Callers,
         Publication!BeginPublication(p)
  PROVE  RegistryInv'
<1> DEFINE c == [script |-> "publication", step |-> "index", receipt |-> NoReceipt,
                 previous |-> 0, after |-> 0, index |-> Publication!NoIndex,
                 got |-> Publication!NothingRead,
                 observed |-> 0, status |-> "available"]
<1>1. Publication!NoIndex \in Publication!Indexes
      /\ Publication!NothingRead \in [Names -> Publication!Bytes \union {"none"}]
  BY DEF Publication!ConstantsAssumption, Publication!NoIndex, Publication!Indexes,
     Publication!NothingRead
<1>2. c \in Publication!Calls
  BY <1>1 DEF Publication!ConstantsAssumption, Publication!Calls, Publication!Times,
     Publication!Statuses
<1>3. ObservedSoFar \in Nat
  BY DEF RegistryInv, Publication!TypeOK, Publication!Files, ObservedSoFar
<1>4. ReadSoundly(c) /\ TipFollowed(c)
  BY <1>3 DEF ReadSoundly, TipFollowed, Publication!NothingRead
<1> HIDE DEF c
<1>5. Publication!Goto(p, c) /\ UNCHANGED <<Publication!registryVars, clock, receipt,
      observations, cuts>>
  BY DEF Publication!BeginPublication, c
<1>. QED BY <1>2, <1>4, <1>5, CallKeepsRegistryInv

LEMMA BeginLifecycleKeepsRegistryInv ==
  ASSUME Publication!ConstantsAssumption, RegistryInv, NEW p \in Callers,
         Publication!BeginLifecycle(p)
  PROVE  RegistryInv'
<1> DEFINE lines == observations.lines
           after == IF lines = <<>> THEN receipt.observed ELSE lines[Len(lines)].observed
<1>1. Publication!NoIndex \in Publication!Indexes
      /\ Publication!NothingRead \in [Names -> Publication!Bytes \union {"none"}]
  BY DEF Publication!ConstantsAssumption, Publication!NoIndex, Publication!Indexes,
     Publication!NothingRead
<1>2. lines \in Seq(Publication!Observations) /\ Len(lines) \in 0..MaxRecords
  BY DEF RegistryInv, Publication!TypeOK, Publication!Files, ObservedSoFar,
     Publication!ConstantsAssumption
<1>3. receipt \in Publication!Receipts
  BY DEF Publication!BeginLifecycle, RegistryInv, Publication!TypeOK
<1>4. after \in Publication!Times
  <2>1. CASE lines = <<>>
    BY <1>3, <2>1 DEF Publication!Receipts
  <2>2. CASE lines # <<>>
    <3>1. lines[Len(lines)] \in Publication!Observations
      BY <1>2, <2>2
    <3>. QED BY <2>2, <3>1 DEF Publication!Observations
  <2>. QED BY <2>1, <2>2
<1> DEFINE c == [script |-> "lifecycle", step |-> "index", receipt |-> receipt,
                 previous |-> Len(lines), after |-> after, index |-> Publication!NoIndex,
                 got |-> Publication!NothingRead, observed |-> 0, status |-> "available"]
<1>5. Publication!Goto(p, c) /\ UNCHANGED <<Publication!registryVars, clock, receipt,
      observations, cuts>>
  BY DEF Publication!BeginLifecycle
<1> HIDE DEF after
<1>6. c \in Publication!Calls
  BY <1>1, <1>2, <1>3, <1>4 DEF Publication!ConstantsAssumption, Publication!Calls,
     Publication!Times, Publication!Statuses
<1>7. ReadSoundly(c) /\ TipFollowed(c)
  BY <1>2, <1>3 DEF ReadSoundly, TipFollowed, Publication!NothingRead, ObservedSoFar
<1> HIDE DEF c
<1>. QED BY <1>5, <1>6, <1>7, CallKeepsRegistryInv

LEMMA ReadIndexKeepsRegistryInv ==
  ASSUME Publication!ConstantsAssumption, RegistryInv, NEW p \in Callers,
         Publication!ReadIndex(p)
  PROVE  RegistryInv'
<1> DEFINE index == [present |-> present, files |-> listed, yanked |-> yankedNow,
                     seen |-> Len(observations.lines)]
           c == [call[p] EXCEPT !.step = "download", !.got = Publication!NothingRead,
           !.index = index]
<1>1. call[p] \in Publication!Calls /\ TipFollowed(call[p])
  BY DEF Publication!ReadIndex, Publication!Doing, RegistryInv, Publication!TypeOK
<1>2. UNCHANGED <<Publication!registryVars, clock, receipt, observations, cuts>>
  BY DEF Publication!ReadIndex
<1>3. CASE listed \subseteq Names
  <2>1. Publication!Goto(p, c)
    BY <1>3, Zenon DEF Publication!ReadIndex
  <2>2. index \in Publication!Indexes
    BY <1>3 DEF Publication!Indexes, RegistryInv, Publication!TypeOK, ObservedSoFar,
       Publication!Files
  <2>3. Publication!NothingRead \in [Names -> Publication!Bytes \union {"none"}]
    BY DEF Publication!NothingRead
  <2>4. index.seen = ObservedSoFar /\ ObservedSoFar \in Nat
    BY DEF ObservedSoFar, RegistryInv, Publication!TypeOK, Publication!Files
  <2> HIDE DEF index
  <2>5. c \in Publication!Calls
    BY <1>1, <2>2, <2>3, Zenon DEF Publication!Calls
  <2>6. /\ c.step = "download" /\ c.got = Publication!NothingRead /\ c.index = index
        /\ c.previous = call[p].previous
        /\ c.script = call[p].script /\ c.receipt = call[p].receipt
    BY <1>1, SMT DEF Publication!Calls
  <2> HIDE DEF c
  <2>7. ReadSoundly(c) /\ TipFollowed(c)
    BY <1>1, <2>4, <2>6 DEF ReadSoundly, TipFollowed, Publication!NothingRead
  <2>. QED BY <1>2, <2>1, <2>5, <2>7, CallKeepsRegistryInv
<1>4. CASE ~(listed \subseteq Names)
  <2>1. Publication!Return(p)
    BY <1>4, Zenon DEF Publication!ReadIndex
  <2>. QED BY <1>2, <2>1, ReturnKeepsRegistryInv
<1>. QED BY <1>3, <1>4

LEMMA DownloadKeepsRegistryInv ==
  ASSUME Publication!ConstantsAssumption, RegistryInv, NEW p \in Callers,
         Publication!Download(p)
  PROVE  RegistryInv'
<1>1. /\ call[p] \in Publication!Calls /\ TipFollowed(call[p]) /\ ReadSoundly(call[p])
      /\ call[p].step = "download"
  BY DEF Publication!Download, Publication!Doing, RegistryInv, Publication!TypeOK
<1>2. UNCHANGED <<Publication!registryVars, clock, receipt, observations, cuts>>
  BY DEF Publication!Download
<1>3. PICK n \in call[p].index.files :
        \E bytes \in {uploaded[n], "other"} : Publication!Goto(p,
        [call[p] EXCEPT !.got[n] = bytes])
  BY DEF Publication!Download
<1>b. PICK bytes \in {uploaded[n], "other"} : Publication!Goto(p,
      [call[p] EXCEPT !.got[n] = bytes])
  BY <1>3
<1>4. n \in Names
  BY <1>1 DEF Publication!Calls, Publication!Indexes
<1>5. bytes \in Publication!Bytes \union {"none"}
  BY <1>4 DEF RegistryInv, Publication!TypeOK, Publication!AllNames, Publication!Bytes
<1> DEFINE got == [call[p].got EXCEPT ![n] = bytes]
           c == [call[p] EXCEPT !.got = got]
<1>6. got \in [Names -> Publication!Bytes \union {"none"}]
  BY <1>1, <1>5 DEF Publication!Calls
<1>7. \A m \in Names : got[m] = IF m = n THEN bytes ELSE call[p].got[m]
  BY <1>1 DEF Publication!Calls
<1> HIDE DEF got
<1>8. c \in Publication!Calls
  BY <1>1, <1>6, Zenon DEF Publication!Calls
<1>9. /\ c.step = "download" /\ c.got = got
      /\ c.index = call[p].index /\ c.previous = call[p].previous
      /\ c.script = call[p].script /\ c.receipt = call[p].receipt
  BY <1>1, SMT DEF Publication!Calls
<1>10. Publication!Goto(p, c)
  BY <1>b DEF got
<1> HIDE DEF c
<1>11. ReadSoundly(c)
  BY <1>1, <1>b, <1>7, <1>9 DEF ReadSoundly
<1>12. TipFollowed(c)
  BY <1>1, <1>9 DEF TipFollowed
<1>. QED BY <1>2, <1>8, <1>10, <1>11, <1>12, CallKeepsRegistryInv

LEMMA RetryKeepsRegistryInv ==
  ASSUME Publication!ConstantsAssumption, RegistryInv, NEW p \in Callers,
         Publication!Retry(p)
  PROVE  RegistryInv'
<1> DEFINE c == [call[p] EXCEPT !.step = "index"]
<1>1. call[p] \in Publication!Calls /\ TipFollowed(call[p]) /\ ReadSoundly(call[p])
  BY DEF Publication!Retry, Publication!Doing, RegistryInv, Publication!TypeOK
<1>2. c \in Publication!Calls
  BY <1>1, Zenon DEF Publication!Calls
<1>3. /\ c.step = "index" /\ c.got = call[p].got /\ c.previous = call[p].previous
      /\ c.script = call[p].script /\ c.receipt = call[p].receipt
  BY <1>1, SMT DEF Publication!Calls
<1>4. Publication!Goto(p, c) /\ UNCHANGED <<Publication!registryVars, clock, receipt,
      observations, cuts>>
  BY DEF Publication!Retry
<1> HIDE DEF c
<1>5. ReadSoundly(c) /\ TipFollowed(c)
  BY <1>1, <1>3 DEF ReadSoundly, TipFollowed
<1>. QED BY <1>2, <1>4, <1>5, CallKeepsRegistryInv

\* The files were compared with the basis, so that a complete release was
\* uploaded with the permitted bytes.
LEMMA ReconcileKeepsRegistryInv ==
  ASSUME Publication!ConstantsAssumption, RegistryInv, NEW p \in Callers,
         Publication!Reconcile(p)
  PROVE  RegistryInv'
<1> DEFINE status == Publication!StatusOf(call[p].index)
           c == [call[p] EXCEPT !.step = "append", !.observed = clock, !.status = status]
<1>1. call[p] \in Publication!Calls /\ TipFollowed(call[p]) /\ ReadSoundly(call[p])
      /\ call[p].step = "download"
  BY DEF Publication!Reconcile, Publication!Doing, RegistryInv, Publication!TypeOK
<1>2. clock \in Publication!Times /\ status \in Publication!Statuses
  BY DEF RegistryInv, Publication!TypeOK, Publication!StatusOf, Publication!Statuses
<1>3. status \in CompleteStatuses => PermittedUploaded
  BY <1>1 DEF Publication!Reconcile, Publication!FilesMatch, ReadSoundly,
     Publication!StatusOf, CompleteStatuses, PermittedUploaded
<1>4. Publication!Goto(p, c) /\ UNCHANGED <<Publication!registryVars, clock, receipt,
      observations, cuts>>
  BY DEF Publication!Reconcile
<1> HIDE DEF status
<1>5. c \in Publication!Calls
  BY <1>1, <1>2, Zenon DEF Publication!Calls
<1>6. /\ c.step = "append" /\ c.status = status /\ c.got = call[p].got
      /\ c.index = call[p].index /\ c.previous = call[p].previous
      /\ c.script = call[p].script /\ c.receipt = call[p].receipt
  BY <1>1, SMT DEF Publication!Calls
<1> HIDE DEF c
<1>7. ReadSoundly(c) /\ TipFollowed(c)
  BY <1>1, <1>3, <1>6 DEF ReadSoundly, TipFollowed, Publication!Reconcile
<1>. QED BY <1>4, <1>5, <1>7, CallKeepsRegistryInv

LEMMA GiveUpKeepsRegistryInv ==
  ASSUME Publication!ConstantsAssumption, RegistryInv, NEW p \in Callers,
         Publication!GiveUp(p)
  PROVE  RegistryInv'
  BY ReturnKeepsRegistryInv DEF Publication!GiveUp

-----------------------------------------------------------------------------
(* The registry, the clock, and what the calls write.                      *)

\* A file name keeps its bytes.
LEMMA RegistryKeepsRegistryInv ==
  ASSUME Publication!ConstantsAssumption, RegistryInv, Publication!RegistryChanges
  PROVE  RegistryInv'
<1>1. uploaded \in [Publication!AllNames -> Publication!Bytes \union {"none"}]
  BY DEF RegistryInv, Publication!TypeOK
<1>2. /\ uploaded' \in [Publication!AllNames -> Publication!Bytes \union {"none"}]
      /\ \A n \in Publication!AllNames : uploaded[n] # "none"
         => uploaded'[n] = uploaded[n]
  <2>1. ASSUME NEW n \in Publication!AllNames, NEW bytes \in Publication!Bytes,
        Publication!Upload(n, bytes)
        PROVE 
        /\ uploaded' \in [Publication!AllNames -> Publication!Bytes \union {"none"}]
               /\ \A m \in Publication!AllNames : uploaded[m] # "none"
                  => uploaded'[m] = uploaded[m]
    BY <1>1, <2>1 DEF Publication!Upload
  <2>. QED BY <1>1, <2>1 DEF Publication!RegistryChanges, Publication!DeleteFile,
     Publication!DeleteRelease, Publication!Yank
<1>3. listed' \subseteq Publication!AllNames /\ present' \in BOOLEAN
      /\ yankedNow' \in BOOLEAN
  BY DEF Publication!RegistryChanges, Publication!Upload, Publication!DeleteFile,
     Publication!DeleteRelease, Publication!Yank, RegistryInv, Publication!TypeOK
<1>4. changes' \in 0..MaxChanges /\ UNCHANGED <<clock, receipt, observations, call, cuts>>
  BY DEF Publication!RegistryChanges, RegistryInv, Publication!TypeOK,
     Publication!ConstantsAssumption
<1>5. Publication!TypeOK'
  BY <1>2, <1>3, <1>4 DEF RegistryInv, Publication!TypeOK
<1>6. \A n \in Names : uploaded[n] = "permitted" => uploaded'[n] = "permitted"
  BY <1>2 DEF Publication!AllNames
<1>7. Publication!PublishedBytesPermitted' /\ Publication!ObservationsInOrder'
      /\ ObservedSoFar' <= MaxRecords
  BY <1>4, <1>6 DEF RegistryInv, Publication!PublishedBytesPermitted,
     Publication!ObservationsInOrder, ObservedSoFar
<1>8. ASSUME NEW p \in Callers, call'[p] # NoCall
      PROVE  ReadSoundly(call[p])' /\ TipFollowed(call[p])'
  BY <1>4, <1>6, <1>8 DEF RegistryInv, ReadSoundly, TipFollowed, PermittedUploaded,
     ObservedSoFar
<1>. QED BY <1>5, <1>7, <1>8 DEF RegistryInv

LEMMA SetClockKeepsRegistryInv ==
  ASSUME Publication!ConstantsAssumption, RegistryInv, Publication!SetClock
  PROVE  RegistryInv'
<1>1. clock' \in Publication!Times /\ UNCHANGED <<uploaded, listed, present, yankedNow,
      changes>>
  BY DEF Publication!SetClock, Publication!registryVars
<1>2. UNCHANGED <<receipt, observations, call, cuts>>
  BY DEF Publication!SetClock
<1>. QED
  BY <1>1, <1>2 DEF RegistryInv, Publication!TypeOK,
     Publication!PublishedBytesPermitted, Publication!ObservationsInOrder, ObservedSoFar,
                    ReadSoundly, TipFollowed, PermittedUploaded

LEMMA WriteReceiptKeepsRegistryInv ==
  ASSUME Publication!ConstantsAssumption, RegistryInv, NEW p \in Callers,
         Publication!WriteReceipt(p)
  PROVE  RegistryInv'
<1>1. call[p] \in Publication!Calls /\ ReadSoundly(call[p])
  BY DEF Publication!WriteReceipt, Publication!Doing, RegistryInv, Publication!TypeOK
<1>2. PermittedUploaded
  BY <1>1 DEF Publication!WriteReceipt, Publication!FilesMatch, ReadSoundly,
     PermittedUploaded
<1>3. UNCHANGED <<uploaded, listed, present, yankedNow, changes, clock, observations,
      cuts>>
  BY DEF Publication!WriteReceipt, Publication!registryVars
<1>4. receipt' \in Publication!Receipts
  BY DEF Publication!WriteReceipt, Publication!Receipts, RegistryInv, Publication!TypeOK
<1>5. /\ call' \in [Callers -> Publication!Calls \union {NoCall}]
      /\ call'[p] = NoCall
      /\ \A q \in Callers \ {p} : call'[q] = call[q]
  BY DEF Publication!WriteReceipt, Publication!Return, RegistryInv, Publication!TypeOK
<1>6. Publication!TypeOK'
  BY <1>3, <1>4, <1>5 DEF RegistryInv, Publication!TypeOK
<1>7. Publication!PublishedBytesPermitted' /\ Publication!ObservationsInOrder'
      /\ ObservedSoFar' <= MaxRecords
  BY <1>2, <1>3 DEF RegistryInv, Publication!PublishedBytesPermitted,
     Publication!ObservationsInOrder, ObservedSoFar, PermittedUploaded
<1>8. ASSUME NEW q \in Callers, call'[q] # NoCall
      PROVE  ReadSoundly(call[q])' /\ TipFollowed(call[q])'
  BY <1>3, <1>5, <1>8 DEF RegistryInv, ReadSoundly, TipFollowed, PermittedUploaded,
     ObservedSoFar
<1>. QED BY <1>6, <1>7, <1>8 DEF RegistryInv

\* The predecessor of the call is still the tip, so that nothing was
\* recorded since the registry was read.
LEMMA AppendReachesKeeps ==
  ASSUME Publication!ConstantsAssumption, RegistryInv, NEW p \in Callers,
         Publication!AppendReaches(p), Publication!Return(p),
         UNCHANGED <<Publication!registryVars, clock, receipt>>, cuts' \in 0..MaxCuts,
         \/ observations' = Publication!Extended(observations,
            <<Publication!ObservationOf(call[p])>>)
         \/ observations' \in Publication!Interrupted(observations,
            <<Publication!ObservationOf(call[p])>>)
  PROVE  RegistryInv'
<1>1. /\ call[p] \in Publication!Calls /\ TipFollowed(call[p])
         /\ ReadSoundly(call[p]) /\ call[p].step = "append"
  BY DEF Publication!AppendReaches, Publication!Doing, RegistryInv, Publication!TypeOK
<1>2. /\ observations \in Publication!Files(Publication!Observations)
         /\ observations.lines \in Seq(Publication!Observations)
      /\ ObservedSoFar \in Nat /\ ObservedSoFar < MaxRecords
  BY DEF Publication!AppendReaches, RegistryInv, Publication!TypeOK, Publication!Files,
     ObservedSoFar
<1>3. PICK o \in Publication!Observations :
        o = Publication!ObservationOf(call[p]) /\ o.seen = ObservedSoFar
        /\ o.status = call[p].status
  <2>1. Publication!ObservationOf(call[p]) \in Publication!Observations
    BY <1>1 DEF Publication!ObservationOf, Publication!Observations, Publication!Calls,
       Publication!Indexes, TipFollowed
  <2>2. call[p].previous = ObservedSoFar
    BY DEF Publication!AppendReaches, Publication!Follows, Publication!ObservationOf,
       ObservedSoFar
  <2>3. call[p].index.seen \in Nat
    BY <1>1 DEF Publication!Calls, Publication!Indexes
  <2>4. call[p].index.seen = ObservedSoFar
    BY <1>1, <1>2, <2>2, <2>3 DEF TipFollowed
  <2>. QED BY <2>1, <2>4 DEF Publication!ObservationOf
<1>4. /\ observations' \in Publication!Files(Publication!Observations)
      /\ observations'.lines \in {observations.lines, Append(observations.lines, o)}
  BY <1>2, <1>3, SameObservationFiles, ExtendedOne, InterruptedOne
<1>5. /\ Len(Append(observations.lines, o)) = ObservedSoFar + 1
      /\ \A i \in 1..ObservedSoFar : Append(observations.lines,
         o)[i] = observations.lines[i]
      /\ Append(observations.lines, o)[ObservedSoFar + 1] = o
  BY <1>2, AppendedLines DEF ObservedSoFar
<1>6. /\ ObservedSoFar' \in {ObservedSoFar, ObservedSoFar + 1}
      /\ \A i \in 1..ObservedSoFar : observations'.lines[i] = observations.lines[i]
      /\ ObservedSoFar' = ObservedSoFar + 1 => observations'.lines[ObservedSoFar + 1] = o
  <2>1. CASE observations'.lines = observations.lines
    <3>1. ObservedSoFar' = ObservedSoFar
      BY <2>1 DEF ObservedSoFar
    <3>. QED BY <1>2, <2>1, <3>1
  <2>2. CASE observations'.lines = Append(observations.lines, o)
    <3>1. ObservedSoFar' = ObservedSoFar + 1
      BY <1>5, <2>2 DEF ObservedSoFar
    <3>. QED BY <1>5, <2>2, <3>1
  <2>. QED BY <1>4, <2>1, <2>2
<1>7. ASSUME NEW i \in 1..ObservedSoFar'
      PROVE  \/ i \in 1..ObservedSoFar /\ observations'.lines[i] = observations.lines[i]
             \/ i = ObservedSoFar + 1 /\ observations'.lines[i] = o
  BY <1>2, <1>6
<1>8. UNCHANGED <<uploaded, listed, present, yankedNow, changes, clock, receipt>>
  BY DEF Publication!registryVars
<1>9. /\ call' \in [Callers -> Publication!Calls \union {NoCall}]
      /\ call'[p] = NoCall
      /\ \A q \in Callers \ {p} : call'[q] = call[q]
  BY DEF Publication!Return, RegistryInv, Publication!TypeOK
<1>10. Publication!TypeOK'
  BY <1>4, <1>8, <1>9 DEF RegistryInv, Publication!TypeOK
<1>11. Publication!PublishedBytesPermitted'
  <2>1. ASSUME NEW i \in 1..ObservedSoFar',
        observations'.lines[i].status \in CompleteStatuses
        PROVE  PermittedUploaded
    <3>1. CASE i \in 1..ObservedSoFar /\ observations'.lines[i] = observations.lines[i]
      BY <2>1, <3>1 DEF RegistryInv, Publication!PublishedBytesPermitted,
         PermittedUploaded, ObservedSoFar, CompleteStatuses
    <3>2. CASE i = ObservedSoFar + 1 /\ observations'.lines[i] = o
      BY <1>1, <1>3, <2>1, <3>2 DEF ReadSoundly
    <3>. QED BY <1>7, <3>1, <3>2
  <2>2. receipt' # NoReceipt => PermittedUploaded
    BY <1>8 DEF RegistryInv, Publication!PublishedBytesPermitted, PermittedUploaded
  <2>. QED
    BY <1>8, <2>1, <2>2 DEF Publication!PublishedBytesPermitted, PermittedUploaded,
       ObservedSoFar, CompleteStatuses
<1>12. Publication!ObservationsInOrder'
  <2>1. ASSUME NEW i \in 1..ObservedSoFar' PROVE observations'.lines[i].seen = i - 1
    <3>1. CASE i \in 1..ObservedSoFar /\ observations'.lines[i] = observations.lines[i]
      <4>1. observations.lines[i].seen = i - 1
        BY <3>1, Zenon DEF RegistryInv, Publication!ObservationsInOrder, ObservedSoFar
      <4>. QED BY <3>1, <4>1
    <3>2. CASE i = ObservedSoFar + 1 /\ observations'.lines[i] = o
      BY <1>2, <1>3, <3>2
    <3>. QED BY <1>7, <3>1, <3>2
  <2>. QED BY <2>1 DEF Publication!ObservationsInOrder, ObservedSoFar
<1>13. ASSUME NEW q \in Callers, call'[q] # NoCall
       PROVE  ReadSoundly(call[q])' /\ TipFollowed(call[q])'
  <2>1. call'[q] = call[q] /\ call[q] \in Publication!Calls /\ ReadSoundly(call[q])
        /\ TipFollowed(call[q])
    BY <1>9, <1>13 DEF RegistryInv, Publication!TypeOK
  <2>2. ReadSoundly(call[q])'
    BY <1>8, <2>1 DEF ReadSoundly, PermittedUploaded
  <2>3. call[q].previous \in Nat /\ call[q].index.seen \in Nat
    BY <2>1 DEF Publication!Calls, Publication!Indexes, Publication!ConstantsAssumption
  <2>4. ObservedSoFar <= ObservedSoFar'
    BY <1>2, <1>6
  <2>5. ObservedSoFar' \in Nat
    BY <1>2, <1>6
  <2>6. TipFollowed(call[q])'
    BY <1>2, <2>1, <2>3, <2>4, <2>5 DEF TipFollowed
  <2>. QED BY <2>2, <2>6
<1>14. ObservedSoFar' <= MaxRecords
  BY <1>2, <1>6 DEF Publication!ConstantsAssumption
<1>. QED BY <1>10, <1>11, <1>12, <1>13, <1>14 DEF RegistryInv

LEMMA AppendKeepsRegistryInv ==
  ASSUME Publication!ConstantsAssumption, RegistryInv, NEW p \in Callers,
         Publication!AppendObservation(p) \/ Publication!AppendCut(p)
  PROVE  RegistryInv'
<1>1. cuts' \in 0..MaxCuts
  BY DEF Publication!AppendObservation, Publication!AppendCut, RegistryInv,
     Publication!TypeOK, Publication!ConstantsAssumption
<1>. QED BY <1>1, AppendReachesKeeps DEF Publication!AppendObservation,
   Publication!AppendCut

-----------------------------------------------------------------------------

LEMMA RegistryInvStep ==
  ASSUME Publication!ConstantsAssumption, RegistryInv,
         [Publication!Next]_(Publication!publicationVars)
  PROVE  RegistryInv'
<1>1. CASE Publication!Next
  BY <1>1, RegistryKeepsRegistryInv, SetClockKeepsRegistryInv,
     BeginPublicationKeepsRegistryInv,
     BeginLifecycleKeepsRegistryInv, ReadIndexKeepsRegistryInv,
     DownloadKeepsRegistryInv, RetryKeepsRegistryInv,
     GiveUpKeepsRegistryInv, WriteReceiptKeepsRegistryInv, ReconcileKeepsRegistryInv,
        AppendKeepsRegistryInv DEF Publication!Next
<1>2. CASE UNCHANGED Publication!publicationVars
  BY <1>2 DEF Publication!publicationVars, Publication!registryVars, RegistryInv,
     Publication!TypeOK, Publication!PublishedBytesPermitted,
              Publication!ObservationsInOrder, ObservedSoFar, ReadSoundly, TipFollowed,
              PermittedUploaded
<1>. QED BY <1>1, <1>2

LEMMA RegistryInvariance ==
  ASSUME Publication!ConstantsAssumption
  PROVE  Publication!Spec => []RegistryInv
  BY RegistryInit, RegistryInvStep, PTL DEF Publication!Spec

\* Every reachable state is well typed; in particular the history never holds
\* more than max_records observations.
THEOREM PublicationTypeCorrect ==
  ASSUME Publication!ConstantsAssumption
  PROVE  Publication!Spec => []Publication!TypeOK
<1>1. RegistryInv => Publication!TypeOK
  BY DEF RegistryInv
<1>. QED BY RegistryInvariance, <1>1, PTL

\* Neither script takes a release for published, however the registry
\* changes while it is read, unless the permitted bytes were uploaded; and
\* observers that race for the tip leave a history in the order of what the
\* registry served.
THEOREM ReleasesObservedSoundly ==
  ASSUME Publication!ConstantsAssumption
  PROVE  Publication!Spec => []PublicationSound
<1>1. RegistryInv => PublicationSound
  BY DEF RegistryInv, PublicationSound
<1>. QED BY RegistryInvariance, <1>1, PTL

-----------------------------------------------------------------------------
(* Claim profiles.  Rows only come in, so that a contract that was not on  *)
(* the pages read so far is on a later one; the rows that were counted     *)
(* and those that were listed are the same unless their number changed.    *)

\* The contracts that some profile asks for.
Required == UNION {Profiles!Profile(id).contracts : id \in Asked}

Evaluations ==
  [profile : Asked, chain : Profiles!Chains,
   step : {"count", "select", "resolve", "answered"}, total : Nat, offset : Nat,
   records : SUBSET Contracts, todo : SUBSET Required, unresolved : SUBSET Required,
   lasting : SUBSET Contracts, shifted : BOOLEAN]

\* What is left to be listed is on a page that has not been read.
ListingComplete(e) ==
  /\ e.step \in {"count", "select"} =>
       \A ct \in e.lasting \ e.records : Profiles!Position(ct) >= e.offset
  /\ e.step = "resolve" => e.lasting \subseteq e.records

\* A contract that was looked up without success is not there.
LookedUp(e) ==
  \A type \in e.unresolved : \A ref \in e.chain.references :
    Profiles!Matches(ref, type) => ref.contract \notin e.lasting

\* The others were found.
FoundIndexed(e) ==
  \A type \in Profiles!Profile(e.profile).contracts \ (e.todo \union e.unresolved) :
    \E ref \in e.chain.references : Profiles!Matches(ref, type) /\ ref.contract \in indexed

EvaluationBound(e) ==
  /\ e \in Evaluations
  /\ e.lasting \subseteq stored
  /\ e.records \subseteq indexed
  /\ e.step = "answered" => e.todo = {}
  /\ FoundIndexed(e)
  /\ ~e.shifted => ListingComplete(e) /\ LookedUp(e)

ProfilesInv ==
  /\ indexed \subseteq Contracts
  /\ IsFiniteSet(indexed)
  /\ stored \subseteq indexed
  /\ evaluation # NoEvaluation => EvaluationBound(evaluation)

LEMMA SameCardinality ==
  \A S : Profiles!Cardinality(S) = Cardinality(S)
  BY Zenon DEF Profiles!Cardinality, Cardinality

LEMMA ProfilesInit ==
  ASSUME Profiles!Init
  PROVE  ProfilesInv
  BY FS_EmptySet DEF Profiles!Init, ProfilesInv

\* The position of a row, from 0.
LEMMA Positions ==
  ASSUME Profiles!ProfilesAssumption, indexed \subseteq Contracts, IsFiniteSet(indexed)
  PROVE  /\ \A ct : Profiles!Position(ct) \in Nat
         /\ \A ct \in indexed : Profiles!Position(ct) < Cardinality(indexed)
         /\ \A p, q \in indexed : Profiles!Position(p) = Profiles!Position(q) => p = q
<1> DEFINE newer(ct) == {other \in indexed : other.at > ct.at}
<1>1. \A ct : IsFiniteSet(newer(ct)) /\ Cardinality(newer(ct)) \in Nat
  <2>1. TAKE ct
  <2>2. newer(ct) \in SUBSET indexed
    OBVIOUS
  <2> HIDE DEF newer
  <2>. QED BY <2>2, FS_Subset, FS_CardinalityType
<1>2. \A ct : Profiles!Position(ct) = Cardinality(newer(ct))
  BY SameCardinality, Zenon DEF Profiles!Position
<1>3. ASSUME NEW p \in indexed PROVE Cardinality(newer(p)) < Cardinality(indexed)
  <2>1. newer(p) \in SUBSET indexed /\ p \notin newer(p)
    BY <1>3 DEF Profiles!ProfilesAssumption
  <2> HIDE DEF newer
  <2>2. Cardinality(newer(p)) <= Cardinality(indexed)
        /\ Cardinality(newer(p)) # Cardinality(indexed)
    BY <2>1, FS_Subset
  <2>. QED BY <1>1, <2>2, FS_CardinalityType
<1>4. ASSUME NEW p \in indexed, NEW q \in indexed, p.at > q.at
      PROVE  Cardinality(newer(p)) < Cardinality(newer(q))
  <2>1. newer(p) \in SUBSET newer(q) /\ p \notin newer(p) /\ p \in newer(q)
    BY <1>4 DEF Profiles!ProfilesAssumption
  <2> HIDE DEF newer
  <2>2. Cardinality(newer(p)) <= Cardinality(newer(q))
        /\ Cardinality(newer(p)) # Cardinality(newer(q))
    BY <1>1, <2>1, FS_Subset
  <2>. QED BY <1>1, <2>2
<1>5. \A p, q \in indexed : p.at \in Nat /\ q.at \in Nat /\ (p.at = q.at => p = q)
  BY DEF Profiles!ProfilesAssumption
<1> HIDE DEF newer
<1>. QED BY <1>1, <1>2, <1>3, <1>4, <1>5

\* No page is longer than the limit.
LEMMA PageFits ==
  ASSUME Profiles!ProfilesAssumption, indexed \subseteq Contracts, IsFiniteSet(indexed),
         NEW offset \in Nat
  PROVE  Cardinality(Profiles!Page(offset)) \in 0..PageLimit
<1> DEFINE slice == Profiles!Page(offset)
           slots == offset..(offset + PageLimit - 1)
           f == [ct \in slice |-> Profiles!Position(ct)]
<1>1. /\ slice \subseteq indexed
      /\ \A ct \in slice : Profiles!Position(ct) \in slots
  BY DEF Profiles!Page
<1>2. PageLimit \in Nat \ {0}
  BY DEF Profiles!ProfilesAssumption
<1>3. IsFiniteSet(slots) /\ Cardinality(slots) = PageLimit
  BY <1>2, FS_Interval
<1>4. \A p, q \in slice : Profiles!Position(p) = Profiles!Position(q) => p = q
  BY <1>1, Positions
<1>5. IsFiniteSet(slice) /\ Cardinality(slice) \in Nat
  BY <1>1, FS_Subset, FS_CardinalityType
<1> HIDE DEF slice, slots
<1>6. f \in Injection(slice, slots)
  BY <1>1, <1>4 DEF Injection, IsInjective
<1> HIDE DEF f
<1>7. Cardinality(slice) <= Cardinality(slots)
  BY <1>3, <1>6, FS_Injection
<1>. QED BY <1>2, <1>3, <1>5, <1>7 DEF slice

\* Positions do not decrease, whatever is persisted.
LEMMA PositionsGrow ==
  ASSUME Profiles!ProfilesAssumption, indexed \subseteq Contracts, indexed' \subseteq Contracts,
         IsFiniteSet(indexed), IsFiniteSet(indexed'), indexed \subseteq indexed', NEW ct
  PROVE  Profiles!Position(ct)' >= Profiles!Position(ct)
<1> DEFINE newer == {other \in indexed : other.at > ct.at}
           later == {other \in indexed' : other.at > ct.at}
<1>1. newer \in SUBSET later /\ later \in SUBSET indexed'
  OBVIOUS
<1>2. Profiles!Position(ct) = Cardinality(newer) /\ Profiles!Position(ct)' = Cardinality(later)
  BY SameCardinality, Zenon DEF Profiles!Position
<1> HIDE DEF newer, later
<1>3. IsFiniteSet(later)
  BY <1>1, FS_Subset
<1>4. Cardinality(newer) <= Cardinality(later)
  BY <1>1, <1>3, FS_Subset
<1>5. Cardinality(newer) \in Nat /\ Cardinality(later) \in Nat
  BY <1>1, <1>3, FS_Subset, FS_CardinalityType
<1>. QED BY <1>2, <1>4, <1>5

\* A step of the evaluation.
LEMMA EvaluationGoes ==
  ASSUME ProfilesInv, NEW f, EvaluationBound(f), Profiles!Go(f)
  PROVE  ProfilesInv'
<1>1. evaluation' = f /\ indexed' = indexed /\ stored' = stored
  BY DEF Profiles!Go
<1>2. EvaluationBound(f)'
  BY <1>1 DEF EvaluationBound, FoundIndexed, ListingComplete, Profiles!Position
<1>. QED BY <1>1, <1>2, Zenon DEF ProfilesInv

\* A page that is read in one state of the rows leaves out no row but of
\* later pages, and after the last page there are none.
LEMMA PageSelected ==
  ASSUME Profiles!ProfilesAssumption, ProfilesInv, Profiles!SelectPage
  PROVE  ProfilesInv'
<1> DEFINE e == evaluation
           slice == Profiles!Page(e.offset)
           last == e.offset + Profiles!Cardinality(slice)
           rows == Profiles!Cardinality(indexed)
           moved == rows # e.total
           step == IF Profiles!HasMore(last) THEN "count" ELSE "resolve"
           f == [e EXCEPT !.records = @ \union slice, !.offset = last, !.step = step,
                          !.shifted = @ \/ moved]
<1>1. Profiles!At("select") /\ Profiles!Go(f)
  BY Zenon DEF Profiles!SelectPage
<1>2. EvaluationBound(e) /\ e.step = "select" /\ e \in Evaluations
  BY <1>1, Zenon DEF ProfilesInv, Profiles!At, EvaluationBound
<1>3. e.offset \in Nat /\ e.total \in Nat /\ e.shifted \in BOOLEAN
  BY <1>2 DEF Evaluations
<1>4. indexed \subseteq Contracts /\ IsFiniteSet(indexed) /\ slice \subseteq indexed
  BY DEF ProfilesInv, Profiles!Page
<1>5. last \in Nat /\ last <= e.offset + PageLimit /\ PageLimit \in Nat
  <2>1. Cardinality(slice) \in 0..PageLimit
    BY <1>3, <1>4, PageFits
  <2>2. Profiles!Cardinality(slice) = Cardinality(slice)
    BY SameCardinality, Zenon
  <2> HIDE DEF slice
  <2>. QED BY <1>3, <2>1, <2>2 DEF Profiles!ProfilesAssumption
<1>6. rows \in Nat /\ \A ct \in indexed : /\ Profiles!Position(ct) \in Nat
                                           /\ Profiles!Position(ct) < rows
  <2>1. rows = Cardinality(indexed)
    BY SameCardinality, Zenon
  <2> HIDE DEF rows
  <2>. QED BY <1>4, <2>1, Positions, FS_CardinalityType
<1>7. \A ct \in indexed \ slice :
        Profiles!Position(ct) >= e.offset => Profiles!Position(ct) >= last
  BY <1>3, <1>5, <1>6 DEF Profiles!Page
<1>8. step = "resolve" /\ ~moved => last >= rows
  BY <1>3, <1>5, <1>6 DEF Profiles!HasMore
<1>9. moved \in BOOLEAN /\ step \in {"count", "resolve"}
  BY SMT
<1> HIDE DEF slice, last, rows, moved, step
<1>10. /\ f \in Evaluations /\ f.step = step /\ f.offset = last
       /\ f.records = e.records \union slice /\ f.shifted = (e.shifted \/ moved)
       /\ f.profile = e.profile /\ f.chain = e.chain /\ f.lasting = e.lasting
       /\ f.todo = e.todo /\ f.unresolved = e.unresolved
  BY <1>2, <1>4, <1>5, <1>9 DEF Evaluations
<1> HIDE DEF f
<1>11. FoundIndexed(f)
  BY <1>2, <1>10, Zenon DEF EvaluationBound, FoundIndexed
<1>12. ASSUME ~f.shifted PROVE ListingComplete(f) /\ LookedUp(f)
  <2>1. ~e.shifted /\ ~moved
    BY <1>10, <1>12
  <2>2. LookedUp(f)
    BY <1>2, <1>10, <2>1, Zenon DEF EvaluationBound, LookedUp
  <2>3. \A ct \in e.lasting \ e.records : Profiles!Position(ct) >= e.offset
    BY <1>2, <2>1 DEF EvaluationBound, ListingComplete
  <2>4. e.lasting \subseteq indexed
    BY <1>2 DEF EvaluationBound, ProfilesInv
  <2>5. \A ct \in f.lasting \ f.records : Profiles!Position(ct) >= last /\ ct \in indexed
    BY <1>7, <1>10, <2>3, <2>4
  <2>6. CASE step = "count"
    BY <1>10, <2>2, <2>5, <2>6 DEF ListingComplete
  <2>7. CASE step = "resolve"
    <3>1. last >= rows
      BY <1>8, <2>1, <2>7
    <3>2. f.lasting \subseteq f.records
      BY <1>5, <1>6, <2>5, <3>1
    <3>3. f.step = "resolve"
      BY <1>10, <2>7
    <3>. QED BY <2>2, <3>2, <3>3 DEF ListingComplete
  <2>. QED BY <1>9, <2>2, <2>6, <2>7
<1>13. /\ f.records \subseteq indexed /\ f.lasting \subseteq stored
       /\ f.step # "answered"
  BY <1>2, <1>4, <1>9, <1>10 DEF EvaluationBound
<1>14. EvaluationBound(f)
  BY <1>10, <1>11, <1>12, <1>13, Zenon DEF EvaluationBound
<1>. QED BY <1>1, <1>14, EvaluationGoes

\* What is looked up and listed is there when it was there all the time.
LEMMA TypeResolved ==
  ASSUME ProfilesInv,
         \E type \in UNION {Profiles!Profile(id).contracts : id \in Asked} :
           Profiles!Resolve(type)
  PROVE  ProfilesInv'
<1> DEFINE e == evaluation
<1>1. PICK type \in Required : Profiles!Resolve(type)
  BY DEF Required
<1> DEFINE found == \E ref \in e.chain.references : Profiles!Resolves(ref, type)
           left == e.todo \ {type}
           missed == IF found THEN e.unresolved ELSE e.unresolved \union {type}
           step == IF left = {} THEN "answered" ELSE e.step
           f == [e EXCEPT !.todo = left, !.unresolved = missed, !.step = step]
<1>2. Profiles!At("resolve") /\ type \in e.todo /\ Profiles!Go(f)
  BY <1>1, Zenon DEF Profiles!Resolve
<1>3. EvaluationBound(e) /\ e.step = "resolve" /\ e \in Evaluations
  BY <1>2, Zenon DEF ProfilesInv, Profiles!At, EvaluationBound
<1>4. /\ left \subseteq Required /\ missed \subseteq Required
      /\ step \in {"resolve", "answered"} /\ (step = "answered" => left = {})
  BY <1>3 DEF Evaluations
<1>5. type \in missed \/ found
  OBVIOUS
<1>6. found => \E ref \in e.chain.references :
                 Profiles!Matches(ref, type) /\ ref.contract \in indexed
  BY <1>3, Zenon DEF Profiles!Resolves, EvaluationBound
<1>7. ~found => \A ref \in e.chain.references :
                  Profiles!Matches(ref, type) => ref.contract \notin e.records \intersect stored
  BY Zenon DEF Profiles!Resolves
<1>8. missed # e.unresolved => ~found /\ missed = e.unresolved \union {type}
  OBVIOUS
<1>9. e.todo = left \union {type}
  BY <1>2
<1> HIDE DEF found, left, missed, step
<1>10. /\ f \in Evaluations /\ f.step = step /\ f.todo = left /\ f.unresolved = missed
       /\ f.offset = e.offset /\ f.records = e.records /\ f.shifted = e.shifted
       /\ f.profile = e.profile /\ f.chain = e.chain /\ f.lasting = e.lasting
  BY <1>3, <1>4 DEF Evaluations
<1> HIDE DEF f
<1>11. FoundIndexed(f)
  <2>1. SUFFICES ASSUME NEW other \in Profiles!Profile(e.profile).contracts,
                        other \notin left \union missed
        PROVE  \E ref \in e.chain.references :
                 Profiles!Matches(ref, other) /\ ref.contract \in indexed
    BY <1>10 DEF FoundIndexed
  <2>2. CASE other = type
    BY <1>5, <1>6, <2>1, <2>2
  <2>3. CASE other # type
    <3>1. other \notin e.todo \union e.unresolved
      BY <1>8, <1>9, <2>1, <2>3
    <3>. QED BY <1>3, <3>1 DEF EvaluationBound, FoundIndexed
  <2>. QED BY <2>2, <2>3
<1>12. ASSUME ~f.shifted PROVE ListingComplete(f) /\ LookedUp(f)
  <2>1. e.lasting \subseteq e.records /\ LookedUp(e) /\ e.lasting \subseteq stored
    BY <1>3, <1>10, <1>12 DEF EvaluationBound, ListingComplete
  <2>2. ListingComplete(f)
    BY <1>4, <1>10, <2>1 DEF ListingComplete
  <2>3. ASSUME NEW other \in missed, NEW ref \in e.chain.references,
               Profiles!Matches(ref, other)
        PROVE  ref.contract \notin e.lasting
    <3>1. CASE other \in e.unresolved
      BY <2>1, <2>3, <3>1 DEF LookedUp
    <3>2. CASE ~found /\ other = type
      BY <1>7, <2>1, <2>3, <3>2
    <3>. QED BY <1>8, <2>3, <3>1, <3>2
  <2>4. LookedUp(f)
    BY <1>10, <2>3 DEF LookedUp
  <2>. QED BY <2>2, <2>4
<1>13. /\ f.records \subseteq indexed /\ f.lasting \subseteq stored
       /\ (f.step = "answered" => f.todo = {})
  BY <1>3, <1>4, <1>10, Zenon DEF EvaluationBound
<1>14. EvaluationBound(f)
  BY <1>10, <1>11, <1>12, <1>13, Zenon DEF EvaluationBound
<1>. QED BY <1>2, <1>14, EvaluationGoes

LEMMA ProfilesStep ==
  ASSUME Profiles!ProfilesAssumption, ProfilesInv, [Profiles!Next]_(Profiles!profileVars)
  PROVE  ProfilesInv'
<1> DEFINE e == evaluation
           needed == Profiles!Profile(e.profile).contracts
<1>1. CASE UNCHANGED Profiles!profileVars
  BY <1>1 DEF Profiles!profileVars, ProfilesInv, EvaluationBound, FoundIndexed,
              ListingComplete, LookedUp, Profiles!Position
<1>2. CASE \E ct \in Contracts : Profiles!Persist(ct)
  <2>1. PICK ct \in Contracts : /\ indexed' = indexed \union {ct}
                                /\ stored' = stored \union {ct}
                                /\ evaluation' = evaluation
    BY <1>2 DEF Profiles!Persist
  <2>2. /\ indexed' \subseteq Contracts /\ IsFiniteSet(indexed') /\ stored' \subseteq indexed'
        /\ indexed \subseteq indexed' /\ IsFiniteSet(indexed) /\ indexed \subseteq Contracts
    BY <2>1, FS_AddElement DEF ProfilesInv
  <2>3. \A p : Profiles!Position(p)' >= Profiles!Position(p)
    BY <2>2, PositionsGrow
  <2>4. SUFFICES ASSUME e # NoEvaluation PROVE EvaluationBound(e)'
    BY <2>1, <2>2 DEF ProfilesInv
  <2>5. EvaluationBound(e) /\ e' = e
    BY <2>1, <2>4 DEF ProfilesInv
  <2>6. FoundIndexed(e)'
    BY <2>2, <2>5 DEF EvaluationBound, FoundIndexed
  <2>7. ~e.shifted => (ListingComplete(e) /\ LookedUp(e))'
    <3>1. SUFFICES ASSUME ~e.shifted PROVE (ListingComplete(e) /\ LookedUp(e))'
      OBVIOUS
    <3>2. ListingComplete(e) /\ LookedUp(e)
      BY <2>5, <3>1 DEF EvaluationBound
    <3>3. LookedUp(e)'
      BY <2>5, <3>2 DEF LookedUp
    <3>4. e.offset \in Nat
      BY <2>5 DEF EvaluationBound, Evaluations
    <3>5. \A p : Profiles!Position(p) \in Nat /\ Profiles!Position(p)' \in Nat
      <4>1. \A p : Profiles!Position(p) \in Nat
        BY <2>2, Positions
      <4>2. \A p : Profiles!Position(p)' \in Nat
        <5>1. TAKE p
        <5> DEFINE later == {other \in indexed' : other.at > p.at}
        <5>2. later \in SUBSET indexed' /\ Profiles!Position(p)' = Cardinality(later)
          BY SameCardinality, Zenon DEF Profiles!Position
        <5> HIDE DEF later
        <5>. QED BY <2>2, <5>2, FS_Subset, FS_CardinalityType
      <4>. QED BY <4>1, <4>2
    <3>6. ListingComplete(e)'
      BY <2>3, <2>5, <3>2, <3>4, <3>5 DEF ListingComplete
    <3>. QED BY <3>3, <3>6
  <2>. QED BY <2>1, <2>5, <2>6, <2>7 DEF EvaluationBound
<1>3. CASE \E ct \in Contracts : Profiles!DeletePayload(ct)
  <2>1. PICK ct \in Contracts :
          /\ indexed' = indexed /\ stored' = stored \ {ct}
          /\ e' = IF e = NoEvaluation THEN e ELSE [e EXCEPT !.lasting = @ \ {ct}]
    BY <1>3 DEF Profiles!DeletePayload
  <2>2. indexed' \subseteq Contracts /\ IsFiniteSet(indexed') /\ stored' \subseteq indexed'
    BY <2>1 DEF ProfilesInv
  <2>3. SUFFICES ASSUME e # NoEvaluation PROVE EvaluationBound(e)'
    BY <2>1, <2>2 DEF ProfilesInv
  <2>4. EvaluationBound(e)
    BY <2>3 DEF ProfilesInv
  <2>5. /\ e' \in Evaluations /\ e'.lasting = e.lasting \ {ct}
        /\ e'.profile = e.profile /\ e'.chain = e.chain /\ e'.step = e.step
        /\ e'.offset = e.offset /\ e'.records = e.records /\ e'.todo = e.todo
        /\ e'.unresolved = e.unresolved /\ e'.shifted = e.shifted
    BY <2>1, <2>3, <2>4 DEF EvaluationBound, Evaluations
  <2>6. FoundIndexed(e)'
    BY <2>1, <2>4, <2>5, Zenon DEF EvaluationBound, FoundIndexed
  <2>7. ~e.shifted => (ListingComplete(e) /\ LookedUp(e))'
    BY <2>1, <2>4, <2>5 DEF EvaluationBound, ListingComplete, LookedUp, Profiles!Position
  <2>8. e'.lasting \subseteq stored' /\ e'.records \subseteq indexed'
    BY <2>1, <2>4, <2>5 DEF EvaluationBound
  <2>. QED BY <2>4, <2>5, <2>6, <2>7, <2>8, Zenon DEF EvaluationBound
<1>4. CASE \E id \in Asked, chain \in Profiles!Chains : Profiles!Begin(id, chain)
  <2>1. PICK id \in Asked, chain \in Profiles!Chains : Profiles!Begin(id, chain)
    BY <1>4
  <2> DEFINE contracts == Profiles!Profile(id).contracts
             f == [profile |-> id, chain |-> chain,
                   step |-> IF contracts = {} THEN "answered" ELSE "count",
                   total |-> 0, offset |-> 0, records |-> {}, todo |-> contracts,
                   unresolved |-> {}, lasting |-> stored, shifted |-> FALSE]
  <2>2. Profiles!Go(f)
    BY <2>1, Zenon DEF Profiles!Begin
  <2>3. contracts \subseteq Required /\ stored \subseteq Contracts
    BY DEF Required, ProfilesInv
  <2>4. \A ct : Profiles!Position(ct) \in Nat
    BY Positions DEF ProfilesInv
  <2> HIDE DEF contracts
  <2>5. /\ f \in Evaluations /\ f.profile = id /\ f.lasting = stored /\ f.records = {}
        /\ f.todo = contracts /\ f.unresolved = {} /\ f.offset = 0
        /\ f.step \in {"count", "answered"} /\ (f.step = "answered" => contracts = {})
    BY <2>3 DEF Evaluations
  <2> HIDE DEF f
  <2>6. FoundIndexed(f)
    BY <2>5 DEF FoundIndexed, contracts
  <2>7. LookedUp(f)
    BY <2>5 DEF LookedUp
  <2>8. ListingComplete(f)
    BY <2>4, <2>5 DEF ListingComplete
  <2>9. EvaluationBound(f)
    BY <2>5, <2>6, <2>7, <2>8 DEF EvaluationBound
  <2>. QED BY <2>2, <2>9, EvaluationGoes
<1>5. CASE Profiles!CountRows
  <2> DEFINE rows == Profiles!Cardinality(indexed)
             f == [e EXCEPT !.step = "select", !.total = rows]
  <2>1. Profiles!At("count") /\ Profiles!Go(f)
    BY <1>5, Zenon DEF Profiles!CountRows
  <2>2. EvaluationBound(e) /\ e.step = "count"
    BY <2>1, Zenon DEF ProfilesInv, Profiles!At
  <2>3. rows \in Nat
    BY SameCardinality, FS_CardinalityType, Zenon DEF ProfilesInv
  <2> HIDE DEF rows
  <2>4. /\ f \in Evaluations /\ f.step = "select"
        /\ f.lasting = e.lasting /\ f.profile = e.profile /\ f.chain = e.chain
        /\ f.offset = e.offset /\ f.records = e.records /\ f.todo = e.todo
        /\ f.unresolved = e.unresolved /\ f.shifted = e.shifted
    BY <2>2, <2>3 DEF EvaluationBound, Evaluations
  <2> HIDE DEF f
  <2>5. EvaluationBound(f)
    BY <2>2, <2>4 DEF EvaluationBound, FoundIndexed, LookedUp, ListingComplete
  <2>. QED BY <2>1, <2>5, EvaluationGoes
<1>6. CASE Profiles!SelectPage
  BY <1>6, PageSelected
<1>7. CASE \E type \in UNION {Profiles!Profile(id).contracts : id \in Asked} :
             Profiles!Resolve(type)
  BY <1>7, TypeResolved
<1>8. CASE Profiles!Leave
  BY <1>8 DEF Profiles!Leave, Profiles!Go, ProfilesInv
<1>. QED
  BY <1>1, <1>2, <1>3, <1>4, <1>5, <1>6, <1>7, <1>8, Zenon DEF Profiles!Next

\* A claim is accepted only if every contract it needs was persisted, which
\* no reference of a release bundle can stand for, and what was there all the
\* time is found on whichever page it is, unless a row came in between the
\* two reads of a page.
THEOREM ClaimsResolve ==
  ASSUME Profiles!ProfilesAssumption
  PROVE  Profiles!Spec => []ContractsResolved
<1>1. ASSUME ProfilesInv PROVE ContractsResolved
  <2> DEFINE e == evaluation
             contracts == Profiles!Profile(e.profile).contracts
  <2>1. SUFFICES ASSUME Profiles!At("answered")
        PROVE  /\ Profiles!Decision = "accepted" =>
                    \A type \in contracts :
                      \E ref \in {ref \in e.chain.references : Profiles!Matches(ref, type)} :
                        ref.contract \in indexed
               /\ \/ e.shifted
                  \/ \A type \in e.unresolved :
                       \A ref \in {ref \in e.chain.references : Profiles!Matches(ref, type)} :
                         ref.contract \notin e.lasting
    BY DEF ContractsResolved, Profiles!ContractsResolved
  <2>2. EvaluationBound(e) /\ e.step = "answered" /\ e.todo = {}
    BY <1>1, <2>1, Zenon DEF ProfilesInv, Profiles!At, EvaluationBound
  <2>3. Profiles!Decision = "accepted" => Profiles!Failures = {}
    BY DEF Profiles!Decision, Profiles!DecisionFor
  <2>4. Profiles!Failures = {} => e.unresolved = {}
    BY DEF Profiles!Failures
  <2>5. e.unresolved = {} =>
          \A type \in contracts : \E ref \in e.chain.references :
            Profiles!Matches(ref, type) /\ ref.contract \in indexed
    BY <2>2 DEF EvaluationBound, FoundIndexed
  <2>6. e.shifted \/ LookedUp(e)
    BY <2>2, Zenon DEF EvaluationBound
  <2>7. ASSUME Profiles!Decision = "accepted", NEW type \in contracts
        PROVE  \E ref \in {ref \in e.chain.references : Profiles!Matches(ref, type)} :
                 ref.contract \in indexed
    <3>1. PICK ref \in e.chain.references :
            Profiles!Matches(ref, type) /\ ref.contract \in indexed
      BY <2>3, <2>4, <2>5, <2>7, Zenon
    <3>. QED BY <3>1
  <2>. QED BY <2>6, <2>7, Zenon DEF LookedUp
<1>. QED BY ProfilesInit, ProfilesStep, <1>1, PTL DEF Profiles!Spec

-----------------------------------------------------------------------------
(* The directory of a workspace.  What can be lost is at one place at each *)
(* step of a restore, and the backup is as it was verified until it is     *)
(* opened again, so that opening it changes nothing.                       *)

\* Every directory there is names one identity.
DirectoriesIdentified ==
  /\ \A r \in Roots : Directory!Identified(tree[r])
  /\ \A t \in aside : Directory!Identified(t)
  /\ Directory!Identified(previous)

\* How far creating or opening a workspace has come.
OpeningInv ==
  doing # Idle =>
    /\ doing.step = "in" <=> tree[doing.root] = NoTree
    /\ doing.step \in {"tables", "stamp", "metadata"} => tree[doing.root].identity # 0
    /\ doing.step = "metadata" => tree[doing.root].tables = "ready"

\* What was taken away is there while it may be put back; what was put in
\* its place is the backup.
RestoreInv ==
  /\ backup # NoTree => /\ Directory!Healthy(backup.tree, backup.root)
                        /\ backup.tree.tables = "ready"
  /\ previous # NoTree =>
       doing # Idle /\ doing.kind = "restore" /\ doing.step \in {"in", "remove"}
  /\ doing # Idle /\ doing.kind = "restore" =>
       /\ backup # NoTree
       /\ doing.step \in {"remove", "manifest", "tables", "stamp", "metadata", "verify"} =>
            tree[doing.root] = backup.tree

PlacesInv ==
  Directory!TypeOK /\ DirectoriesIdentified /\ OpeningInv /\ RestoreInv

\* A step that takes no directory away.
DirectoriesKept == \A r \in Roots : tree[r] # NoTree => tree'[r] # NoTree

\* The exports of a directory at a root: an id has one row, a path with more
\* than one was written more than once, and a tombstone is of a row.
RowsAgree(t, r) ==
  /\ \A e, f \in t.exports : e.id = f.id => e = f
  /\ \A e, f \in t.exports :
       e.path = f.path /\ e.path # Outside /\ e.path.root = r =>
         e = f \/ <<r, e.path.name>> \in rewritten
  /\ \A id \in t.tombstones : \E e \in t.exports : e.id = id

\* The errors of a directory at a root are where ExportsVerify allows them,
\* or of the one row whose deletion is under way.
Excused(e, r) ==
  e.path = Outside \/ e.path.root # r \/ <<r, e.path.name>> \in rewritten
Deleting(e) == doing # Idle /\ doing.kind = "delete" /\ doing.export = e
ErrorsExcused(t, r) ==
  \A e \in Directory!ExportErrors(t, r) : Excused(e, r) \/ Deleting(e)

\* What is between the file of an export and its row, or its tombstone.
UnderWay ==
  doing # Idle =>
    LET t == tree[doing.root]
        x == doing.export
    IN  /\ doing.kind = "export" =>
             \/ x.path = Outside
             \/ /\ x.path.root = doing.root
                /\ t.files[x.path.name] = x.content
                /\ (\E e \in t.exports : e.path = x.path) =>
                     <<doing.root, x.path.name>> \in rewritten
        /\ doing.kind = "delete" =>
             /\ x \in t.exports
             /\ x.path # Outside
             /\ x.path.root = doing.root
             /\ t.files[x.path.name] = NoFile

ExportsInv ==
  stops = 0 =>
    /\ \A r \in Roots : tree[r] # NoTree => RowsAgree(tree[r], r) /\ ErrorsExcused(tree[r], r)
    /\ backup # NoTree => RowsAgree(backup.tree, backup.root)
    /\ previous # NoTree =>
         RowsAgree(previous, doing.root) /\ ErrorsExcused(previous, doing.root)
    /\ UnderWay

LEMMA DirectoryInit ==
  ASSUME Directory!ConstantsAssumption, Directory!Init
  PROVE  PlacesInv /\ ExportsInv
<1>1. Directory!TypeOK
  BY DEF Directory!ConstantsAssumption, Directory!Init, Directory!TypeOK
<1>2. DirectoriesIdentified /\ OpeningInv /\ RestoreInv
  BY DEF Directory!Init, DirectoriesIdentified, Directory!Identified, OpeningInv, RestoreInv
<1>3. ExportsInv
  BY DEF Directory!Init, ExportsInv, UnderWay
<1>. QED BY <1>1, <1>2, <1>3 DEF PlacesInv

\* There is a directory, or there is none.
LEMMA Places ==
  ASSUME Directory!ConstantsAssumption, PlacesInv
  PROVE  /\ NoTree \notin Directory!Trees
         /\ \A r \in Roots : tree[r] = NoTree \/ tree[r] \in Directory!Trees
         /\ previous = NoTree \/ previous \in Directory!Trees
         /\ backup # NoTree => backup.root \in Roots /\ backup.tree \in Directory!Trees
         /\ Idle \notin Directory!Operations
         /\ doing # Idle => doing \in Directory!Operations /\ doing.root \in Roots
  BY DEF Directory!ConstantsAssumption, PlacesInv, Directory!TypeOK, Directory!Operations

\* The running operation goes on.
LEMMA OperationMoves ==
  ASSUME Directory!ConstantsAssumption, PlacesInv, doing # Idle,
         NEW step \in Directory!Steps, Directory!Step(step)
  PROVE  /\ doing' \in Directory!Operations /\ doing' # Idle
         /\ doing'.step = step /\ doing'.kind = doing.kind
         /\ doing'.root = doing.root /\ doing'.export = doing.export
<1>1. doing \in Directory!Operations /\ Idle \notin Directory!Operations
  BY Places
<1>2. doing' = [doing EXCEPT !.step = step]
  BY DEF Directory!Step
<1>3. doing' \in Directory!Operations
  BY <1>1, <1>2 DEF Directory!Operations
<1>4. doing'.step = step /\ doing'.kind = doing.kind
      /\ doing'.root = doing.root /\ doing'.export = doing.export
  BY <1>1, <1>2 DEF Directory!Operations
<1>. QED BY <1>1, <1>3, <1>4

\* An operation changes one directory.
LEMMA DirectoryChanges ==
  ASSUME Directory!ConstantsAssumption, PlacesInv,
         NEW r \in Roots, NEW t \in Directory!Trees, Directory!Identified(t),
         tree' = [tree EXCEPT ![r] = t],
         UNCHANGED <<previous, aside, backup, installed, stops>>,
         created' \in 0..MaxIdentities, numbered' \in 0..MaxExports,
         rewritten' \subseteq Directory!Files,
         doing' \in Directory!Operations \union {Idle}
  PROVE  /\ Directory!TypeOK' /\ DirectoriesIdentified'
         /\ tree'[r] = t /\ tree'[r] # NoTree
         /\ \A q \in Roots \ {r} : tree'[q] = tree[q]
<1>1. /\ tree \in [Roots -> Directory!Trees \union {NoTree}]
      /\ NoTree \notin Directory!Trees
  BY DEF PlacesInv, Directory!TypeOK, Directory!ConstantsAssumption
<1>2. /\ tree' \in [Roots -> Directory!Trees \union {NoTree}]
      /\ tree'[r] = t /\ \A q \in Roots \ {r} : tree'[q] = tree[q]
  BY <1>1
<1>3. Directory!TypeOK'
  BY <1>2 DEF PlacesInv, Directory!TypeOK, Directory!Files
<1>4. DirectoriesIdentified'
  <2>1. \A q \in Roots : Directory!Identified(tree'[q])
    BY <1>2, Zenon DEF PlacesInv, DirectoriesIdentified
  <2>2. /\ \A q \in Roots : tree'[q] = tree[q] \/ tree'[q] = t
        /\ \A u \in aside' : Directory!Identified(u)
        /\ Directory!Identified(previous')
    BY <1>2, Zenon DEF PlacesInv, DirectoriesIdentified
  <2>. QED BY <2>1, <2>2, Zenon DEF DirectoriesIdentified, Directory!Identified
<1>. QED BY <1>1, <1>2, <1>3, <1>4

\* A directory is created, with nothing in it.
LEMMA DirectoryCreated ==
  ASSUME Directory!ConstantsAssumption, PlacesInv, NEW r \in Roots, Directory!BeginOpen(r)
  PROVE  PlacesInv' /\ DirectoriesKept
<1> DEFINE t == IF tree[r] = NoTree THEN Directory!EmptyTree ELSE tree[r]
           d == [kind |-> "open", root |-> r, step |-> "manifest", export |-> NoRow]
<1>1. /\ doing = Idle /\ tree' = [tree EXCEPT ![r] = t] /\ doing' = d
      /\ UNCHANGED <<previous, aside, backup, installed, created, numbered, rewritten, stops>>
  BY DEF Directory!BeginOpen, Directory!moved, Directory!exportVars
<1>2. Directory!EmptyTree \in Directory!Trees
  BY DEF Directory!EmptyTree, Directory!Trees, Directory!Retentions
<1>3. t \in Directory!Trees /\ Directory!Identified(t)
  BY <1>2, Places DEF PlacesInv, DirectoriesIdentified, Directory!Identified,
     Directory!EmptyTree
<1>4. d \in Directory!Operations /\ d.step = "manifest" /\ d.kind = "open" /\ d.root = r
  BY DEF Directory!Operations, Directory!Steps
<1>5. created \in 0..MaxIdentities /\ numbered \in 0..MaxExports
      /\ rewritten \subseteq Directory!Files
  BY DEF PlacesInv, Directory!TypeOK
<1> HIDE DEF t, d
<1>6. Directory!TypeOK' /\ DirectoriesIdentified' /\ tree'[r] # NoTree
      /\ \A q \in Roots \ {r} : tree'[q] = tree[q]
  BY <1>1, <1>3, <1>4, <1>5, DirectoryChanges
<1>7. OpeningInv'
  BY <1>1, <1>4, <1>6, Places DEF OpeningInv
<1>8. RestoreInv'
  BY <1>1, <1>4, Places DEF PlacesInv, RestoreInv, Directory!Healthy, Directory!ExportErrors
<1>. QED BY <1>6, <1>7, <1>8 DEF PlacesInv, DirectoriesKept

\* What opening a workspace does to its directory keeps its exports.
Opened(t, u) ==
  /\ u \in Directory!Trees /\ Directory!Identified(u)
  /\ u.exports = t.exports /\ u.files = t.files /\ u.tombstones = t.tombstones

\* A step of opening a workspace leaves the directory named, and leaves one
\* that was restored as it is.
LEMMA OpeningKeepsPlaces ==
  ASSUME Directory!ConstantsAssumption, PlacesInv, doing # Idle,
         doing.kind \in {"open", "restore"},
         NEW u, Opened(tree[doing.root], u), tree' = [tree EXCEPT ![doing.root] = u],
         UNCHANGED <<previous, aside, backup, installed, numbered, rewritten, stops>>,
         created' \in 0..MaxIdentities, previous = NoTree,
         doing.kind = "restore" => u = tree[doing.root] /\ tree[doing.root] = backup.tree,
         \/ doing' = Idle
         \/ \E step \in {"tables", "stamp", "metadata", "verify"} :
              /\ Directory!Step(step)
              /\ step # "verify" => u.identity # 0
              /\ step = "metadata" => u.tables = "ready"
  PROVE  PlacesInv' /\ DirectoriesKept
<1> DEFINE r == doing.root
<1>1. r \in Roots /\ u \in Directory!Trees /\ Directory!Identified(u)
  BY Places DEF Opened
<1>2. \/ doing' = Idle
      \/ /\ doing' \in Directory!Operations /\ doing' # Idle
         /\ doing'.root = r /\ doing'.kind = doing.kind
         /\ doing'.step \in {"tables", "stamp", "metadata", "verify"}
         /\ doing'.step # "verify" => u.identity # 0
         /\ doing'.step = "metadata" => u.tables = "ready"
  <2>1. {"tables", "stamp", "metadata", "verify"} \subseteq Directory!Steps
    BY DEF Directory!Steps
  <2>. QED BY <2>1, OperationMoves
<1>3. numbered \in 0..MaxExports /\ rewritten \subseteq Directory!Files
  BY DEF PlacesInv, Directory!TypeOK
<1>4. /\ Directory!TypeOK' /\ DirectoriesIdentified'
      /\ tree'[r] = u /\ tree'[r] # NoTree
      /\ \A q \in Roots \ {r} : tree'[q] = tree[q]
  BY <1>1, <1>2, <1>3, DirectoryChanges
<1>5. OpeningInv'
  BY <1>2, <1>4 DEF OpeningInv
<1>6. RestoreInv'
  BY <1>2, <1>4 DEF PlacesInv, RestoreInv, Directory!Healthy, Directory!ExportErrors
<1>. QED BY <1>4, <1>5, <1>6 DEF PlacesInv, DirectoriesKept

\* What a step of opening a workspace starts from.
LEMMA OpeningAt ==
  ASSUME Directory!ConstantsAssumption, PlacesInv,
         NEW step \in {"manifest", "tables", "stamp", "metadata"},
         Directory!At({"open", "restore"}, step)
  PROVE  /\ doing # Idle /\ doing.kind \in {"open", "restore"} /\ doing.root \in Roots
         /\ doing.step = step /\ previous = NoTree
         /\ tree[doing.root] \in Directory!Trees
         /\ Directory!Identified(tree[doing.root])
         /\ step # "manifest" => tree[doing.root].identity # 0
         /\ step = "metadata" => tree[doing.root].tables = "ready"
         /\ doing.kind = "restore" =>
              /\ tree[doing.root] = backup.tree
              /\ backup.tree.row # NoRow
              /\ backup.tree.identity = backup.tree.row.identity
              /\ backup.tree.tables = "ready"
         /\ created \in 0..MaxIdentities
<1>1. doing # Idle /\ doing.kind \in {"open", "restore"} /\ doing.step = step
  BY DEF Directory!At
<1>2. doing.root \in Roots /\ tree[doing.root] \in Directory!Trees
  BY <1>1, Places DEF PlacesInv, OpeningInv
<1>. QED
  BY <1>1, <1>2 DEF PlacesInv, OpeningInv, RestoreInv, DirectoriesIdentified,
     Directory!Healthy, Directory!TypeOK

\* A row of metadata has an identity.
LEMMA RowsNamed ==
  ASSUME Directory!ConstantsAssumption, NEW t \in Directory!Trees,
         t.row # NoRow
  PROVE  t.row.identity \in Directory!Identities /\ t.row.identity # 0
  BY DEF Directory!Trees, Directory!ConstantsAssumption, Directory!Identities

\* Opening a workspace, step by step.
LEMMA ManifestKeepsPlaces ==
  ASSUME Directory!ConstantsAssumption, PlacesInv, Directory!OpenManifest
  PROVE  /\ PlacesInv' /\ DirectoriesKept
         /\ \E u : /\ Opened(tree[doing.root], u)
                   /\ tree' = [tree EXCEPT ![doing.root] = u]
<1> DEFINE t == tree[doing.root]
           v == [t EXCEPT !.identity = created + 1]
           u == IF t.identity # 0 THEN t ELSE v
<1>1. Directory!At({"open", "restore"}, "manifest") /\ Directory!Step("tables")
      /\ UNCHANGED <<previous, aside, backup, installed, numbered, rewritten, stops>>
  BY DEF Directory!OpenManifest, Directory!Opening, Directory!moved, Directory!exportVars
<1>2. /\ doing # Idle /\ doing.kind \in {"open", "restore"} /\ doing.root \in Roots
      /\ previous = NoTree /\ t \in Directory!Trees /\ Directory!Identified(t)
      /\ doing.kind = "restore" => /\ t = backup.tree /\ t.row # NoRow
                                   /\ t.identity = t.row.identity
      /\ created \in 0..MaxIdentities /\ MaxIdentities \in Nat
  BY <1>1, OpeningAt DEF Directory!ConstantsAssumption
<1>3. t.row # NoRow => t.identity # 0
  BY <1>2, RowsNamed, Places DEF Directory!Identified
<1>4. CASE t.identity # 0
  <2>1. tree' = [tree EXCEPT ![doing.root] = t] /\ created' = created
    BY <1>2, <1>4 DEF Directory!OpenManifest, PlacesInv, Directory!TypeOK
  <2>2. Opened(t, t)
    BY <1>2 DEF Opened
  <2>. QED BY <1>1, <1>2, <1>4, <2>1, <2>2, OpeningKeepsPlaces
<1>5. CASE t.identity = 0
  <2>1. created < MaxIdentities /\ created' = created + 1
        /\ tree' = [tree EXCEPT ![doing.root].identity = created + 1]
    BY <1>5 DEF Directory!OpenManifest
  <2>2. tree' = [tree EXCEPT ![doing.root] = v]
    BY <2>1
  <2>3. created' \in 0..MaxIdentities /\ created + 1 \in Directory!Identities
        /\ created + 1 # 0
    BY <1>2, <2>1 DEF Directory!Identities
  <2>4. /\ v \in Directory!Trees /\ v.identity # 0 /\ v.row = t.row
        /\ v.exports = t.exports /\ v.files = t.files /\ v.tombstones = t.tombstones
    BY <1>2, <2>3 DEF Directory!Trees
  <2>5. Opened(t, v)
    BY <1>3, <1>5, <2>4 DEF Opened, Directory!Identified
  <2> HIDE DEF v
  <2>6. doing.kind # "restore"
    BY <1>2, <1>3, <1>5
  <2>. QED BY <1>1, <1>2, <2>2, <2>3, <2>4, <2>5, <2>6, OpeningKeepsPlaces
<1>. QED BY <1>4, <1>5

LEMMA TablesKeepPlaces ==
  ASSUME Directory!ConstantsAssumption, PlacesInv, Directory!OpenTables
  PROVE  /\ PlacesInv' /\ DirectoriesKept
         /\ \E u : /\ Opened(tree[doing.root], u)
                   /\ tree' = [tree EXCEPT ![doing.root] = u]
<1> DEFINE t == tree[doing.root]
           v == [t EXCEPT !.tables = "unversioned"]
<1>1. Directory!At({"open", "restore"}, "tables")
      /\ UNCHANGED <<previous, aside, backup, installed, created, numbered, rewritten, stops>>
  BY DEF Directory!OpenTables, Directory!Opening, Directory!moved, Directory!exportVars
<1>2. /\ doing # Idle /\ doing.kind \in {"open", "restore"} /\ doing.root \in Roots
      /\ previous = NoTree /\ t \in Directory!Trees /\ Directory!Identified(t)
      /\ t.identity # 0
      /\ doing.kind = "restore" => t = backup.tree /\ t.tables = "ready"
      /\ created \in 0..MaxIdentities
  BY <1>1, OpeningAt
<1>3. Opened(t, t)
  BY <1>2 DEF Opened
<1>4. t.tables \in {"none", "unversioned", "ready"}
  BY <1>2 DEF Directory!Trees
<1>5. CASE t.tables = "ready"
  <2>1. Directory!Step("metadata") /\ tree' = tree
    BY <1>5 DEF Directory!OpenTables
  <2>2. tree' = [tree EXCEPT ![doing.root] = t]
    BY <1>2, <2>1 DEF PlacesInv, Directory!TypeOK
  <2>. QED BY <1>1, <1>2, <1>3, <1>5, <2>1, <2>2, OpeningKeepsPlaces
<1>6. CASE t.tables = "none"
  <2>1. Directory!Step("stamp")
        /\ tree' = [tree EXCEPT ![doing.root].tables = "unversioned"]
    BY <1>6 DEF Directory!OpenTables
  <2>2. tree' = [tree EXCEPT ![doing.root] = v]
    BY <2>1
  <2>3. /\ v \in Directory!Trees /\ v.identity = t.identity /\ v.row = t.row
        /\ v.exports = t.exports /\ v.files = t.files /\ v.tombstones = t.tombstones
    BY <1>2 DEF Directory!Trees
  <2>4. t.row = NoRow
    BY <1>2, <1>6, Places DEF Directory!Identified
  <2>5. Opened(t, v)
    BY <2>3, <2>4 DEF Opened, Directory!Identified
  <2> HIDE DEF v
  <2>6. doing.kind # "restore"
    BY <1>2, <1>6
  <2>. QED BY <1>1, <1>2, <2>1, <2>2, <2>3, <2>5, <2>6, OpeningKeepsPlaces
<1>7. CASE t.tables = "unversioned"
  <2>1. doing' = Idle /\ tree' = tree
    BY <1>7 DEF Directory!OpenTables, Directory!End
  <2>2. tree' = [tree EXCEPT ![doing.root] = t]
    BY <1>2, <2>1 DEF PlacesInv, Directory!TypeOK
  <2>. QED BY <1>1, <1>2, <1>3, <2>1, <2>2, OpeningKeepsPlaces
<1>. QED BY <1>4, <1>5, <1>6, <1>7

LEMMA StampKeepsPlaces ==
  ASSUME Directory!ConstantsAssumption, PlacesInv, Directory!StampVersion
  PROVE  /\ PlacesInv' /\ DirectoriesKept
         /\ \E u : /\ Opened(tree[doing.root], u)
                   /\ tree' = [tree EXCEPT ![doing.root] = u]
<1> DEFINE t == tree[doing.root]
           v == [t EXCEPT !.tables = "ready"]
<1>1. /\ Directory!At({"open", "restore"}, "stamp") /\ Directory!Step("metadata")
      /\ UNCHANGED <<previous, aside, backup, installed, created, numbered, rewritten, stops>>
      /\ tree' = [tree EXCEPT ![doing.root] = v]
  BY DEF Directory!StampVersion, Directory!Opening, Directory!moved, Directory!exportVars
<1>2. /\ doing # Idle /\ doing.kind \in {"open", "restore"} /\ doing.root \in Roots
      /\ previous = NoTree /\ t \in Directory!Trees /\ Directory!Identified(t)
      /\ t.identity # 0
      /\ doing.kind = "restore" => t = backup.tree /\ t.tables = "ready"
      /\ created \in 0..MaxIdentities
  BY <1>1, OpeningAt
<1>3. /\ v \in Directory!Trees /\ v.identity = t.identity /\ v.row = t.row
      /\ v.tables = "ready"
      /\ v.exports = t.exports /\ v.files = t.files /\ v.tombstones = t.tombstones
  BY <1>2 DEF Directory!Trees
<1>4. t.tables = "ready" => v = t
  BY <1>2 DEF Directory!Trees
<1>5. Opened(t, v)
  BY <1>2, <1>3, Places DEF Opened, Directory!Identified
<1> HIDE DEF v
<1>. QED BY <1>1, <1>2, <1>3, <1>4, <1>5, OpeningKeepsPlaces

LEMMA MetadataKeepsPlaces ==
  ASSUME Directory!ConstantsAssumption, PlacesInv, Directory!OpenMetadata
  PROVE  /\ PlacesInv' /\ DirectoriesKept
         /\ \E u : /\ Opened(tree[doing.root], u)
                   /\ tree' = [tree EXCEPT ![doing.root] = u]
<1> DEFINE t == tree[doing.root]
           row == [identity |-> t.identity, version |-> installed]
           v == [t EXCEPT !.row = IF t.row = NoRow THEN row ELSE t.row]
<1>1. /\ Directory!At({"open", "restore"}, "metadata")
      /\ Directory!Step("verify") \/ doing' = Idle
      /\ UNCHANGED <<previous, aside, backup, installed, created, numbered, rewritten, stops>>
      /\ tree' = [tree EXCEPT ![doing.root] = v]
  BY DEF Directory!OpenMetadata, Directory!Opening, Directory!moved, Directory!exportVars,
     Directory!End
<1>2. /\ doing # Idle /\ doing.kind \in {"open", "restore"} /\ doing.root \in Roots
      /\ previous = NoTree /\ t \in Directory!Trees /\ Directory!Identified(t)
      /\ t.identity # 0 /\ t.tables = "ready"
      /\ doing.kind = "restore" => t = backup.tree /\ t.row # NoRow
      /\ created \in 0..MaxIdentities
  BY <1>1, OpeningAt
<1>3. row \in [identity : Directory!Identities, version : 1..MaxVersion]
  BY <1>2 DEF Directory!Trees, PlacesInv, Directory!TypeOK
<1>4. /\ v \in Directory!Trees /\ v.identity = t.identity
      /\ v.row = IF t.row = NoRow THEN row ELSE t.row
      /\ v.tables = "ready"
      /\ v.exports = t.exports /\ v.files = t.files /\ v.tombstones = t.tombstones
  BY <1>2, <1>3 DEF Directory!Trees
<1>5. t.row # NoRow => v = t
  BY <1>2 DEF Directory!Trees
<1>6. Opened(t, v)
  BY <1>2, <1>4, Places DEF Opened, Directory!Identified
<1> HIDE DEF v
<1>. QED BY <1>1, <1>2, <1>4, <1>5, <1>6, OpeningKeepsPlaces

\* What is done to the exports of an open workspace.
LEMMA ExportsKeepPlaces ==
  ASSUME Directory!ConstantsAssumption, PlacesInv,
         doing # Idle => doing.kind \in {"export", "delete"},
         NEW r \in Roots, tree[r] # NoTree, NEW u \in Directory!Trees,
         u.identity = tree[r].identity, u.row = tree[r].row, u.tables = tree[r].tables,
         tree' = [tree EXCEPT ![r] = u],
         UNCHANGED <<previous, aside, backup, installed, created, stops>>,
         numbered' \in 0..MaxExports, rewritten' \subseteq Directory!Files,
         \/ doing' \in {doing, Idle}
         \/ /\ doing' \in Directory!Operations
            /\ doing'.kind \in {"export", "delete"} /\ doing'.root = r
            /\ doing'.step \in {"row", "tombstone"}
  PROVE  PlacesInv' /\ DirectoriesKept
<1>1. Directory!Identified(u)
  BY Places DEF PlacesInv, DirectoriesIdentified, Directory!Identified
<1>2. created' \in 0..MaxIdentities /\ doing' \in Directory!Operations \union {Idle}
  BY DEF PlacesInv, Directory!TypeOK
<1>3. /\ Directory!TypeOK' /\ DirectoriesIdentified'
      /\ tree'[r] = u /\ tree'[r] # NoTree
      /\ \A q \in Roots \ {r} : tree'[q] = tree[q]
  BY <1>1, <1>2, DirectoryChanges
<1>4. OpeningInv'
  BY <1>3, Places DEF PlacesInv, OpeningInv
<1>5. RestoreInv'
  BY DEF PlacesInv, RestoreInv, Directory!Healthy, Directory!ExportErrors
<1>. QED BY <1>3, <1>4, <1>5 DEF PlacesInv, DirectoriesKept

\* An open workspace, and the operation on exports that is running.
LEMMA OpenThere ==
  ASSUME Directory!ConstantsAssumption, PlacesInv, NEW r \in Roots, Directory!Open(r)
  PROVE  tree[r] \in Directory!Trees /\ tree[r] # NoTree /\ tree[r].tables = "ready"
  BY Places DEF Directory!Open

LEMMA ExportThere ==
  ASSUME Directory!ConstantsAssumption, PlacesInv, doing # Idle,
         \/ doing.kind = "export" /\ doing.step = "row"
         \/ doing.kind = "delete" /\ doing.step = "tombstone"
  PROVE  /\ doing.root \in Roots /\ tree[doing.root] \in Directory!Trees
         /\ doing.export \in Directory!Rows
<1>1. doing \in Directory!Operations
  BY Places
<1>2. doing.export \in Directory!Rows
  BY <1>1 DEF Directory!Operations
<1>. QED BY <1>2, Places DEF PlacesInv, OpeningInv

LEMMA WriteExportKeepsPlaces ==
  ASSUME Directory!ConstantsAssumption, PlacesInv,
         NEW r \in Roots, NEW path \in Directory!Paths, NEW content \in ExportContents,
         NEW id \in Directory!ExportIds, Directory!WriteExport(r, path, content, id)
  PROVE  PlacesInv' /\ DirectoriesKept
<1> DEFINE t == tree[r]
           files == [t.files EXCEPT ![path.name] = content]
           u == IF path = Outside THEN t ELSE [t EXCEPT !.files = files]
           x == [id |-> id, path |-> path, content |-> content]
           d == [kind |-> "export", root |-> r, step |-> "row", export |-> x]
<1>1. /\ doing = Idle /\ Directory!Open(r) /\ path \in Directory!PathsBelow(r)
      /\ doing' = d
      /\ UNCHANGED <<previous, aside, backup, installed, created, stops>>
  BY DEF Directory!WriteExport, Directory!moved
<1>2. t \in Directory!Trees /\ t # NoTree
  BY <1>1, OpenThere
<1>3. path = Outside \/ path.name \in ExportNames
  BY <1>1 DEF Directory!PathsBelow
<1>4. tree' = [tree EXCEPT ![r] = u]
  BY DEF Directory!WriteExport, PlacesInv, Directory!TypeOK
<1>5. numbered' \in 0..MaxExports /\ rewritten' \subseteq Directory!Files
  BY <1>3 DEF Directory!WriteExport, PlacesInv, Directory!TypeOK, Directory!Files,
     Directory!ConstantsAssumption
<1>6. files \in [ExportNames -> ExportContents \union {NoFile}]
  BY <1>2 DEF Directory!Trees
<1> HIDE DEF files
<1>7. u \in Directory!Trees /\ u.identity = t.identity /\ u.row = t.row
      /\ u.tables = t.tables
  BY <1>2, <1>6 DEF Directory!Trees
<1>8. x \in Directory!Rows
  BY DEF Directory!Rows
<1> HIDE DEF u, x
<1>9. /\ d \in Directory!Operations /\ d.kind = "export" /\ d.root = r
      /\ d.step = "row"
  BY <1>8 DEF Directory!Operations, Directory!Steps
<1> HIDE DEF d
<1>. QED BY <1>1, <1>2, <1>4, <1>5, <1>7, <1>9, ExportsKeepPlaces

LEMMA RecordExportKeepsPlaces ==
  ASSUME Directory!ConstantsAssumption, PlacesInv, Directory!RecordExport
  PROVE  PlacesInv' /\ DirectoriesKept
<1> DEFINE r == doing.root
           t == tree[r]
           known == \E e \in t.exports : e.id = doing.export.id
           rows == IF known THEN t.exports ELSE t.exports \union {doing.export}
           u == [t EXCEPT !.exports = rows]
<1>1. /\ doing # Idle /\ doing.kind = "export" /\ doing.step = "row" /\ doing' = Idle
      /\ tree' = [tree EXCEPT ![r] = u]
      /\ UNCHANGED <<previous, aside, backup, installed, created, numbered, rewritten, stops>>
  BY DEF Directory!RecordExport, Directory!At, Directory!End, Directory!moved,
     Directory!exportVars
<1>2. r \in Roots /\ t \in Directory!Trees /\ doing.export \in Directory!Rows
  BY <1>1, ExportThere
<1>3. rows \subseteq Directory!Rows
  BY <1>2 DEF Directory!Trees
<1> HIDE DEF rows
<1>4. u \in Directory!Trees /\ u.identity = t.identity /\ u.row = t.row
      /\ u.tables = t.tables
  BY <1>2, <1>3 DEF Directory!Trees
<1> HIDE DEF u
<1>5. numbered' \in 0..MaxExports /\ rewritten' \subseteq Directory!Files
      /\ t # NoTree
  BY <1>1, <1>2, Places DEF PlacesInv, Directory!TypeOK
<1>. QED BY <1>1, <1>2, <1>4, <1>5, ExportsKeepPlaces

LEMMA RetainExportKeepsPlaces ==
  ASSUME Directory!ConstantsAssumption, PlacesInv,
         NEW r \in Roots, NEW e \in Directory!Rows, NEW retention \in Directory!Retentions,
         Directory!RetainExport(r, e, retention)
  PROVE  PlacesInv' /\ DirectoriesKept
<1> DEFINE t == tree[r]
           kept == [t.retention EXCEPT ![e.id] = retention]
           u == [t EXCEPT !.retention = kept]
<1>1. /\ doing = Idle /\ Directory!Open(r) /\ doing' = doing
      /\ tree' = [tree EXCEPT ![r] = u]
      /\ UNCHANGED <<previous, aside, backup, installed, created, numbered, rewritten, stops>>
  BY DEF Directory!RetainExport, Directory!moved, Directory!exportVars
<1>2. t \in Directory!Trees /\ t # NoTree
  BY <1>1, OpenThere
<1>3. kept \in [Directory!ExportIds -> Directory!Retentions]
  BY <1>2 DEF Directory!Trees
<1> HIDE DEF kept
<1>4. u \in Directory!Trees /\ u.identity = t.identity /\ u.row = t.row
      /\ u.tables = t.tables
  BY <1>2, <1>3 DEF Directory!Trees
<1> HIDE DEF u
<1>5. numbered' \in 0..MaxExports /\ rewritten' \subseteq Directory!Files
  BY <1>1 DEF PlacesInv, Directory!TypeOK
<1>. QED BY <1>1, <1>2, <1>4, <1>5, ExportsKeepPlaces

LEMMA UnlinkExportKeepsPlaces ==
  ASSUME Directory!ConstantsAssumption, PlacesInv,
         NEW r \in Roots, NEW e \in Directory!Rows, Directory!UnlinkExport(r, e)
  PROVE  PlacesInv' /\ DirectoriesKept
<1> DEFINE t == tree[r]
           files == [t.files EXCEPT ![e.path.name] = NoFile]
           u == [t EXCEPT !.files = files]
           d == [kind |-> "delete", root |-> r, step |-> "tombstone", export |-> e]
<1>1. /\ doing = Idle /\ Directory!Open(r) /\ doing' = d
      /\ tree' = [tree EXCEPT ![r] = u]
      /\ UNCHANGED <<previous, aside, backup, installed, created, numbered, rewritten, stops>>
  BY DEF Directory!UnlinkExport, Directory!moved, Directory!exportVars
<1>2. t \in Directory!Trees /\ t # NoTree
  BY <1>1, OpenThere
<1>3. files \in [ExportNames -> ExportContents \union {NoFile}]
  BY <1>2 DEF Directory!Trees
<1> HIDE DEF files
<1>4. u \in Directory!Trees /\ u.identity = t.identity /\ u.row = t.row
      /\ u.tables = t.tables
  BY <1>2, <1>3 DEF Directory!Trees
<1> HIDE DEF u
<1>5. /\ d \in Directory!Operations /\ d.kind = "delete" /\ d.root = r
      /\ d.step = "tombstone"
  BY DEF Directory!Operations, Directory!Steps
<1> HIDE DEF d
<1>6. numbered' \in 0..MaxExports /\ rewritten' \subseteq Directory!Files
  BY <1>1 DEF PlacesInv, Directory!TypeOK
<1>. QED BY <1>1, <1>2, <1>4, <1>5, <1>6, ExportsKeepPlaces

LEMMA RecordDeletionKeepsPlaces ==
  ASSUME Directory!ConstantsAssumption, PlacesInv, Directory!RecordDeletion
  PROVE  PlacesInv' /\ DirectoriesKept
<1> DEFINE r == doing.root
           t == tree[r]
           ids == t.tombstones \union {doing.export.id}
           u == [t EXCEPT !.tombstones = ids]
<1>1. /\ doing # Idle /\ doing.kind = "delete" /\ doing.step = "tombstone" /\ doing' = Idle
      /\ tree' = [tree EXCEPT ![r] = u]
      /\ UNCHANGED <<previous, aside, backup, installed, created, numbered, rewritten, stops>>
  BY DEF Directory!RecordDeletion, Directory!At, Directory!End, Directory!moved,
     Directory!exportVars
<1>2. r \in Roots /\ t \in Directory!Trees /\ doing.export \in Directory!Rows
  BY <1>1, ExportThere
<1>3. ids \subseteq Directory!ExportIds
  BY <1>2 DEF Directory!Trees, Directory!Rows
<1> HIDE DEF ids
<1>4. u \in Directory!Trees /\ u.identity = t.identity /\ u.row = t.row
      /\ u.tables = t.tables
  BY <1>2, <1>3 DEF Directory!Trees
<1> HIDE DEF u
<1>5. numbered' \in 0..MaxExports /\ rewritten' \subseteq Directory!Files
      /\ t # NoTree
  BY <1>1, <1>2, Places DEF PlacesInv, Directory!TypeOK
<1>. QED BY <1>1, <1>2, <1>4, <1>5, ExportsKeepPlaces

\* Verification and backup.
LEMMA BackUpKeepsPlaces ==
  ASSUME Directory!ConstantsAssumption, PlacesInv, NEW r \in Roots, Directory!BackUp(r)
  PROVE  PlacesInv'
<1> DEFINE b == [root |-> r, tree |-> tree[r]]
<1>1. /\ doing = Idle /\ Directory!Open(r) /\ Directory!Healthy(tree[r], r) /\ backup' = b
      /\ UNCHANGED <<tree, previous, aside, doing, installed, created, numbered, rewritten,
                     stops>>
  BY DEF Directory!BackUp, Directory!moved, Directory!exportVars
<1>2. tree[r] \in Directory!Trees /\ tree[r].tables = "ready"
  BY <1>1, OpenThere
<1>3. b \in [root : Roots, tree : Directory!Trees] /\ b.root = r /\ b.tree = tree[r]
  BY <1>2
<1> HIDE DEF b
<1>4. Directory!TypeOK'
  BY <1>1, <1>3 DEF PlacesInv, Directory!TypeOK
<1>5. DirectoriesIdentified' /\ OpeningInv'
  BY <1>1, Zenon DEF PlacesInv, DirectoriesIdentified, Directory!Identified, OpeningInv
<1>6. RestoreInv'
  BY <1>1, <1>2, <1>3 DEF PlacesInv, RestoreInv, Directory!Healthy, Directory!ExportErrors
<1>. QED BY <1>4, <1>5, <1>6 DEF PlacesInv

\* The steps that replace a directory by the backup.
LEMMA BeginRestoreKeepsPlaces ==
  ASSUME Directory!ConstantsAssumption, PlacesInv, NEW r \in Roots,
         Directory!BeginRestore(r)
  PROVE  PlacesInv'
<1> DEFINE step == IF tree[r] = NoTree THEN "in" ELSE "aside"
           d == [kind |-> "restore", root |-> r, export |-> NoRow, step |-> step]
<1>1. /\ doing = Idle /\ backup # NoTree /\ doing' = d
      /\ UNCHANGED <<tree, previous, aside, backup, installed, created, numbered, rewritten,
                     stops>>
  BY DEF Directory!BeginRestore, Directory!moved, Directory!exportVars
<1>2. step \in Directory!Steps
  BY DEF Directory!Steps
<1>3. /\ step = "in" <=> tree[r] = NoTree
      /\ step \in {"in", "aside"}
  OBVIOUS
<1> HIDE DEF step
<1>4. /\ d \in Directory!Operations /\ d.kind = "restore" /\ d.root = r /\ d.step = step
  BY <1>2 DEF Directory!Operations
<1> HIDE DEF d
<1>5. Directory!TypeOK'
  BY <1>1, <1>4 DEF PlacesInv, Directory!TypeOK
<1>6. DirectoriesIdentified'
  BY <1>1, Zenon DEF PlacesInv, DirectoriesIdentified, Directory!Identified
<1>7. OpeningInv'
  BY <1>1, <1>3, <1>4 DEF OpeningInv
<1>8. RestoreInv'
  BY <1>1, <1>3, <1>4 DEF PlacesInv, RestoreInv, Directory!Healthy, Directory!ExportErrors
<1>. QED BY <1>5, <1>6, <1>7, <1>8 DEF PlacesInv

LEMMA MoveAsideKeepsPlaces ==
  ASSUME Directory!ConstantsAssumption, PlacesInv, Directory!MoveAside
  PROVE  PlacesInv'
<1> DEFINE r == doing.root
<1>1. /\ doing # Idle /\ doing.kind = "restore" /\ doing.step = "aside"
      /\ Directory!Step("in")
      /\ previous' = tree[r] /\ tree' = [tree EXCEPT ![r] = NoTree]
      /\ UNCHANGED <<aside, backup, installed, created, numbered, rewritten, stops>>
  BY DEF Directory!MoveAside, Directory!At, Directory!exportVars
<1>2. /\ doing' \in Directory!Operations /\ doing' # Idle /\ doing'.step = "in"
      /\ doing'.kind = "restore" /\ doing'.root = r /\ r \in Roots
  BY <1>1, OperationMoves, Places DEF Directory!Steps
<1>3. tree'[r] = NoTree /\ tree' \in [Roots -> Directory!Trees \union {NoTree}]
      /\ \A q \in Roots \ {r} : tree'[q] = tree[q]
  BY <1>1, <1>2 DEF PlacesInv, Directory!TypeOK
<1>4. Directory!TypeOK'
  BY <1>1, <1>2, <1>3 DEF PlacesInv, Directory!TypeOK
<1>5. DirectoriesIdentified'
  <2>1. /\ \A q \in Roots : Directory!Identified(tree[q])
        /\ \A t \in aside : Directory!Identified(t)
    BY DEF PlacesInv, DirectoriesIdentified
  <2>. QED BY <1>1, <1>2, <1>3, <2>1 DEF DirectoriesIdentified, Directory!Identified
<1>6. OpeningInv'
  BY <1>2, <1>3 DEF OpeningInv
<1>7. RestoreInv'
  BY <1>1, <1>2 DEF PlacesInv, RestoreInv, Directory!Healthy, Directory!ExportErrors
<1>. QED BY <1>4, <1>5, <1>6, <1>7 DEF PlacesInv

LEMMA MoveInKeepsPlaces ==
  ASSUME Directory!ConstantsAssumption, PlacesInv, Directory!MoveIn
  PROVE  PlacesInv'
<1> DEFINE r == doing.root
<1>1. /\ doing # Idle /\ doing.kind = "restore" /\ doing.step = "in"
      /\ Directory!Step("remove")
      /\ tree' = [tree EXCEPT ![r] = backup.tree]
      /\ UNCHANGED <<previous, aside, backup, installed, created, numbered, rewritten, stops>>
  BY DEF Directory!MoveIn, Directory!At, Directory!exportVars, Directory!moved
<1>2. /\ doing' \in Directory!Operations /\ doing' # Idle /\ doing'.step = "remove"
      /\ doing'.kind = "restore" /\ doing'.root = r /\ r \in Roots
  BY <1>1, OperationMoves, Places DEF Directory!Steps
<1>3. backup # NoTree /\ backup.tree \in Directory!Trees /\ backup.tree # NoTree
  BY <1>1, Places DEF PlacesInv, RestoreInv
<1>4. tree'[r] = backup.tree /\ tree' \in [Roots -> Directory!Trees \union {NoTree}]
      /\ \A q \in Roots \ {r} : tree'[q] = tree[q]
  BY <1>1, <1>2, <1>3 DEF PlacesInv, Directory!TypeOK
<1>5. Directory!TypeOK'
  BY <1>1, <1>2, <1>4 DEF PlacesInv, Directory!TypeOK
<1>6. Directory!Identified(backup.tree)
  BY <1>3 DEF PlacesInv, RestoreInv, Directory!Healthy, Directory!Identified
<1>7. DirectoriesIdentified'
  <2>1. /\ \A q \in Roots : Directory!Identified(tree[q])
        /\ \A t \in aside : Directory!Identified(t)
        /\ Directory!Identified(previous)
    BY DEF PlacesInv, DirectoriesIdentified
  <2>. QED BY <1>1, <1>2, <1>4, <1>6, <2>1 DEF DirectoriesIdentified, Directory!Identified
<1>8. OpeningInv'
  BY <1>2, <1>3, <1>4 DEF OpeningInv
<1>9. RestoreInv'
  BY <1>1, <1>2, <1>3, <1>4 DEF PlacesInv, RestoreInv, Directory!Healthy,
     Directory!ExportErrors
<1>. QED BY <1>5, <1>7, <1>8, <1>9 DEF PlacesInv

LEMMA MoveBackKeepsPlaces ==
  ASSUME Directory!ConstantsAssumption, PlacesInv, Directory!MoveBack
  PROVE  PlacesInv'
<1> DEFINE r == doing.root
<1>1. /\ doing # Idle /\ doing.step = "in" /\ doing' = Idle /\ previous' = NoTree
      /\ tree' = [tree EXCEPT ![r] = previous]
      /\ UNCHANGED <<aside, backup, installed, created, numbered, rewritten, stops>>
  BY DEF Directory!MoveBack, Directory!At, Directory!exportVars, Directory!End
<1>2. r \in Roots
  BY <1>1, Places
<1>3. tree'[r] = previous /\ tree' \in [Roots -> Directory!Trees \union {NoTree}]
      /\ \A q \in Roots \ {r} : tree'[q] = tree[q]
  BY <1>1, <1>2 DEF PlacesInv, Directory!TypeOK
<1>4. Directory!TypeOK'
  BY <1>1, <1>3 DEF PlacesInv, Directory!TypeOK
<1>5. DirectoriesIdentified'
  <2>1. /\ \A q \in Roots : Directory!Identified(tree[q])
        /\ \A t \in aside : Directory!Identified(t)
        /\ Directory!Identified(previous)
    BY DEF PlacesInv, DirectoriesIdentified
  <2>. QED BY <1>1, <1>3, <2>1 DEF DirectoriesIdentified, Directory!Identified
<1>6. OpeningInv' /\ RestoreInv'
  BY <1>1 DEF PlacesInv, OpeningInv, RestoreInv, Directory!Healthy, Directory!ExportErrors
<1>. QED BY <1>4, <1>5, <1>6 DEF PlacesInv

\* The steps that leave every directory where it is.
LEMMA RestKeepsPlaces ==
  ASSUME Directory!ConstantsAssumption, PlacesInv,
         \/ Directory!RemovePrevious \/ Directory!VerifyRestored
         \/ Directory!Stop \/ Directory!Upgrade
  PROVE  PlacesInv' /\ tree' = tree
<1>1. CASE Directory!RemovePrevious
  <2>1. /\ doing # Idle /\ doing.kind = "restore" /\ doing.step = "remove"
        /\ Directory!Step("manifest") /\ previous' = NoTree
        /\ UNCHANGED <<tree, aside, backup, installed, created, numbered, rewritten, stops>>
    BY <1>1 DEF Directory!RemovePrevious, Directory!At, Directory!exportVars
  <2>2. /\ doing' \in Directory!Operations /\ doing' # Idle /\ doing'.step = "manifest"
        /\ doing'.kind = "restore" /\ doing'.root = doing.root
    BY <2>1, OperationMoves DEF Directory!Steps
  <2>3. Directory!TypeOK' /\ DirectoriesIdentified'
    BY <2>1, <2>2 DEF PlacesInv, Directory!TypeOK, DirectoriesIdentified,
       Directory!Identified
  <2>4. OpeningInv' /\ RestoreInv'
    BY <2>1, <2>2 DEF PlacesInv, OpeningInv, RestoreInv, Directory!Healthy,
       Directory!ExportErrors
  <2>. QED BY <2>1, <2>3, <2>4 DEF PlacesInv
<1>2. CASE Directory!VerifyRestored
  <2>1. /\ doing # Idle /\ doing.kind = "restore" /\ doing.step = "verify" /\ doing' = Idle
        /\ UNCHANGED <<tree, previous, aside, backup, installed, created, numbered, rewritten,
                       stops>>
    BY <1>2 DEF Directory!VerifyRestored, Directory!At, Directory!End, Directory!moved,
       Directory!exportVars
  <2>2. Directory!TypeOK' /\ DirectoriesIdentified'
    BY <2>1 DEF PlacesInv, Directory!TypeOK, DirectoriesIdentified, Directory!Identified
  <2>3. OpeningInv' /\ RestoreInv'
    BY <2>1 DEF PlacesInv, OpeningInv, RestoreInv, Directory!Healthy,
       Directory!ExportErrors
  <2>. QED BY <2>1, <2>2, <2>3 DEF PlacesInv
<1>3. CASE Directory!Stop
  <2>1. /\ doing # Idle /\ stops < MaxStops /\ stops' = stops + 1 /\ doing' = Idle
        /\ aside' = aside \union ({previous} \ {NoTree}) /\ previous' = NoTree
        /\ UNCHANGED <<tree, backup, installed, created, numbered, rewritten>>
    BY <1>3 DEF Directory!Stop, Directory!End, Directory!exportVars
  <2>2. stops' \in 0..MaxStops
    BY <2>1 DEF PlacesInv, Directory!TypeOK, Directory!ConstantsAssumption
  <2>3. Directory!TypeOK'
    BY <2>1, <2>2 DEF PlacesInv, Directory!TypeOK
  <2>4. DirectoriesIdentified'
    BY <2>1, Zenon DEF PlacesInv, DirectoriesIdentified, Directory!Identified
  <2>5. OpeningInv' /\ RestoreInv'
    BY <2>1 DEF PlacesInv, OpeningInv, RestoreInv, Directory!Healthy,
       Directory!ExportErrors
  <2>. QED BY <2>1, <2>3, <2>4, <2>5 DEF PlacesInv
<1>4. CASE Directory!Upgrade
  <2>1. /\ doing = Idle /\ installed < MaxVersion /\ installed' = installed + 1
        /\ UNCHANGED <<tree, previous, aside, backup, doing, created, numbered, rewritten,
                       stops>>
    BY <1>4 DEF Directory!Upgrade, Directory!moved, Directory!exportVars
  <2>2. installed' \in 1..MaxVersion
    BY <2>1 DEF PlacesInv, Directory!TypeOK, Directory!ConstantsAssumption
  <2>3. Directory!TypeOK'
    BY <2>1, <2>2 DEF PlacesInv, Directory!TypeOK
  <2>4. DirectoriesIdentified' /\ OpeningInv' /\ RestoreInv'
    BY <2>1 DEF PlacesInv, DirectoriesIdentified, Directory!Identified, OpeningInv,
       RestoreInv, Directory!Healthy, Directory!ExportErrors
  <2>. QED BY <2>1, <2>3, <2>4 DEF PlacesInv
<1>. QED BY <1>1, <1>2, <1>3, <1>4

LEMMA PlacesStep ==
  ASSUME Directory!ConstantsAssumption, PlacesInv, [Directory!Next]_(Directory!treeVars)
  PROVE  PlacesInv'
<1>1. CASE UNCHANGED Directory!treeVars
  BY <1>1 DEF Directory!treeVars, PlacesInv, Directory!TypeOK, DirectoriesIdentified,
     Directory!Identified, OpeningInv, RestoreInv, Directory!Healthy,
     Directory!ExportErrors
<1>2. CASE Directory!Next
  BY <1>2, DirectoryCreated, BackUpKeepsPlaces, BeginRestoreKeepsPlaces,
     WriteExportKeepsPlaces, UnlinkExportKeepsPlaces, RetainExportKeepsPlaces,
     ManifestKeepsPlaces, TablesKeepPlaces, StampKeepsPlaces, MetadataKeepsPlaces,
     RecordExportKeepsPlaces, RecordDeletionKeepsPlaces, MoveAsideKeepsPlaces,
     MoveInKeepsPlaces, MoveBackKeepsPlaces, RestKeepsPlaces, Zenon DEF Directory!Next
<1>. QED BY <1>1, <1>2

-----------------------------------------------------------------------------
(* The exports of a workspace agree with their rows and tombstones as long *)
(* as no operation stopped half-way.  A restored directory brings its own  *)
(* rows and files, and at another root all its rows point elsewhere.       *)

\* A path below the exports directory of a root.
LEMMA PathsOf ==
  ASSUME Directory!ConstantsAssumption, NEW path \in Directory!Paths, path # Outside
  PROVE  /\ path.root \in Roots /\ path.name \in ExportNames
         /\ path = [root |-> path.root, name |-> path.name]
  BY DEF Directory!Paths, Directory!PathsBelow

\* Paths only ever become rewritten.
LEMMA RowsStayAgreed ==
  ASSUME NEW t, NEW r, RowsAgree(t, r), rewritten \subseteq rewritten'
  PROVE  RowsAgree(t, r)'
  BY DEF RowsAgree

\* The errors of a directory at a root while nothing is deleted.
LEMMA NothingDeleted ==
  ASSUME doing # Idle => doing.kind # "delete", NEW t, NEW r, ErrorsExcused(t, r)
  PROVE  \A e \in Directory!ExportErrors(t, r) : Excused(e, r)
  BY DEF ErrorsExcused, Deleting

\* Exports are as they were, or there are none.
SameExports(t, u) ==
  /\ u.exports = t.exports /\ u.files = t.files /\ u.tombstones = t.tombstones

LEMMA SameExportsAgree ==
  ASSUME NEW t, NEW u, SameExports(t, u), NEW r, RowsAgree(t, r),
         \A e \in Directory!ExportErrors(t, r) : Excused(e, r),
         rewritten' = rewritten
  PROVE  RowsAgree(u, r)' /\ ErrorsExcused(u, r)'
<1>1. Directory!ExportErrors(u, r) = Directory!ExportErrors(t, r)
  BY DEF SameExports, Directory!ExportErrors
<1>. QED BY <1>1 DEF SameExports, RowsAgree, ErrorsExcused, Excused

\* What every step starts from and has to show.
LEMMA ExportsBefore ==
  ASSUME ExportsInv, stops = 0, doing # Idle => doing.kind # "delete"
  PROVE  /\ \A r \in Roots : tree[r] # NoTree =>
              /\ RowsAgree(tree[r], r)
              /\ \A e \in Directory!ExportErrors(tree[r], r) : Excused(e, r)
         /\ backup # NoTree => RowsAgree(backup.tree, backup.root)
         /\ previous # NoTree =>
              /\ RowsAgree(previous, doing.root)
              /\ \A e \in Directory!ExportErrors(previous, doing.root) :
                   Excused(e, doing.root)
  BY NothingDeleted, Zenon DEF ExportsInv

\* Steps that leave the exports of every directory as they are.
LEMMA ExportsUntouched ==
  ASSUME Directory!ConstantsAssumption, PlacesInv, ExportsInv,
         doing # Idle => doing.kind \notin {"export", "delete"},
         doing' # Idle => doing'.kind \notin {"export", "delete"},
         \A r \in Roots : tree'[r] # NoTree =>
           \/ tree[r] # NoTree /\ SameExports(tree[r], tree'[r])
           \/ tree'[r].exports = {} /\ tree'[r].tombstones = {},
         UNCHANGED <<backup, rewritten, stops>>,
         previous' \in {NoTree, previous}, previous' # NoTree => doing'.root = doing.root
  PROVE  ExportsInv'
<1>1. SUFFICES ASSUME stops = 0
      PROVE  /\ \A r \in Roots : tree'[r] # NoTree =>
                  RowsAgree(tree[r], r)' /\ ErrorsExcused(tree[r], r)'
             /\ backup' # NoTree => RowsAgree(backup.tree, backup.root)'
             /\ previous' # NoTree =>
                  RowsAgree(previous, doing.root)' /\ ErrorsExcused(previous, doing.root)'
             /\ UnderWay'
  BY DEF ExportsInv
<1>2. /\ \A r \in Roots : tree[r] # NoTree =>
           /\ RowsAgree(tree[r], r)
           /\ \A e \in Directory!ExportErrors(tree[r], r) : Excused(e, r)
      /\ backup # NoTree => RowsAgree(backup.tree, backup.root)
      /\ previous # NoTree =>
           /\ RowsAgree(previous, doing.root)
           /\ \A e \in Directory!ExportErrors(previous, doing.root) : Excused(e, doing.root)
  BY <1>1, ExportsBefore
<1>3. ASSUME NEW r \in Roots, tree'[r] # NoTree
      PROVE  RowsAgree(tree[r], r)' /\ ErrorsExcused(tree[r], r)'
  <2>1. CASE tree[r] # NoTree /\ SameExports(tree[r], tree'[r])
    <3>1. \A u : SameExports(tree[r], u) => RowsAgree(u, r)' /\ ErrorsExcused(u, r)'
      BY <1>2, <2>1, SameExportsAgree
    <3>. QED BY <2>1, <3>1 DEF RowsAgree, ErrorsExcused, Excused, Deleting,
                Directory!ExportErrors
  <2>2. CASE tree'[r].exports = {} /\ tree'[r].tombstones = {}
    BY <2>2 DEF RowsAgree, ErrorsExcused, Directory!ExportErrors
  <2>. QED BY <1>3, <2>1, <2>2
<1>4. backup' # NoTree => RowsAgree(backup.tree, backup.root)'
  BY <1>2 DEF RowsAgree
<1>5. previous' # NoTree =>
        RowsAgree(previous, doing.root)' /\ ErrorsExcused(previous, doing.root)'
  BY <1>2 DEF RowsAgree, ErrorsExcused, Excused, Directory!ExportErrors
<1>6. UnderWay'
  BY DEF UnderWay
<1>. QED BY <1>3, <1>4, <1>5, <1>6

\* An operation on the exports of one directory.  What holds at the other
\* places goes on to hold when what is rewritten stays rewritten.
LEMMA ExportsChange ==
  ASSUME Directory!ConstantsAssumption, PlacesInv, ExportsInv, stops = 0,
         doing # Idle => doing.kind \in {"export", "delete"} /\ doing.export \in Directory!Rows,
         NEW r \in Roots, doing # Idle => doing.root = r,
         NEW u, tree' = [tree EXCEPT ![r] = u],
         UNCHANGED <<previous, backup>>, rewritten \subseteq rewritten',
         RowsAgree(u, r)', ErrorsExcused(u, r)', UnderWay'
  PROVE  ExportsInv'
<1>1. previous = NoTree
  BY DEF PlacesInv, RestoreInv
<1>2. /\ \A q \in Roots \ {r} : tree'[q] = tree[q]
      /\ tree'[r] = u
  BY DEF PlacesInv, Directory!TypeOK
<1>3. RowsAgree(tree[r], r)' /\ ErrorsExcused(tree[r], r)'
  BY <1>2 DEF RowsAgree, ErrorsExcused, Excused, Deleting, Directory!ExportErrors
<1>4. ASSUME NEW q \in Roots \ {r}, tree'[q] # NoTree
      PROVE  RowsAgree(tree[q], q)' /\ ErrorsExcused(tree[q], q)'
  <2>1. tree[q] # NoTree /\ tree'[q] = tree[q]
    BY <1>2, <1>4
  <2>2. RowsAgree(tree[q], q) /\ ErrorsExcused(tree[q], q) /\ UnderWay
    BY <2>1 DEF ExportsInv
  <2>3. RowsAgree(tree[q], q)'
    BY <2>1, <2>2 DEF RowsAgree
  <2>4. \A e \in Directory!ExportErrors(tree[q], q) : Excused(e, q)
    BY <2>2 DEF ErrorsExcused, Excused, Deleting, UnderWay
  <2>5. ErrorsExcused(tree[q], q)'
    BY <2>1, <2>4 DEF ErrorsExcused, Excused, Directory!ExportErrors
  <2>. QED BY <2>3, <2>5
<1>5. backup' # NoTree => RowsAgree(backup.tree, backup.root)'
  BY DEF ExportsInv, RowsAgree
<1>. QED BY <1>1, <1>3, <1>4, <1>5 DEF ExportsInv

\* Creating and opening, retention, and the ends of backup and restore.
LEMMA OpeningKeepsExports ==
  ASSUME Directory!ConstantsAssumption, PlacesInv, ExportsInv,
         \/ Directory!OpenManifest \/ Directory!OpenTables
         \/ Directory!StampVersion \/ Directory!OpenMetadata
  PROVE  ExportsInv'
<1>1. PICK u : Opened(tree[doing.root], u) /\ tree' = [tree EXCEPT ![doing.root] = u]
  BY ManifestKeepsPlaces, TablesKeepPlaces, StampKeepsPlaces, MetadataKeepsPlaces
<1>2. PICK step \in {"manifest", "tables", "stamp", "metadata"} :
        Directory!At({"open", "restore"}, step)
  BY DEF Directory!OpenManifest, Directory!OpenTables, Directory!StampVersion,
     Directory!OpenMetadata, Directory!Opening
<1>3. /\ UNCHANGED <<previous, backup, rewritten, stops>>
      /\ \/ doing' = Idle
         \/ \E next \in {"tables", "stamp", "metadata", "verify"} : Directory!Step(next)
  <2>1. CASE Directory!OpenManifest \/ Directory!StampVersion
    BY <2>1 DEF Directory!OpenManifest, Directory!StampVersion, Directory!moved,
       Directory!exportVars
  <2>2. CASE Directory!OpenTables
    <3>1. tree[doing.root].tables \in {"none", "unversioned", "ready"}
      <4>1. Directory!At({"open", "restore"}, "tables")
        BY <2>2 DEF Directory!OpenTables, Directory!Opening
      <4>. QED BY <4>1, OpeningAt DEF Directory!Trees
    <3>. QED
      BY <2>2, <3>1 DEF Directory!OpenTables, Directory!End, Directory!moved,
         Directory!exportVars
  <2>3. CASE Directory!OpenMetadata
    BY <2>3 DEF Directory!OpenMetadata, Directory!End, Directory!moved,
       Directory!exportVars
  <2>. QED BY <2>1, <2>2, <2>3
<1>4. /\ doing # Idle /\ doing.kind \in {"open", "restore"} /\ doing.root \in Roots
      /\ previous = NoTree /\ tree[doing.root] \in Directory!Trees
  BY <1>2, OpeningAt
<1>5. doing' # Idle => doing'.kind = doing.kind
  <2>1. {"tables", "stamp", "metadata", "verify"} \subseteq Directory!Steps
    BY DEF Directory!Steps
  <2>. QED BY <1>3, <1>4, <2>1, OperationMoves
<1>6. SameExports(tree[doing.root], u)
  BY <1>1 DEF Opened, SameExports
<1>7. /\ tree'[doing.root] = u /\ tree[doing.root] # NoTree
      /\ \A q \in Roots \ {doing.root} : tree'[q] = tree[q]
  BY <1>1, <1>4, Places DEF PlacesInv, Directory!TypeOK
<1>8. \A q \in Roots : tree'[q] # NoTree =>
        tree[q] # NoTree /\ SameExports(tree[q], tree'[q])
  BY <1>6, <1>7 DEF SameExports
<1>. QED BY <1>3, <1>4, <1>5, <1>8, ExportsUntouched

LEMMA CreatingKeepsExports ==
  ASSUME Directory!ConstantsAssumption, PlacesInv, ExportsInv, NEW r \in Roots,
         Directory!BeginOpen(r)
  PROVE  ExportsInv'
<1> DEFINE t == IF tree[r] = NoTree THEN Directory!EmptyTree ELSE tree[r]
<1>1. /\ doing = Idle /\ tree' = [tree EXCEPT ![r] = t] /\ doing'.kind = "open"
      /\ UNCHANGED <<previous, backup, rewritten, stops>>
  BY DEF Directory!BeginOpen, Directory!moved, Directory!exportVars
<1>2. previous = NoTree
  BY <1>1 DEF PlacesInv, RestoreInv
<1>3. tree'[r] = t /\ \A q \in Roots \ {r} : tree'[q] = tree[q]
  BY <1>1 DEF PlacesInv, Directory!TypeOK
<1>4. tree[r] = NoTree => t.exports = {} /\ t.tombstones = {}
  BY DEF Directory!EmptyTree
<1>5. \A q \in Roots : tree'[q] # NoTree =>
        \/ tree[q] # NoTree /\ SameExports(tree[q], tree'[q])
        \/ tree'[q].exports = {} /\ tree'[q].tombstones = {}
  BY <1>3, <1>4 DEF SameExports
<1>. QED BY <1>1, <1>2, <1>5, ExportsUntouched

LEMMA RetentionKeepsExports ==
  ASSUME Directory!ConstantsAssumption, PlacesInv, ExportsInv,
         NEW r \in Roots, NEW e \in Directory!Rows, NEW retention \in Directory!Retentions,
         Directory!RetainExport(r, e, retention)
  PROVE  ExportsInv'
<1> DEFINE t == tree[r]
           kept == [t.retention EXCEPT ![e.id] = retention]
           u == [t EXCEPT !.retention = kept]
<1>1. /\ doing = Idle /\ Directory!Open(r) /\ doing' = doing
      /\ tree' = [tree EXCEPT ![r] = u]
      /\ UNCHANGED <<previous, backup, rewritten, stops>>
  BY DEF Directory!RetainExport, Directory!moved, Directory!exportVars
<1>2. t \in Directory!Trees /\ t # NoTree
  BY <1>1, OpenThere
<1> HIDE DEF kept
<1>3. SameExports(t, u)
  BY <1>2 DEF Directory!Trees, SameExports
<1> HIDE DEF u
<1>4. tree'[r] = u /\ \A q \in Roots \ {r} : tree'[q] = tree[q]
  BY <1>1 DEF PlacesInv, Directory!TypeOK
<1>5. \A q \in Roots : tree'[q] # NoTree =>
        tree[q] # NoTree /\ SameExports(tree[q], tree'[q])
  BY <1>2, <1>3, <1>4 DEF SameExports
<1>. QED BY <1>1, <1>5, ExportsUntouched

LEMMA RestKeepsExports ==
  ASSUME Directory!ConstantsAssumption, PlacesInv, ExportsInv,
         \/ \E r \in Roots : Directory!BeginRestore(r)
         \/ Directory!RemovePrevious \/ Directory!VerifyRestored
         \/ Directory!Stop \/ Directory!Upgrade
  PROVE  ExportsInv'
<1>0. \A q \in Roots : tree' = tree /\ tree'[q] # NoTree =>
        tree[q] # NoTree /\ SameExports(tree[q], tree'[q])
  BY DEF SameExports
<1>1. CASE \E r \in Roots : Directory!BeginRestore(r)
  <2>1. /\ doing = Idle /\ doing'.kind = "restore"
        /\ UNCHANGED <<tree, previous, backup, rewritten, stops>>
    BY <1>1 DEF Directory!BeginRestore, Directory!moved, Directory!exportVars
  <2>2. previous = NoTree
    BY <2>1 DEF PlacesInv, RestoreInv
  <2>. QED BY <1>0, <2>1, <2>2, ExportsUntouched
<1>2. CASE Directory!RemovePrevious
  <2>1. /\ doing # Idle /\ doing.kind = "restore" /\ Directory!Step("manifest")
        /\ previous' = NoTree /\ UNCHANGED <<tree, backup, rewritten, stops>>
    BY <1>2 DEF Directory!RemovePrevious, Directory!At, Directory!exportVars
  <2>2. doing'.kind = "restore"
    BY <2>1, OperationMoves DEF Directory!Steps
  <2>. QED BY <1>0, <2>1, <2>2, ExportsUntouched
<1>3. CASE Directory!VerifyRestored
  <2>1. /\ doing # Idle /\ doing.kind = "restore" /\ doing.step = "verify" /\ doing' = Idle
        /\ UNCHANGED <<tree, previous, backup, rewritten, stops>>
    BY <1>3 DEF Directory!VerifyRestored, Directory!At, Directory!End, Directory!moved,
       Directory!exportVars
  <2>2. previous = NoTree
    BY <2>1 DEF PlacesInv, RestoreInv
  <2>. QED BY <1>0, <2>1, <2>2, ExportsUntouched
<1>4. CASE Directory!Stop
  <2>1. stops' = stops + 1
    BY <1>4 DEF Directory!Stop
  <2>2. stops' # 0
    BY <2>1 DEF PlacesInv, Directory!TypeOK, Directory!ConstantsAssumption
  <2>. QED BY <2>2 DEF ExportsInv
<1>5. CASE Directory!Upgrade
  <2>1. /\ doing = Idle /\ UNCHANGED <<tree, previous, backup, doing, rewritten, stops>>
    BY <1>5 DEF Directory!Upgrade, Directory!moved, Directory!exportVars
  <2>2. previous = NoTree
    BY <2>1 DEF PlacesInv, RestoreInv
  <2>. QED BY <1>0, <2>1, <2>2, ExportsUntouched
<1>. QED BY <1>1, <1>2, <1>3, <1>4, <1>5

\* What was verified is what is kept in the backup.
LEMMA BackUpKeepsExports ==
  ASSUME Directory!ConstantsAssumption, PlacesInv, ExportsInv, NEW r \in Roots,
         Directory!BackUp(r)
  PROVE  ExportsInv'
<1> DEFINE b == [root |-> r, tree |-> tree[r]]
<1>1. /\ doing = Idle /\ Directory!Open(r) /\ backup' = b
      /\ UNCHANGED <<tree, previous, doing, rewritten, stops>>
  BY DEF Directory!BackUp, Directory!moved, Directory!exportVars
<1>2. tree[r] # NoTree /\ b.root = r /\ b.tree = tree[r]
  BY <1>1, OpenThere
<1> HIDE DEF b
<1>3. previous = NoTree
  BY <1>1 DEF PlacesInv, RestoreInv
<1>4. SUFFICES ASSUME stops = 0
      PROVE  /\ \A q \in Roots : tree'[q] # NoTree =>
                  RowsAgree(tree[q], q)' /\ ErrorsExcused(tree[q], q)'
             /\ RowsAgree(backup.tree, backup.root)'
             /\ UnderWay'
  BY <1>1, <1>3 DEF ExportsInv
<1>5. \A q \in Roots : tree[q] # NoTree =>
        RowsAgree(tree[q], q) /\ ErrorsExcused(tree[q], q)
  BY <1>4 DEF ExportsInv
<1>6. \A q \in Roots : tree'[q] # NoTree =>
        RowsAgree(tree[q], q)' /\ ErrorsExcused(tree[q], q)'
  BY <1>1, <1>5 DEF RowsAgree, ErrorsExcused, Excused, Deleting, Directory!ExportErrors
<1>7. RowsAgree(backup.tree, backup.root)'
  BY <1>1, <1>2, <1>5 DEF RowsAgree
<1>8. UnderWay'
  BY <1>1 DEF UnderWay
<1>. QED BY <1>6, <1>7, <1>8

\* The steps that replace a directory.
LEMMA MovesKeepExports ==
  ASSUME Directory!ConstantsAssumption, PlacesInv, ExportsInv,
         Directory!MoveAside \/ Directory!MoveIn \/ Directory!MoveBack
  PROVE  ExportsInv'
<1> DEFINE r == doing.root
<1>1. /\ doing # Idle /\ doing.kind = "restore" /\ doing.step \in {"aside", "in"}
      /\ UNCHANGED <<backup, rewritten, stops>>
  BY DEF Directory!MoveAside, Directory!MoveIn, Directory!MoveBack, Directory!At,
     Directory!moved, Directory!exportVars
<1>2. r \in Roots /\ backup # NoTree
  BY <1>1, Places DEF PlacesInv, RestoreInv
<1>3. doing' # Idle => doing'.kind = "restore" /\ doing'.root = r
  <2>1. doing' = Idle \/ Directory!Step("in") \/ Directory!Step("remove")
    BY DEF Directory!MoveAside, Directory!MoveIn, Directory!MoveBack, Directory!End
  <2>. QED BY <1>1, <2>1, OperationMoves DEF Directory!Steps
<1>4. SUFFICES ASSUME stops = 0
      PROVE  /\ \A q \in Roots : tree'[q] # NoTree =>
                  RowsAgree(tree[q], q)' /\ ErrorsExcused(tree[q], q)'
             /\ backup' # NoTree => RowsAgree(backup.tree, backup.root)'
             /\ previous' # NoTree =>
                  RowsAgree(previous, doing.root)' /\ ErrorsExcused(previous, doing.root)'
             /\ UnderWay'
  BY <1>1 DEF ExportsInv
<1>5. /\ \A q \in Roots : tree[q] # NoTree =>
           /\ RowsAgree(tree[q], q)
           /\ \A e \in Directory!ExportErrors(tree[q], q) : Excused(e, q)
      /\ RowsAgree(backup.tree, backup.root)
      /\ previous # NoTree =>
           /\ RowsAgree(previous, r)
           /\ \A e \in Directory!ExportErrors(previous, r) : Excused(e, r)
  BY <1>1, <1>2, <1>4, ExportsBefore
<1>6. UnderWay' /\ RowsAgree(backup.tree, backup.root)'
  BY <1>1, <1>3, <1>5 DEF UnderWay, RowsAgree
<1>7. ASSUME NEW q \in Roots, tree[q] # NoTree, tree'[q] = tree[q]
      PROVE  RowsAgree(tree[q], q)' /\ ErrorsExcused(tree[q], q)'
  BY <1>1, <1>5, <1>7 DEF RowsAgree, ErrorsExcused, Excused, Directory!ExportErrors
<1>8. CASE Directory!MoveAside
  <2>1. /\ previous' = tree[r] /\ tree' = [tree EXCEPT ![r] = NoTree]
        /\ Directory!Step("in")
    BY <1>8 DEF Directory!MoveAside
  <2>2. doing'.root = r
    BY <1>1, <2>1, OperationMoves DEF Directory!Steps
  <2>3. tree'[r] = NoTree /\ \A q \in Roots \ {r} : tree'[q] = tree[q]
    BY <2>1, <1>2 DEF PlacesInv, Directory!TypeOK
  <2>4. previous' # NoTree =>
          RowsAgree(previous, doing.root)' /\ ErrorsExcused(previous, doing.root)'
    BY <1>1, <1>2, <1>5, <2>1, <2>2 DEF RowsAgree, ErrorsExcused, Excused,
       Directory!ExportErrors
  <2>. QED BY <1>6, <1>7, <2>3, <2>4
<1>9. CASE Directory!MoveIn
  <2> DEFINE t == backup.tree
  <2>1. /\ tree' = [tree EXCEPT ![r] = t] /\ previous' = previous
        /\ Directory!Step("remove")
    BY <1>9 DEF Directory!MoveIn, Directory!moved
  <2>2. doing'.root = r
    BY <1>1, <2>1, OperationMoves DEF Directory!Steps
  <2>3. tree'[r] = t /\ \A q \in Roots \ {r} : tree'[q] = tree[q]
    BY <2>1, <1>2 DEF PlacesInv, Directory!TypeOK
  <2>4. Directory!ExportErrors(t, backup.root) = {}
    BY <1>2 DEF PlacesInv, RestoreInv, Directory!Healthy
  <2>5. \A e \in t.exports : e.path # Outside /\ e.path.root = backup.root
    BY <2>4 DEF Directory!ExportErrors
  <2>6. RowsAgree(t, r)
    BY <1>5, <2>5 DEF RowsAgree
  <2>7. \A e \in Directory!ExportErrors(t, r) : Excused(e, r)
    BY <2>4, <2>5 DEF Directory!ExportErrors, Excused
  <2>8. \A q \in Roots : q = r => RowsAgree(tree[q], q)' /\ ErrorsExcused(tree[q], q)'
    BY <1>1, <2>3, <2>6, <2>7 DEF RowsAgree, ErrorsExcused, Excused, Directory!ExportErrors
  <2>9. previous' # NoTree =>
          RowsAgree(previous, doing.root)' /\ ErrorsExcused(previous, doing.root)'
    BY <1>1, <1>5, <2>1, <2>2 DEF RowsAgree, ErrorsExcused, Excused,
       Directory!ExportErrors
  <2>10. \A q \in Roots : tree'[q] # NoTree =>
           RowsAgree(tree[q], q)' /\ ErrorsExcused(tree[q], q)'
    BY <1>7, <2>3, <2>8
  <2>. QED BY <1>6, <2>9, <2>10
<1>10. CASE Directory!MoveBack
  <2>1. tree' = [tree EXCEPT ![r] = previous] /\ previous' = NoTree
    BY <1>10 DEF Directory!MoveBack
  <2>2. tree'[r] = previous /\ \A q \in Roots \ {r} : tree'[q] = tree[q]
    BY <2>1, <1>2 DEF PlacesInv, Directory!TypeOK
  <2>3. previous # NoTree =>
          \A q \in Roots : q = r => RowsAgree(tree[q], q)' /\ ErrorsExcused(tree[q], q)'
    BY <1>1, <1>5, <2>2 DEF RowsAgree, ErrorsExcused, Excused, Directory!ExportErrors
  <2>4. \A q \in Roots : tree'[q] # NoTree =>
          RowsAgree(tree[q], q)' /\ ErrorsExcused(tree[q], q)'
    BY <1>7, <2>2, <2>3
  <2>. QED BY <1>6, <2>1, <2>4
<1>. QED BY <1>8, <1>9, <1>10

\* What is known of an open workspace when an operation on an export begins,
\* or of the one it runs in.
LEMMA ExportsHere ==
  ASSUME Directory!ConstantsAssumption, PlacesInv, ExportsInv, stops = 0,
         NEW r \in Roots, tree[r] # NoTree
  PROVE  /\ tree[r].exports \subseteq Directory!Rows
         /\ \A e \in tree[r].exports : e.path \in Directory!Paths
         /\ tree[r].files \in [ExportNames -> ExportContents \union {NoFile}]
         /\ tree[r].tombstones \subseteq Directory!ExportIds
         /\ RowsAgree(tree[r], r) /\ ErrorsExcused(tree[r], r)
<1>1. tree[r] \in Directory!Trees
  BY Places
<1>. QED BY <1>1 DEF Directory!Trees, Directory!Rows, ExportsInv

\* Writing an export changes no file of another path.
LEMMA WritingKeepsExports ==
  ASSUME Directory!ConstantsAssumption, PlacesInv, ExportsInv,
         NEW r \in Roots, NEW path \in Directory!Paths, NEW content \in ExportContents,
         NEW id \in Directory!ExportIds, Directory!WriteExport(r, path, content, id)
  PROVE  ExportsInv'
<1> DEFINE x == [id |-> id, path |-> path, content |-> content]
           d == [kind |-> "export", root |-> r, step |-> "row", export |-> x]
<1>1. /\ doing = Idle /\ Directory!Open(r) /\ path \in Directory!PathsBelow(r)
      /\ doing' = d
      /\ UNCHANGED <<previous, aside, backup, installed, created, stops>>
  BY DEF Directory!WriteExport, Directory!moved
<1>2. SUFFICES ASSUME stops = 0 PROVE ExportsInv'
  BY <1>1 DEF ExportsInv
<1>3. tree[r] \in Directory!Trees /\ tree[r] # NoTree
  BY <1>1, OpenThere
<1>4. PICK t : t = tree[r]
  OBVIOUS
<1>5. /\ \A e \in t.exports : e.path \in Directory!Paths
      /\ t.files \in [ExportNames -> ExportContents \union {NoFile}]
      /\ RowsAgree(t, r) /\ \A e \in Directory!ExportErrors(t, r) : Excused(e, r)
  BY <1>1, <1>2, <1>3, <1>4, ExportsHere, NothingDeleted
<1>6. doing'.kind = "export" /\ doing'.root = r /\ doing'.export = x /\ doing' # Idle
  <2>1. x \in Directory!Rows
    BY DEF Directory!Rows
  <2> HIDE DEF x
  <2>2. d \in Directory!Operations
    BY <2>1 DEF Directory!Operations, Directory!Steps
  <2>. QED BY <1>1, <2>2, Places
<1>7. x.path = path /\ x.content = content
  OBVIOUS
<1> HIDE DEF x, d
<1>8. CASE path = Outside
  <2>1. tree' = tree /\ rewritten' = rewritten
    BY <1>8 DEF Directory!WriteExport
  <2>2. tree' = [tree EXCEPT ![r] = t]
    BY <1>4, <2>1 DEF PlacesInv, Directory!TypeOK
  <2>3. RowsAgree(t, r)' /\ ErrorsExcused(t, r)'
    BY <1>5, <2>1 DEF RowsAgree, ErrorsExcused, Excused, Directory!ExportErrors
  <2>4. UnderWay'
    BY <1>6, <1>7, <1>8 DEF UnderWay
  <2>. QED BY <1>1, <1>2, <2>1, <2>2, <2>3, <2>4, ExportsChange
<1>9. CASE path # Outside
  <2>1. path.root = r /\ path.name \in ExportNames
    BY <1>1, <1>9, PathsOf DEF Directory!PathsBelow
  <2>2. PICK files : files = [t.files EXCEPT ![path.name] = content]
    OBVIOUS
  <2>3. PICK u : u = [t EXCEPT !.files = files]
    OBVIOUS
  <2>4. /\ u.exports = t.exports /\ u.tombstones = t.tombstones /\ u.files = files
    BY <1>3, <1>4, <2>3 DEF Directory!Trees
  <2>5. files[path.name] = content
        /\ \A n \in ExportNames \ {path.name} : files[n] = t.files[n]
    BY <1>5, <2>1, <2>2
  <2>6. tree' = [tree EXCEPT ![r] = u]
    BY <1>4, <1>9, <2>2, <2>3 DEF Directory!WriteExport
  <2>7. /\ rewritten \subseteq rewritten'
        /\ (\E e \in t.exports : e.path = path) => <<r, path.name>> \in rewritten'
    BY <1>4, <1>9 DEF Directory!WriteExport
  <2>8. RowsAgree(u, r)'
    BY <1>5, <2>4, <2>7 DEF RowsAgree
  <2>9. ASSUME NEW e \in Directory!ExportErrors(u, r)
        PROVE  Excused(e, r)'
    <3>1. e \in t.exports /\ e.path \in Directory!Paths
      BY <1>5, <2>4 DEF Directory!ExportErrors
    <3>2. CASE e.path = Outside \/ e.path.root # r
      BY <3>2 DEF Excused
    <3>3. CASE e.path # Outside /\ e.path.root = r /\ e.path.name = path.name
      <4>1. e.path = path
        BY <1>9, <2>1, <3>1, <3>3, PathsOf
      <4>. QED BY <2>7, <3>1, <4>1 DEF Excused
    <3>4. CASE e.path # Outside /\ e.path.root = r /\ e.path.name # path.name
      <4>1. e.path.name \in ExportNames
        BY <3>1, <3>4, PathsOf
      <4>2. u.files[e.path.name] = t.files[e.path.name]
        BY <2>4, <2>5, <3>4, <4>1
      <4>3. e \in Directory!ExportErrors(t, r)
        BY <2>4, <2>9, <3>1, <4>2 DEF Directory!ExportErrors
      <4>. QED BY <1>5, <2>7, <4>3 DEF Excused
    <3>. QED BY <3>2, <3>3, <3>4
  <2>10. ErrorsExcused(u, r)'
    BY <2>9 DEF ErrorsExcused, Directory!ExportErrors
  <2>11. tree'[r] = u
    BY <2>6 DEF PlacesInv, Directory!TypeOK
  <2>12. UnderWay'
    BY <1>6, <1>7, <2>1, <2>4, <2>5, <2>7, <2>11 DEF UnderWay
  <2>. QED BY <1>1, <1>2, <2>6, <2>7, <2>8, <2>10, <2>12, ExportsChange
<1>. QED BY <1>8, <1>9

\* The row of an export agrees with the file that was written before it.
LEMMA RecordingKeepsExports ==
  ASSUME Directory!ConstantsAssumption, PlacesInv, ExportsInv, Directory!RecordExport
  PROVE  ExportsInv'
<1>1. PICK r, t, x : r = doing.root /\ t = tree[r] /\ x = doing.export
  OBVIOUS
<1> DEFINE known == \E e \in t.exports : e.id = x.id
           rows == IF known THEN t.exports ELSE t.exports \union {x}
<1>2. /\ doing # Idle /\ doing.kind = "export" /\ doing.step = "row" /\ doing' = Idle
      /\ tree' = [tree EXCEPT ![r] = [t EXCEPT !.exports = rows]]
      /\ UNCHANGED <<previous, aside, backup, installed, created, numbered, rewritten, stops>>
  BY <1>1 DEF Directory!RecordExport, Directory!At, Directory!End, Directory!moved,
     Directory!exportVars
<1>3. r \in Roots /\ t \in Directory!Trees /\ t # NoTree /\ x \in Directory!Rows
  BY <1>1, <1>2, ExportThere, Places
<1>4. SUFFICES ASSUME stops = 0 PROVE ExportsInv'
  BY <1>2 DEF ExportsInv
<1>5. /\ RowsAgree(t, r) /\ \A e \in Directory!ExportErrors(t, r) : Excused(e, r)
  BY <1>1, <1>2, <1>3, <1>4, ExportsHere, NothingDeleted
<1>6. \/ x.path = Outside
      \/ /\ x.path.root = r /\ t.files[x.path.name] = x.content
         /\ (\E e \in t.exports : e.path = x.path) => <<r, x.path.name>> \in rewritten
  BY <1>1, <1>2, <1>4 DEF ExportsInv, UnderWay
<1>7. PICK u : u = [t EXCEPT !.exports = rows]
  OBVIOUS
<1>8. /\ u.exports = rows /\ u.tombstones = t.tombstones /\ u.files = t.files
  BY <1>3, <1>7 DEF Directory!Trees
<1>9. UnderWay'
  BY <1>2 DEF UnderWay
<1>10. RowsAgree(u, r)' /\ ErrorsExcused(u, r)'
  <2>1. CASE known
    BY <1>2, <1>5, <1>8, <2>1 DEF RowsAgree, ErrorsExcused, Excused, Directory!ExportErrors
  <2>2. CASE ~known
    <3>1. u.exports = t.exports \union {x}
      BY <1>8, <2>2
    <3>2. \A e \in t.exports : e.id # x.id
      BY <2>2
    <3>3. x.id \notin t.tombstones
      BY <1>5, <3>2 DEF RowsAgree
    <3> HIDE DEF known, rows
    <3>4. RowsAgree(u, r)
      <4>1. \A e, f \in u.exports : e.id = f.id => e = f
        BY <1>5, <3>1, <3>2 DEF RowsAgree
      <4>2. \A e, f \in u.exports :
              e.path = f.path /\ e.path # Outside /\ e.path.root = r =>
                e = f \/ <<r, e.path.name>> \in rewritten
        BY <1>5, <1>6, <3>1 DEF RowsAgree
      <4>3. \A id \in u.tombstones : \E e \in u.exports : e.id = id
        BY <1>5, <1>8, <3>1 DEF RowsAgree
      <4>. QED BY <4>1, <4>2, <4>3 DEF RowsAgree
    <3>5. \A e \in Directory!ExportErrors(u, r) : Excused(e, r)
      <4>1. TAKE e \in Directory!ExportErrors(u, r)
      <4>2. CASE e \in t.exports
        <5>1. e \in Directory!ExportErrors(t, r)
          BY <1>8, <4>2 DEF Directory!ExportErrors
        <5>. QED BY <1>5, <5>1
      <4>3. CASE e = x
        BY <1>6, <1>8, <3>3, <4>3 DEF Excused, Directory!ExportErrors
      <4>4. e \in t.exports \/ e = x
        BY <3>1 DEF Directory!ExportErrors
      <4>. QED BY <4>2, <4>3, <4>4
    <3>. QED BY <1>2, <3>4, <3>5 DEF RowsAgree, ErrorsExcused, Excused,
                Directory!ExportErrors
  <2>. QED BY <2>1, <2>2
<1>. QED BY <1>1, <1>2, <1>3, <1>4, <1>7, <1>9, <1>10, ExportsChange

\* Only the export that is being deleted loses its file.
LEMMA UnlinkingKeepsExports ==
  ASSUME Directory!ConstantsAssumption, PlacesInv, ExportsInv,
         NEW r \in Roots, NEW x \in Directory!Rows, Directory!UnlinkExport(r, x)
  PROVE  ExportsInv'
<1> DEFINE d == [kind |-> "delete", root |-> r, step |-> "tombstone", export |-> x]
<1>1. PICK t : t = tree[r]
  OBVIOUS
<1>2. /\ doing = Idle /\ Directory!Open(r) /\ doing' = d
      /\ x \in t.exports /\ x.path # Outside /\ x.path.root = r
      /\ tree' = [tree EXCEPT ![r].files[x.path.name] = NoFile]
      /\ UNCHANGED <<previous, aside, backup, installed, created, numbered, rewritten, stops>>
  BY <1>1 DEF Directory!UnlinkExport, Directory!moved, Directory!exportVars
<1>3. SUFFICES ASSUME stops = 0 PROVE ExportsInv'
  BY <1>2 DEF ExportsInv
<1>4. t \in Directory!Trees /\ t # NoTree
  BY <1>1, <1>2, OpenThere
<1>5. /\ \A e \in t.exports : e.path \in Directory!Paths
      /\ t.files \in [ExportNames -> ExportContents \union {NoFile}]
      /\ RowsAgree(t, r) /\ \A e \in Directory!ExportErrors(t, r) : Excused(e, r)
  BY <1>1, <1>2, <1>3, <1>4, ExportsHere, NothingDeleted
<1>6. doing'.kind = "delete" /\ doing'.root = r /\ doing'.export = x /\ doing' # Idle
  <2>1. d \in Directory!Operations
    BY DEF Directory!Operations, Directory!Steps
  <2>. QED BY <1>2, <2>1, Places
<1> HIDE DEF d
<1>7. PICK files : files = [t.files EXCEPT ![x.path.name] = NoFile]
  OBVIOUS
<1>8. PICK u : u = [t EXCEPT !.files = files]
  OBVIOUS
<1>9. u.exports = t.exports /\ u.tombstones = t.tombstones /\ u.files = files
  BY <1>4, <1>8 DEF Directory!Trees
<1>10. x.path.name \in ExportNames
  BY <1>2, <1>5, PathsOf
<1>11. files[x.path.name] = NoFile
       /\ \A n \in ExportNames \ {x.path.name} : files[n] = t.files[n]
  BY <1>5, <1>7, <1>10
<1>12. tree' = [tree EXCEPT ![r] = u]
  BY <1>1, <1>2, <1>7, <1>8
<1>13. RowsAgree(u, r)'
  BY <1>2, <1>5, <1>9 DEF RowsAgree
<1>14. ASSUME NEW e \in Directory!ExportErrors(u, r)
       PROVE  Excused(e, r) \/ e = x
  <2>1. e \in t.exports /\ e.path \in Directory!Paths
    BY <1>5, <1>9 DEF Directory!ExportErrors
  <2>2. CASE e.path = Outside \/ e.path.root # r
    BY <2>2 DEF Excused
  <2>3. CASE e.path # Outside /\ e.path.root = r /\ e.path.name = x.path.name
    <3>1. e.path = x.path
      BY <1>2, <1>5, <2>1, <2>3, PathsOf
    <3>. QED BY <1>2, <1>5, <2>1, <2>3, <3>1 DEF RowsAgree, Excused
  <2>4. CASE e.path # Outside /\ e.path.root = r /\ e.path.name # x.path.name
    <3>1. e.path.name \in ExportNames
      BY <2>1, <2>4, PathsOf
    <3>2. u.files[e.path.name] = t.files[e.path.name]
      BY <1>9, <1>11, <2>4, <3>1
    <3>3. e \in Directory!ExportErrors(t, r)
      BY <1>9, <1>14, <2>1, <3>2 DEF Directory!ExportErrors
    <3>. QED BY <1>5, <3>3
  <2>. QED BY <2>2, <2>3, <2>4
<1>15. ErrorsExcused(u, r)'
  BY <1>2, <1>6, <1>14 DEF ErrorsExcused, Excused, Deleting, Directory!ExportErrors
<1>16. tree'[r] = u
  BY <1>12 DEF PlacesInv, Directory!TypeOK
<1>17. UnderWay'
  BY <1>2, <1>6, <1>9, <1>11, <1>16 DEF UnderWay
<1>. QED BY <1>2, <1>3, <1>12, <1>13, <1>15, <1>17, ExportsChange

\* The tombstone is of the export whose file was unlinked.
LEMMA DeletionKeepsExports ==
  ASSUME Directory!ConstantsAssumption, PlacesInv, ExportsInv, Directory!RecordDeletion
  PROVE  ExportsInv'
<1>1. PICK r, t, x : r = doing.root /\ t = tree[r] /\ x = doing.export
  OBVIOUS
<1> DEFINE ids == t.tombstones \union {x.id}
<1>2. /\ doing # Idle /\ doing.kind = "delete" /\ doing.step = "tombstone" /\ doing' = Idle
      /\ tree' = [tree EXCEPT ![r] = [t EXCEPT !.tombstones = ids]]
      /\ UNCHANGED <<previous, aside, backup, installed, created, numbered, rewritten, stops>>
  BY <1>1 DEF Directory!RecordDeletion, Directory!At, Directory!End, Directory!moved,
     Directory!exportVars
<1>3. r \in Roots /\ t \in Directory!Trees /\ t # NoTree /\ x \in Directory!Rows
  BY <1>1, <1>2, ExportThere, Places
<1>4. SUFFICES ASSUME stops = 0 PROVE ExportsInv'
  BY <1>2 DEF ExportsInv
<1>5. RowsAgree(t, r) /\ ErrorsExcused(t, r)
  BY <1>1, <1>3, <1>4, ExportsHere
<1>6. /\ x \in t.exports /\ x.path # Outside /\ x.path.root = r
      /\ t.files[x.path.name] = NoFile
  BY <1>1, <1>2, <1>4 DEF ExportsInv, UnderWay
<1>7. PICK u : u = [t EXCEPT !.tombstones = ids]
  OBVIOUS
<1>8. u.exports = t.exports /\ u.tombstones = t.tombstones \union {x.id}
      /\ u.files = t.files
  BY <1>3, <1>7 DEF Directory!Trees
<1>9. RowsAgree(u, r)'
  BY <1>2, <1>5, <1>6, <1>8 DEF RowsAgree
<1>10. ASSUME NEW e \in Directory!ExportErrors(u, r)
       PROVE  Excused(e, r)
  <2>1. e \in t.exports
    BY <1>8 DEF Directory!ExportErrors
  <2>2. CASE e = x
    BY <1>6, <1>8, <1>10, <2>2 DEF Directory!ExportErrors
  <2>3. CASE e # x
    <3>1. e.id # x.id
      BY <1>5, <1>6, <2>1, <2>3 DEF RowsAgree
    <3>2. e \in Directory!ExportErrors(t, r)
      BY <1>8, <1>10, <2>1, <3>1 DEF Directory!ExportErrors
    <3>. QED BY <1>1, <1>5, <2>3, <3>2 DEF ErrorsExcused, Deleting
  <2>. QED BY <2>2, <2>3
<1>11. ErrorsExcused(u, r)'
  BY <1>2, <1>10 DEF ErrorsExcused, Excused, Directory!ExportErrors
<1>12. UnderWay'
  BY <1>2 DEF UnderWay
<1>. QED BY <1>1, <1>2, <1>3, <1>4, <1>7, <1>9, <1>11, <1>12, ExportsChange

LEMMA ExportsStep ==
  ASSUME Directory!ConstantsAssumption, PlacesInv, ExportsInv,
         [Directory!Next]_(Directory!treeVars)
  PROVE  ExportsInv'
<1>1. CASE UNCHANGED Directory!treeVars
  BY <1>1 DEF Directory!treeVars, ExportsInv, RowsAgree, ErrorsExcused, Excused, Deleting,
     UnderWay, Directory!ExportErrors
<1>2. CASE Directory!Next
  BY <1>2, CreatingKeepsExports, OpeningKeepsExports, RetentionKeepsExports,
     RestKeepsExports, BackUpKeepsExports, MovesKeepExports, WritingKeepsExports,
     RecordingKeepsExports, UnlinkingKeepsExports, DeletionKeepsExports,
     Zenon DEF Directory!Next
<1>. QED BY <1>1, <1>2

LEMMA DirectoryInvariance ==
  ASSUME Directory!ConstantsAssumption
  PROVE  Directory!Spec => [](PlacesInv /\ ExportsInv)
  BY DirectoryInit, PlacesStep, ExportsStep, PTL DEF Directory!Spec

\* Every reachable directory, backup and operation is well typed.
THEOREM DirectoryTypeCorrect ==
  ASSUME Directory!ConstantsAssumption
  PROVE  Directory!Spec => []Directory!TypeOK
<1>1. PlacesInv => Directory!TypeOK
  BY DEF PlacesInv
<1>. QED BY DirectoryInvariance, <1>1, PTL

\* Wherever an operation stops, a metadata row names the manifest beside it;
\* a backup that is restored to its root verifies; and exports agree with
\* their rows and tombstones as long as none stopped half-way.
THEOREM RestoredTreesVerify ==
  ASSUME Directory!ConstantsAssumption
  PROVE  Directory!Spec => []TreesVerify
<1>1. ASSUME PlacesInv, ExportsInv PROVE TreesVerify
  <2>1. Directory!RestoredBackupVerifies
    <3>1. SUFFICES ASSUME Directory!At({"restore"}, "verify"), doing.root = backup.root
          PROVE  Directory!Healthy(tree[doing.root], doing.root)
      BY DEF Directory!RestoredBackupVerifies
    <3>2. doing # Idle /\ doing.kind = "restore" /\ doing.step = "verify"
      BY <3>1 DEF Directory!At
    <3>3. tree[doing.root] = backup.tree
          /\ Directory!Healthy(backup.tree, backup.root)
      BY <1>1, <3>2 DEF PlacesInv, RestoreInv
    <3>. QED BY <3>1, <3>3
  <2>2. Directory!RowNamesManifest
    <3>1. DOMAIN tree = Roots
      BY <1>1 DEF PlacesInv, Directory!TypeOK
    <3>. QED BY <1>1, <3>1 DEF PlacesInv, DirectoriesIdentified,
                Directory!RowNamesManifest, Directory!Workspaces
  <2>3. Directory!ExportsVerify
    <3>1. DOMAIN tree = Roots
      BY <1>1 DEF PlacesInv, Directory!TypeOK
    <3>. QED BY <1>1, <3>1 DEF ExportsInv, ErrorsExcused, Excused, Deleting,
                Directory!ExportsVerify, Directory!Workspaces
  <2>. QED BY <2>1, <2>2, <2>3 DEF TreesVerify
<1>. QED BY DirectoryInvariance, <1>1, PTL

\* A restore that fails or stops anywhere leaves the directory it replaces
\* where it was or beside it, until the restored one is in its place.
THEOREM RestoreLosesNoTree ==
  ASSUME Directory!ConstantsAssumption
  PROVE  Directory!Spec => NoTreeLost
<1> DEFINE Kept ==
      /\ \A r \in Directory!Workspaces :
           r \in Directory!Workspaces' \/ previous' = tree[r]
      /\ previous # NoTree /\ previous' # previous =>
           previous \in aside' \/ tree'[doing.root] \in {previous, backup.tree}
<1>1. ASSUME PlacesInv, PlacesInv', [Directory!Next]_(Directory!treeVars)
      PROVE  [Kept]_(Directory!treeVars)
  <2>1. SUFFICES ASSUME Directory!Next PROVE Kept
    BY <1>1
  <2>2. DOMAIN tree = Roots /\ DOMAIN tree' = Roots
    BY <1>1 DEF PlacesInv, Directory!TypeOK
  <2>3. DirectoriesKept => \A r \in Directory!Workspaces : r \in Directory!Workspaces'
    BY <2>2 DEF Directory!Workspaces, DirectoriesKept
  <2>4. ASSUME \/ \E r \in Roots :
                    \/ Directory!BeginOpen(r)
                    \/ \E path \in Directory!Paths, content \in ExportContents,
                          id \in Directory!ExportIds :
                         Directory!WriteExport(r, path, content, id)
                    \/ \E e \in Directory!Rows :
                         \/ Directory!UnlinkExport(r, e)
                         \/ \E retention \in Directory!Retentions :
                              Directory!RetainExport(r, e, retention)
               \/ Directory!OpenManifest \/ Directory!OpenTables
               \/ Directory!StampVersion \/ Directory!OpenMetadata
               \/ Directory!RecordExport \/ Directory!RecordDeletion
        PROVE  Kept
    <3>1. DirectoriesKept
      BY <1>1, <2>4, DirectoryCreated, WriteExportKeepsPlaces, UnlinkExportKeepsPlaces,
         RetainExportKeepsPlaces, ManifestKeepsPlaces, TablesKeepPlaces, StampKeepsPlaces,
         MetadataKeepsPlaces, RecordExportKeepsPlaces, RecordDeletionKeepsPlaces, Zenon
    <3>2. previous' = previous
      <4>1. ASSUME NEW r \in Roots, Directory!BeginOpen(r)
            PROVE  previous' = previous
        BY <4>1, Zenon DEF Directory!BeginOpen, Directory!moved
      <4>2. ASSUME NEW r \in Roots, NEW path, NEW content, NEW id,
                   Directory!WriteExport(r, path, content, id)
            PROVE  previous' = previous
        BY <4>2, Zenon DEF Directory!WriteExport, Directory!moved
      <4>3. ASSUME NEW r \in Roots, NEW e, Directory!UnlinkExport(r, e)
            PROVE  previous' = previous
        BY <4>3, Zenon DEF Directory!UnlinkExport, Directory!moved
      <4>4. ASSUME NEW r \in Roots, NEW e, NEW retention,
                   Directory!RetainExport(r, e, retention)
            PROVE  previous' = previous
        BY <4>4, Zenon DEF Directory!RetainExport, Directory!moved
      <4>5. Directory!OpenManifest \/ Directory!OpenTables => previous' = previous
        BY Zenon DEF Directory!OpenManifest, Directory!OpenTables, Directory!moved
      <4>6. Directory!StampVersion \/ Directory!OpenMetadata => previous' = previous
        BY Zenon DEF Directory!StampVersion, Directory!OpenMetadata, Directory!moved
      <4>7. Directory!RecordExport \/ Directory!RecordDeletion => previous' = previous
        BY Zenon DEF Directory!RecordExport, Directory!RecordDeletion, Directory!moved
      <4>. QED BY <2>4, <4>1, <4>2, <4>3, <4>4, <4>5, <4>6, <4>7, Zenon
    <3>. QED BY <2>3, <3>1, <3>2
  <2>5. ASSUME \E r \in Roots : Directory!BackUp(r) \/ Directory!BeginRestore(r)
        PROVE  Kept
    <3>1. tree' = tree /\ previous' = previous
      BY <2>5, Zenon DEF Directory!BackUp, Directory!BeginRestore, Directory!moved
    <3>. QED BY <3>1 DEF Directory!Workspaces
  <2>6. CASE Directory!MoveAside
    <3>1. /\ doing # Idle /\ doing.step = "aside" /\ previous' = tree[doing.root]
          /\ tree' = [tree EXCEPT ![doing.root] = NoTree]
      BY <2>6 DEF Directory!MoveAside, Directory!At
    <3>2. previous = NoTree
      BY <1>1, <3>1 DEF PlacesInv, RestoreInv
    <3>3. \A r \in Roots \ {doing.root} : tree'[r] = tree[r]
      BY <1>1, <3>1 DEF PlacesInv, Directory!TypeOK
    <3>. QED BY <2>2, <3>1, <3>2, <3>3 DEF Directory!Workspaces
  <2>7. CASE Directory!MoveIn
    <3>1. /\ doing # Idle /\ doing.kind = "restore" /\ previous' = previous
          /\ tree' = [tree EXCEPT ![doing.root] = backup.tree]
      BY <2>7 DEF Directory!MoveIn, Directory!At, Directory!moved
    <3>2. doing.root \in Roots /\ backup.tree # NoTree
      BY <1>1, <3>1, Places DEF PlacesInv, RestoreInv
    <3>3. /\ tree'[doing.root] = backup.tree
          /\ \A r \in Roots \ {doing.root} : tree'[r] = tree[r]
      BY <1>1, <3>1, <3>2 DEF PlacesInv, Directory!TypeOK
    <3>. QED BY <2>2, <3>1, <3>2, <3>3 DEF Directory!Workspaces
  <2>8. CASE Directory!MoveBack
    <3>1. /\ doing # Idle /\ doing.step = "in"
          /\ tree' = [tree EXCEPT ![doing.root] = previous]
      BY <2>8 DEF Directory!MoveBack, Directory!At
    <3>2. doing.root \in Roots /\ tree[doing.root] = NoTree
      BY <1>1, <3>1, Places DEF PlacesInv, OpeningInv
    <3>3. /\ tree'[doing.root] = previous
          /\ \A r \in Roots \ {doing.root} : tree'[r] = tree[r]
      BY <1>1, <3>1, <3>2 DEF PlacesInv, Directory!TypeOK
    <3>. QED BY <2>2, <3>2, <3>3 DEF Directory!Workspaces
  <2>9. CASE Directory!RemovePrevious
    <3>1. /\ doing # Idle /\ doing.kind = "restore" /\ doing.step = "remove" /\ tree' = tree
      BY <2>9 DEF Directory!RemovePrevious, Directory!At
    <3>2. tree[doing.root] = backup.tree
      BY <1>1, <3>1 DEF PlacesInv, RestoreInv
    <3>. QED BY <3>1, <3>2 DEF Directory!Workspaces
  <2>10. CASE Directory!VerifyRestored \/ Directory!Upgrade
    <3>1. tree' = tree /\ previous' = previous
      BY <2>10 DEF Directory!VerifyRestored, Directory!Upgrade, Directory!moved
    <3>. QED BY <3>1 DEF Directory!Workspaces
  <2>11. CASE Directory!Stop
    <3>1. tree' = tree /\ aside' = aside \union ({previous} \ {NoTree})
      BY <2>11 DEF Directory!Stop
    <3>. QED BY <3>1 DEF Directory!Workspaces
  <2> HIDE DEF Kept
  <2>. QED
    BY <2>1, <2>4, <2>5, <2>6, <2>7, <2>8, <2>9, <2>10, <2>11, Zenon DEF Directory!Next
<1>. QED BY DirectoryInvariance, <1>1, PTL DEF Directory!Spec, NoTreeLost, Directory!NoTreeLost

-----------------------------------------------------------------------------
(* Components with proofs of their own.                                    *)

ProvedReviewing == INSTANCE ReviewService_proofs
  WITH Keys <- PostKeys, Reports <- ReviewedReports, MaxCuts <- MaxAuditCuts

LEMMA SameReviewing ==
  /\ Reviewing!Init <=> ProvedReviewing!Init
  /\ [Reviewing!Next]_(Reviewing!serviceVars)
       <=> [ProvedReviewing!Next]_(ProvedReviewing!serviceVars)
<1>1. Reviewing!Init <=> ProvedReviewing!Init
  BY Zenon DEF Reviewing!Init, ProvedReviewing!Init, Reviewing!EmptyFile,
     ProvedReviewing!EmptyFile
<1>2. [Reviewing!Next]_(Reviewing!serviceVars)
       <=> [ProvedReviewing!Next]_(ProvedReviewing!serviceVars)
  BY Zenon DEF Reviewing!serviceVars, ProvedReviewing!serviceVars,
     Reviewing!Next, ProvedReviewing!Next, Reviewing!Operations,
     ProvedReviewing!Operations, Reviewing!Refuse, ProvedReviewing!Refuse,
     Reviewing!Admit, ProvedReviewing!Admit, Reviewing!AdmitFails,
     ProvedReviewing!AdmitFails, Reviewing!Finish, ProvedReviewing!Finish,
     Reviewing!FindRejected, ProvedReviewing!FindRejected, Reviewing!EmitRejection,
     ProvedReviewing!EmitRejection, Reviewing!Replay, ProvedReviewing!Replay,
     Reviewing!RejectCorrection, ProvedReviewing!RejectCorrection,
     Reviewing!AppendStatement, ProvedReviewing!AppendStatement, Reviewing!AppendFails,
     ProvedReviewing!AppendFails, Reviewing!Answer, ProvedReviewing!Answer,
     Reviewing!Receive, ProvedReviewing!Receive, Reviewing!AuditReads,
     ProvedReviewing!AuditReads, Reviewing!Log, ProvedReviewing!Log, Reviewing!LogCut,
     ProvedReviewing!LogCut, Reviewing!Begin, ProvedReviewing!Begin, Reviewing!End,
     ProvedReviewing!End, Reviewing!At, ProvedReviewing!At, Reviewing!Goto,
     ProvedReviewing!Goto, Reviewing!Writing, ProvedReviewing!Writing,
     Reviewing!WithKey, ProvedReviewing!WithKey, Reviewing!Correctable,
     ProvedReviewing!Correctable, Reviewing!AppendReaches,
     ProvedReviewing!AppendReaches, Reviewing!Extended, ProvedReviewing!Extended,
     Reviewing!StatementOf, ProvedReviewing!StatementOf, Reviewing!Interrupted,
     ProvedReviewing!Interrupted, Reviewing!Vocabulary, ProvedReviewing!Vocabulary,
     Reviewing!Record, ProvedReviewing!Record, Reviewing!PostsFor,
     ProvedReviewing!PostsFor, Reviewing!ReviewsRead, ProvedReviewing!ReviewsRead,
     Reviewing!Ends, ProvedReviewing!Ends, Reviewing!Posts, ProvedReviewing!Posts
<1>. QED BY <1>1, <1>2

\* The deployment boundary audits what it admits before the application can
\* write anything, and a client may repeat its request after a lost answer
\* or a failed write.
THEOREM ReviewsStayAccounted ==
  ASSUME Reviewing!ConstantsAssumption
  PROVE  Reviewing!Spec => []ReviewsAccounted
<1>1. ProvedReviewing!ConstantsAssumption
  BY Zenon DEF Reviewing!ConstantsAssumption, ProvedReviewing!ConstantsAssumption,
     Reviewing!Requests, ProvedReviewing!Requests, Reviewing!Posts,
     ProvedReviewing!Posts, Reviewing!Operations, ProvedReviewing!Operations
<1>2. ProvedReviewing!Spec => []ProvedReviewing!StatementsAudited
  BY <1>1, ProvedReviewing!EveryStatementAudited
<1>3. ProvedReviewing!Spec => []ProvedReviewing!AnswersAgree
  BY <1>1, ProvedReviewing!RetriesAgree
<1>4. ReviewsAccounted <=> /\ ProvedReviewing!StatementsAudited
                           /\ ProvedReviewing!AnswersAgree
  BY Zenon DEF ReviewsAccounted, Reviewing!StatementsAudited,
     ProvedReviewing!StatementsAudited, Reviewing!AnswersAgree,
     ProvedReviewing!AnswersAgree, Reviewing!Record, ProvedReviewing!Record
<1>. QED
  BY <1>2, <1>3, <1>4, SameReviewing, PTL DEF Reviewing!Spec, ProvedReviewing!Spec

ProvedRegister == INSTANCE ReliabilityHistory_proofs
  WITH history <- transitions, open <- openLine, job <- writing, answer <- returned,
       interruptions <- cutShort, NoJob <- NoWriting, Transactional <- TRUE,
       Chains <- RegisteredChains, MaxInterruptions <- MaxCutShort

LEMMA SameRegister ==
  /\ Register!Init <=> ProvedRegister!Init
  /\ [Register!Next]_(Register!vars) <=> [ProvedRegister!Next]_(ProvedRegister!vars)
<1>1. Register!Init <=> ProvedRegister!Init
  BY Zenon DEF Register!Init, ProvedRegister!Init
<1>2. [Register!Next]_(Register!vars) <=> [ProvedRegister!Next]_(ProvedRegister!vars)
  BY Zenon DEF Register!vars, ProvedRegister!vars, Register!Front, ProvedRegister!Front,
     Register!Next, ProvedRegister!Next, Register!Inspect, ProvedRegister!Inspect,
     Register!Request, ProvedRegister!Request, Register!Reread, ProvedRegister!Reread,
     Register!AppendFinds, ProvedRegister!AppendFinds, Register!AppendRefused,
     ProvedRegister!AppendRefused, Register!AppendWrites, ProvedRegister!AppendWrites,
     Register!Stop, ProvedRegister!Stop, Register!StopAfterWrite,
     ProvedRegister!StopAfterWrite, Register!TearLine, ProvedRegister!TearLine,
     Register!LeaveLineOpen, ProvedRegister!LeaveLineOpen, Register!ReadStore,
     ProvedRegister!ReadStore, Register!Recovered, ProvedRegister!Recovered,
     Register!AlreadyThere, ProvedRegister!AlreadyThere, Register!Acceptable,
     ProvedRegister!Acceptable, Register!StateAfter, ProvedRegister!StateAfter,
     Register!MarkAfter, ProvedRegister!MarkAfter, Register!Raise,
     ProvedRegister!Raise, Register!Return, ProvedRegister!Return, Register!Known,
     ProvedRegister!Known, Register!SameId, ProvedRegister!SameId, Register!Fits,
     ProvedRegister!Fits, Register!Writing, ProvedRegister!Writing, Register!WriteLine,
     ProvedRegister!WriteLine, Register!Interrupt, ProvedRegister!Interrupt,
     Register!store, ProvedRegister!store, Register!OpenTail, ProvedRegister!OpenTail,
     Register!Extended, ProvedRegister!Extended, Register!Allowed,
     ProvedRegister!Allowed, Register!DecisionFor, ProvedRegister!DecisionFor,
     Register!StateAt, ProvedRegister!StateAt, Register!MarkAt, ProvedRegister!MarkAt
<1>. QED BY <1>1, <1>2

LEMMA SameRegisterParameters ==
  ASSUME Register!ConstantsAssumption
  PROVE  ProvedRegister!ConstantsAssumption
  BY Zenon DEF Register!ConstantsAssumption, ProvedRegister!ConstantsAssumption,
     Register!Marks, ProvedRegister!Marks, Register!States, ProvedRegister!States

\* A transition that the SQLite store returned to a client is never lost.
THEOREM RegisteredTransitionsKept ==
  ASSUME Register!ConstantsAssumption
  PROVE  Register!Spec => []AnswersInHistory
<1>1. ProvedRegister!Spec => []ProvedRegister!AnswersInHistory
  BY SameRegisterParameters, ProvedRegister!AnswersKept
<1>2. AnswersInHistory <=> ProvedRegister!AnswersInHistory
  BY Zenon DEF AnswersInHistory, Register!AnswersInHistory, ProvedRegister!AnswersInHistory
<1>. QED
  BY <1>1, <1>2, SameRegister, PTL DEF Register!Spec, ProvedRegister!Spec

\* On the SQLite store the current states of the subjects implement the
\* abstract register.
THEOREM StoreIsARegister ==
  ASSUME Register!ConstantsAssumption
  PROVE  Register!Spec => RegisterSpec
<1>1. ProvedRegister!Spec => ProvedRegister!RegisterSpec
  BY SameRegisterParameters, ProvedRegister!ImplementsRegister
<1>2. Register!RegisterSpec <=> ProvedRegister!RegisterSpec
  <2>1. Register!Register!Init <=> ProvedRegister!Register!Init
    BY Zenon DEF Register!Register!Init, ProvedRegister!Register!Init,
       Register!StateAfter, ProvedRegister!StateAfter, Register!StateAt,
       ProvedRegister!StateAt
  <2>2. [Register!Register!Next]_([s \in Subjects |-> Register!StateAfter(transitions[s])])
         <=> [ProvedRegister!Register!Next]_([s \in Subjects |->
                                               ProvedRegister!StateAfter(transitions[s])])
    BY Zenon DEF Register!Register!Next, ProvedRegister!Register!Next,
       Register!Register!Move, ProvedRegister!Register!Move,
       Register!Register!AllowedTransitions, ProvedRegister!Register!AllowedTransitions,
       Register!StateAfter, ProvedRegister!StateAfter, Register!StateAt,
       ProvedRegister!StateAt
  <2>. QED
    BY <2>1, <2>2, PTL DEF Register!RegisterSpec, ProvedRegister!RegisterSpec,
       Register!Register!Spec, ProvedRegister!Register!Spec
<1>. QED
  BY <1>1, <1>2, SameRegister, PTL DEF Register!Spec, ProvedRegister!Spec, RegisterSpec

-----------------------------------------------------------------------------
(* Operational bundles.  A bundle that was built is derived only from what *)
(* is in it and no more sensitive, so that dropping what is above a        *)
(* ceiling drops whole branches.                                           *)

\* The sensitivities of what was read so far are those of the specification.
ReadSoundlySoFar ==
  /\ packing.step = "reading" =>
       /\ packing.spec \in BundleSpecs
       /\ \A x \in Bundling!Named \intersect DOMAIN packing.artifacts :
            packing.artifacts[x].level \in Nat
  /\ packing.step \in {"built", "writing"} =>
       /\ Bundling!ValidBundle(packing.artifacts)
       /\ \A x \in DOMAIN packing.artifacts : packing.artifacts[x].level \in Nat
       /\ packing.step = "writing" => packing.ceiling \in Nat

PackingFields == {"step", "spec", "artifacts", "ceiling"}

\* The digest that the verifier compares is of what it read, or else the file
\* was exchanged in between; and it refused for a reason.
CheckSound ==
  checking # NoCheck =>
    /\ DOMAIN checking = {"step", "read", "digest", "disturbed"}
    /\ checking.disturbed \in BOOLEAN
    /\ checking.step = "compare" => checking.disturbed \/ checking.digest = checking.read
    /\ checking.step = "refused" =>
         \/ checking.disturbed
         \/ checking.read = Torn
         \/ ~Bundling!Provable(checking.read)
         \/ ~Bundling!SmallEnough(checking.read)
         \/ ~Bundling!WithinEnvelope(checking.read)

BundlesInv ==
  /\ DOMAIN packing = PackingFields
  /\ packing.step # "refused"
  /\ ReadSoundlySoFar
  /\ CheckSound

\* What an artifact goes back to is no more sensitive than the artifact.
LEMMA AncestorsInherit ==
  ASSUME NEW artifacts, Bundling!ValidBundle(artifacts),
         \A x \in DOMAIN artifacts : artifacts[x].level \in Nat,
         NEW x \in DOMAIN artifacts, NEW y \in Bundling!Ancestors(artifacts, x)
  PROVE  y \in DOMAIN artifacts /\ artifacts[y].level <= artifacts[x].level
<1> DEFINE Below == {z \in DOMAIN artifacts : artifacts[z].level <= artifacts[x].level}
<1>1. \A z \in DOMAIN artifacts : \A s \in artifacts[z].from :
        s \in DOMAIN artifacts /\ artifacts[s].level <= artifacts[z].level
  BY DEF Bundling!ValidBundle, Bundling!Inherits
<1>2. artifacts[x].from \intersect DOMAIN artifacts \subseteq Below
  BY <1>1
<1>3. ASSUME NEW z \in Below, NEW s \in artifacts[z].from
      PROVE  s \in Below
  <2>1. s \in DOMAIN artifacts /\ artifacts[s].level <= artifacts[z].level
    BY <1>1
  <2>2. artifacts[z].level <= artifacts[x].level
    OBVIOUS
  <2>3. artifacts[s].level \in Nat /\ artifacts[z].level \in Nat /\ artifacts[x].level \in Nat
    BY <2>1
  <2>. QED BY <2>1, <2>2, <2>3
<1>4. Bundling!Closed(artifacts, Below)
  BY <1>3 DEF Bundling!Closed
<1>5. Below \in SUBSET DOMAIN artifacts
  OBVIOUS
<1>. HIDE DEF Below
<1>6. y \in Below
  BY <1>2, <1>4, <1>5 DEF Bundling!Ancestors
<1>. QED BY <1>6 DEF Below

\* What is disclosed of a bundle is a bundle.
LEMMA DisclosedIsValid ==
  ASSUME NEW artifacts, Bundling!ValidBundle(artifacts),
         \A x \in DOMAIN artifacts : artifacts[x].level \in Nat,
         NEW ceiling \in Nat
  PROVE  Bundling!ValidBundle(Bundling!Disclosed(artifacts, ceiling))
<1> DEFINE Kept == {y \in DOMAIN artifacts : artifacts[y].level <= ceiling}
<1>1. \A z \in DOMAIN artifacts : \A s \in artifacts[z].from :
        s \in DOMAIN artifacts /\ artifacts[s].level <= artifacts[z].level
  BY DEF Bundling!ValidBundle, Bundling!Inherits
<1>2. Bundling!Disclosed(artifacts, ceiling) = [x \in Kept |-> artifacts[x]]
  BY DEF Bundling!Disclosed
<1>3. ASSUME NEW z \in Kept, NEW s \in artifacts[z].from
      PROVE  s \in Kept /\ artifacts[s].level <= artifacts[z].level
  <2>1. s \in DOMAIN artifacts /\ artifacts[s].level <= artifacts[z].level
    BY <1>1
  <2>2. artifacts[s].level \in Nat /\ artifacts[z].level \in Nat /\ artifacts[z].level <= ceiling
    BY <2>1
  <2>. QED BY <2>1, <2>2
<1>. HIDE DEF Kept
<1>. QED BY <1>2, <1>3 DEF Bundling!ValidBundle, Bundling!Inherits

LEMMA PackEffect ==
  ASSUME NEW work, Bundling!Pack(work)
  PROVE  packing' = work /\ UNCHANGED checking
BY DEF Bundling!Pack

LEMMA ReadingStays ==
  ASSUME BundlesInv, Bundling!BundlesAssumption, Bundling!ReadSource
  PROVE  BundlesInv'
<1> DEFINE x == BundleOrder[Bundling!Cardinality(DOMAIN packing.artifacts) + 1]
           spec == packing.spec[x]
           artifacts == [y \in DOMAIN packing.artifacts \union {x} |->
                           IF y = x THEN [level |-> spec.level, from |-> spec.from,
                                          content |-> sources[x]]
                           ELSE packing.artifacts[y]]
<1>0. packing.step = "reading" /\ packing.spec \in BundleSpecs
  BY DEF Bundling!ReadSource, BundlesInv, ReadSoundlySoFar
<1>1. \/ Bundling!Pack(Bundling!At("stopped"))
      \/ Bundling!Pack([packing EXCEPT !.artifacts = artifacts])
      \/ /\ DOMAIN artifacts = Bundling!Named /\ Bundling!ValidBundle(artifacts)
         /\ Bundling!Pack([Bundling!At("built") EXCEPT !.artifacts = artifacts])
  BY Zenon DEF Bundling!ReadSource
<1>2. \A z \in Bundling!Named \intersect DOMAIN artifacts : artifacts[z].level \in Nat
  <2> SUFFICES ASSUME NEW z \in Bundling!Named \intersect DOMAIN artifacts
               PROVE  artifacts[z].level \in Nat
    OBVIOUS
  <2>1. packing.spec[z].level \in Nat
    BY <1>0 DEF Bundling!BundlesAssumption
  <2>2. z # x => packing.artifacts[z].level \in Nat
    BY <1>0 DEF BundlesInv, ReadSoundlySoFar
  <2>. QED BY <2>1, <2>2
<1>. HIDE DEF artifacts
<1>3. CASE Bundling!Pack(Bundling!At("stopped"))
  BY <1>3, PackEffect DEF Bundling!At, BundlesInv, ReadSoundlySoFar, CheckSound, PackingFields
<1>4. CASE Bundling!Pack([packing EXCEPT !.artifacts = artifacts])
  <2>1. packing' = [packing EXCEPT !.artifacts = artifacts] /\ UNCHANGED checking
    BY <1>4, PackEffect
  <2>2. DOMAIN packing = PackingFields
    BY DEF BundlesInv
  <2>3. /\ DOMAIN packing' = PackingFields
        /\ packing'.step = "reading" /\ packing'.spec \in BundleSpecs
        /\ packing'.artifacts = artifacts
    BY <1>0, <2>1, <2>2 DEF PackingFields
  <2>. QED BY <1>2, <2>1, <2>3 DEF BundlesInv, ReadSoundlySoFar, CheckSound
<1>5. CASE /\ DOMAIN artifacts = Bundling!Named /\ Bundling!ValidBundle(artifacts)
           /\ Bundling!Pack([Bundling!At("built") EXCEPT !.artifacts = artifacts])
  <2>1. packing' = [Bundling!At("built") EXCEPT !.artifacts = artifacts] /\ UNCHANGED checking
    BY <1>5, PackEffect
  <2>2. /\ DOMAIN packing' = PackingFields
        /\ packing'.step = "built" /\ packing'.artifacts = artifacts
    BY <2>1 DEF Bundling!At, PackingFields
  <2>3. \A z \in DOMAIN artifacts : artifacts[z].level \in Nat
    BY <1>2, <1>5
  <2>. QED BY <1>5, <2>1, <2>2, <2>3 DEF BundlesInv, ReadSoundlySoFar, CheckSound
<1>. QED BY <1>1, <1>3, <1>4, <1>5

LEMMA ExportsStay ==
  ASSUME BundlesInv, Bundling!BundlesAssumption, NEW ceiling \in Ceilings,
         Bundling!BeginExport(ceiling)
  PROVE  BundlesInv'
<1>1. packing.step = "built" /\ ceiling \in Nat
  BY DEF Bundling!BeginExport, Bundling!BundlesAssumption
<1>2. /\ Bundling!ValidBundle(packing.artifacts)
      /\ \A x \in DOMAIN packing.artifacts : packing.artifacts[x].level \in Nat
  BY <1>1 DEF BundlesInv, ReadSoundlySoFar
<1>3. Bundling!ValidBundle(Bundling!Disclosed(packing.artifacts, ceiling))
  BY <1>1, <1>2, DisclosedIsValid
<1>4. Bundling!Pack([packing EXCEPT !.step = "writing", !.ceiling = ceiling])
  BY <1>3 DEF Bundling!BeginExport
<1>5. packing' = [packing EXCEPT !.step = "writing", !.ceiling = ceiling] /\ UNCHANGED checking
  BY <1>4, PackEffect
<1>6. DOMAIN packing = PackingFields
  BY DEF BundlesInv
<1>7. /\ DOMAIN packing' = PackingFields /\ packing'.step = "writing"
      /\ packing'.ceiling = ceiling /\ packing'.artifacts = packing.artifacts
  BY <1>5, <1>6 DEF PackingFields
<1>. QED BY <1>1, <1>2, <1>5, <1>7 DEF BundlesInv, ReadSoundlySoFar, CheckSound

LEMMA ChecksStay ==
  ASSUME BundlesInv,
         \/ Bundling!MeasureBundle \/ Bundling!ReadManifest \/ Bundling!BuildGraph
         \/ Bundling!CompareDigest \/ Bundling!LeaveCheck
  PROVE  BundlesInv'
<1>1. UNCHANGED packing
  BY DEF Bundling!MeasureBundle, Bundling!ReadManifest, Bundling!BuildGraph,
         Bundling!CompareDigest,
         Bundling!LeaveCheck, Bundling!Check
<1>2. CheckSound'
  <2>1. CASE Bundling!ReadManifest
    <3>1. checking' = Bundling!CheckAt(IF output = Torn \/ ~Bundling!WithinEnvelope(output)
                                       THEN "refused" ELSE "graph")
      BY <2>1 DEF Bundling!ReadManifest, Bundling!Check
    <3>. QED BY <3>1 DEF Bundling!CheckAt, CheckSound
  <2>5. CASE Bundling!MeasureBundle
    <3>1. checking' = Bundling!CheckAt(IF output # Torn /\ ~Bundling!SmallEnough(output)
                                       THEN "refused" ELSE "manifest")
      BY <2>5 DEF Bundling!MeasureBundle, Bundling!Check
    <3>. QED BY <3>1 DEF Bundling!CheckAt, CheckSound
  <2>2. CASE Bundling!BuildGraph
    <3>1. checking' = [checking EXCEPT
                         !.step = IF Bundling!Provable(checking.read) THEN "compare"
                                  ELSE "refused",
                         !.digest = output,
                         !.disturbed = output # checking.read]
      BY <2>2 DEF Bundling!BuildGraph, Bundling!Check
    <3>2. /\ checking # NoCheck
          /\ DOMAIN checking = {"step", "read", "digest", "disturbed"}
      BY <2>2 DEF Bundling!BuildGraph, BundlesInv, CheckSound
    <3>. QED BY <3>1, <3>2 DEF CheckSound
  <2>3. CASE Bundling!CompareDigest
    <3>1. checking' = [checking EXCEPT
                         !.step = IF output = checking.digest THEN "verified" ELSE "refused",
                         !.disturbed = checking.disturbed \/ output # checking.read]
      BY <2>3 DEF Bundling!CompareDigest, Bundling!Check
    <3>2. /\ checking # NoCheck /\ checking.step = "compare"
          /\ DOMAIN checking = {"step", "read", "digest", "disturbed"}
          /\ checking.disturbed \/ checking.digest = checking.read
      BY <2>3 DEF Bundling!CompareDigest, BundlesInv, CheckSound
    <3>3. /\ DOMAIN checking' = {"step", "read", "digest", "disturbed"}
          /\ checking'.disturbed \in BOOLEAN
          /\ checking'.step \in {"verified", "refused"}
          /\ checking'.step = "refused" => checking'.disturbed
      BY <3>1, <3>2
    <3>. QED BY <3>3 DEF CheckSound
  <2>4. CASE Bundling!LeaveCheck
    BY <2>4 DEF Bundling!LeaveCheck, Bundling!Check, CheckSound
  <2>. QED BY <2>1, <2>2, <2>3, <2>4, <2>5
<1>. QED BY <1>1, <1>2 DEF BundlesInv, ReadSoundlySoFar

LEMMA BundlesStep ==
  ASSUME Bundling!BundlesAssumption, BundlesInv, [Bundling!Next]_bundleVars
  PROVE  BundlesInv'
<1>1. CASE \E x \in Bundling!Named, content \in BundledContents :
             Bundling!ReplaceSource(x, content)
  BY <1>1 DEF Bundling!ReplaceSource, BundlesInv, ReadSoundlySoFar, CheckSound
<1>2. ASSUME NEW spec \in BundleSpecs, Bundling!BeginBuild(spec)
      PROVE  BundlesInv'
  <2>1. packing' = [Bundling!At("reading") EXCEPT !.spec = spec] /\ UNCHANGED checking
    BY <1>2, PackEffect DEF Bundling!BeginBuild
  <2>2. DOMAIN <<>> = {}
    OBVIOUS
  <2>3. /\ DOMAIN packing' = PackingFields /\ packing'.step = "reading"
        /\ packing'.spec = spec /\ packing'.artifacts = <<>>
    BY <2>1 DEF Bundling!At, PackingFields
  <2>. QED BY <2>1, <2>2, <2>3 DEF BundlesInv, ReadSoundlySoFar, CheckSound
<1>3. CASE Bundling!ReadSource
  BY <1>3, ReadingStays
<1>4. CASE \E ceiling \in Ceilings : Bundling!BeginExport(ceiling)
  BY <1>4, ExportsStay
<1>5. CASE Bundling!FinishExport
  <2>1. packing' = [packing EXCEPT !.step = "built"] /\ UNCHANGED checking
    BY <1>5, PackEffect DEF Bundling!FinishExport
  <2>2. packing.step = "writing" /\ DOMAIN packing = PackingFields
    BY <1>5 DEF Bundling!FinishExport, BundlesInv
  <2>3. /\ DOMAIN packing' = PackingFields /\ packing'.step = "built"
        /\ packing'.artifacts = packing.artifacts
    BY <2>1, <2>2 DEF PackingFields
  <2>. QED BY <2>1, <2>2, <2>3 DEF BundlesInv, ReadSoundlySoFar, CheckSound
<1>6. CASE Bundling!LeaveBuild
  <2>1. packing' = Bundling!At("stopped") /\ UNCHANGED checking
    BY <1>6, PackEffect DEF Bundling!LeaveBuild
  <2>. QED
    BY <2>1 DEF Bundling!At, PackingFields, BundlesInv, ReadSoundlySoFar, CheckSound
<1>7. CASE \/ Bundling!MeasureBundle \/ Bundling!ReadManifest \/ Bundling!BuildGraph
           \/ Bundling!CompareDigest \/ Bundling!LeaveCheck
  BY <1>7, ChecksStay
<1>8. CASE UNCHANGED bundleVars
  BY <1>8 DEF bundleVars, BundlesInv, ReadSoundlySoFar, CheckSound
<1>. QED BY <1>1, <1>2, <1>3, <1>4, <1>5, <1>6, <1>7, <1>8 DEF Bundling!Next

\* For any specifications and ceilings, whatever files are replaced and exports
\* stop: a bundle that was built can be disclosed, nothing that is disclosed
\* goes back to anything above the ceiling, and a whole file that stays is
\* verified unless its provenance is circular or it is beyond a limit of the
\* verifier, whatever the limits and the extents of the artifacts are.
THEOREM DisclosureKeepsCeiling ==
  ASSUME Bundling!BundlesAssumption
  PROVE  Bundling!Init /\ [][Bundling!Next]_bundleVars => []DisclosureSound
<1>1. Bundling!Init => BundlesInv
  BY DEF Bundling!Init, Bundling!At, BundlesInv, PackingFields, ReadSoundlySoFar, CheckSound
<1>2. BundlesInv /\ [Bundling!Next]_bundleVars => BundlesInv'
  BY BundlesStep
<1>3. BundlesInv => DisclosureSound
  <2> SUFFICES ASSUME BundlesInv PROVE DisclosureSound
    OBVIOUS
  <2> DEFINE disclosed == Bundling!Disclosed(packing.artifacts, packing.ceiling)
  <2>1. ASSUME packing.step = "writing"
        PROVE  /\ \A x \in DOMAIN disclosed :
                    \A y \in Bundling!Ancestors(packing.artifacts, x) :
                      packing.artifacts[y].level <= packing.ceiling
               /\ \A old \in BOOLEAN :
                    Bundling!Assess(disclosed, packing.ceiling, old) # "quarantine"
    <3>1. /\ Bundling!ValidBundle(packing.artifacts)
          /\ \A x \in DOMAIN packing.artifacts : packing.artifacts[x].level \in Nat
          /\ packing.ceiling \in Nat
      BY <2>1 DEF BundlesInv, ReadSoundlySoFar
    <3>2. \A x \in DOMAIN disclosed :
            /\ x \in DOMAIN packing.artifacts
            /\ disclosed[x] = packing.artifacts[x]
            /\ packing.artifacts[x].level <= packing.ceiling
      BY DEF Bundling!Disclosed
    <3>. HIDE DEF disclosed
    <3>3. ASSUME NEW x \in DOMAIN disclosed,
                 NEW y \in Bundling!Ancestors(packing.artifacts, x)
          PROVE  packing.artifacts[y].level <= packing.ceiling
      <4>1. /\ y \in DOMAIN packing.artifacts
            /\ packing.artifacts[y].level <= packing.artifacts[x].level
        BY <3>1, <3>2, AncestorsInherit
      <4>2. /\ packing.artifacts[x].level \in Nat /\ packing.artifacts[y].level \in Nat
            /\ packing.artifacts[x].level <= packing.ceiling
        BY <3>1, <3>2, <4>1
      <4>. QED BY <3>1, <4>1, <4>2
    <3>4. ~\E x \in DOMAIN disclosed : disclosed[x].level > packing.ceiling
      BY <3>1, <3>2
    <3>. QED BY <3>3, <3>4 DEF Bundling!Assess
  <2>2. /\ packing.step # "refused"
        /\ checking # NoCheck /\ checking.step = "refused" =>
             \/ checking.disturbed
             \/ checking.read = Torn
             \/ ~Bundling!Provable(checking.read)
             \/ ~Bundling!SmallEnough(checking.read)
             \/ ~Bundling!WithinEnvelope(checking.read)
    BY DEF BundlesInv, CheckSound
  <2>. QED BY <2>1, <2>2, Zenon DEF DisclosureSound, Bundling!DisclosureSound
<1>. QED BY <1>1, <1>2, <1>3, PTL
=============================================================================
