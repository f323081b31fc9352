----------------------------- MODULE NativeCapture -----------------------------
(***************************************************************************)
(* Native capture with a durable workspace: the callback handler and the   *)
(* span processor of an SDK hand observations to one NativeCaptureSink,    *)
(* which persists each before it acknowledges it, keeps the acknowledged   *)
(* ones in a bounded window until they are drained, and journals failures. *)
(* A process that starts replays the journal.                              *)
(*                                                                         *)
(* Each model run calls back on a thread of its own, so its callbacks      *)
(* interleave with those of other runs between any two calls of the sink;  *)
(* a call of the sink holds the sink's lock throughout.  Span ends are     *)
(* serialized by the processor's own lock, and may be repeated.            *)
(*                                                                         *)
(* Journal lines count with one size.  Who a journal line is about is part *)
(* of the model only.                                                      *)
(***************************************************************************)
EXTENDS LineFile, FiniteSets, SequencesExt

CONSTANTS
  Runs,               \* model runs observed by the callback handler
  Spans,              \* completed spans observed by the span processor
  Capacity,           \* sink.capacity
  FailureCapacity,    \* sink.failure_capacity
  JournalLimit,       \* failure_journal_max_bytes, in lines
  NoSpan,
  MaxFaults,          \* bound: journal writes that fail or are cut off
  MaxRestarts         \* bound

Sources == Runs \union Spans
Kinds == {"contract", "runtime"}
Results == [source : Sources, kind : Kinds]
Stages == {"native_capture.capacity", "native_capture.persist", "start",
           "contract", "runtime", "unpaired", "window"}
Failures == [stage : Stages, source : Sources]

ConstantsAssumption ==
  /\ IsFiniteSet(Sources)
  /\ Runs \intersect Spans = {}
  /\ NoSpan \notin Sources
  /\ Capacity \in Nat \ {0}
  /\ FailureCapacity \in Nat \ {0}
  /\ JournalLimit \in Nat
  /\ MaxFaults \in Nat
  /\ MaxRestarts \in Nat

Phases == {"new", "admitted", "running", "contract", "contract failed",
           "finish", "runtime", "runtime failed", "refused", "unpaired",
           "done", "raised", "escaped", "lost"}

VARIABLES
  up,             \* a process has a sink
  results,        \* the window of acknowledged results
  failures,       \* the window of failures
  failureCount,
  started,        \* the handler's _started
  completed,      \* the processor's _completed_spans
  spanLock,       \* the span whose end is being processed
  phase,          \* how far the callbacks of each run or span are
  faulted,        \* a journal write failed in this process
  durable,        \* what the workspace holds
  delivered,      \* what drain() returned in this process
  journal,        \* the failure journal: a LineFile of Failures
  faults,
  restarts

sinkVars == <<results, failures, failureCount, faulted, durable, journal, faults>>
handlerVars == <<started, completed, spanLock>>
captureVars == <<up, results, failures, failureCount, started, completed,
                 spanLock, phase, faulted, durable, delivered, journal, faults,
                 restarts>>

TypeOK ==
  /\ up \in BOOLEAN
  /\ results \in Seq(Results)
  /\ failures \in Seq(Failures)
  /\ failureCount \in Nat
  /\ started \subseteq Runs
  /\ completed \subseteq Spans
  /\ spanLock \in Spans \union {NoSpan}
  /\ phase \in [Sources -> Phases]
  /\ faulted \in BOOLEAN
  /\ durable \subseteq Results
  /\ delivered \subseteq Results
  /\ journal \in Files(Failures)
  /\ faults \in 0..MaxFaults
  /\ restarts \in 0..MaxRestarts

Init ==
  /\ up = TRUE
  /\ results = <<>>
  /\ failures = <<>>
  /\ failureCount = 0
  /\ started = {}
  /\ completed = {}
  /\ spanLock = NoSpan
  /\ phase = [s \in Sources |-> "new"]
  /\ faulted = FALSE
  /\ durable = {}
  /\ delivered = {}
  /\ journal = EmptyFile
  /\ faults = 0
  /\ restarts = 0

-----------------------------------------------------------------------------
(* NativeCaptureSink                                                       *)

\* The last FailureCapacity of the failures.
Window(list) ==
  SubSeq(list, IF Len(list) > FailureCapacity THEN Len(list) - FailureCapacity + 1 ELSE 1,
         Len(list))

HasRoom == Len(journal.lines) < JournalLimit

\* Mutation: the journal's limit only keeps the line out of the journal.
RecordOrCount(stage, s) ==
  /\ journal' = IF HasRoom THEN Extended(journal, <<[stage |-> stage, source |-> s]>>)
                ELSE journal
  /\ failureCount' = failureCount + 1
  /\ failures' = Window(Append(failures, [stage |-> stage, source |-> s]))
  /\ UNCHANGED <<faulted, faults>>

\* _record_failure: the line, the count and the window.
RecordFailure(stage, s) ==
  /\ HasRoom
  /\ journal' = Extended(journal, <<[stage |-> stage, source |-> s]>>)
  /\ failureCount' = failureCount + 1
  /\ failures' = Window(Append(failures, [stage |-> stage, source |-> s]))
  /\ UNCHANGED <<faulted, faults>>

\* _record_failure raises NativeCaptureCapacityError, a ValueError.
JournalFull ==
  /\ ~HasRoom
  /\ UNCHANGED <<journal, failureCount, failures, faulted, faults>>

\* _record_failure raises OSError: part of the line may be in the file, or
\* all of it.
JournalFails(stage, s) ==
  /\ HasRoom
  /\ faults < MaxFaults
  /\ faults' = faults + 1
  /\ faulted' = TRUE
  /\ journal' \in Interrupted(journal, <<[stage |-> stage, source |-> s]>>)
  /\ UNCHANGED <<failureCount, failures>>

\* Mutation: the result is in the window before it is persisted.
AcceptUnpersisted(r) ==
  /\ Len(results) < Capacity
  /\ durable' \in {durable, durable \union {r}}
  /\ results' = Append(results, r)
  /\ UNCHANGED <<failures, failureCount, faulted, journal, faults>>

\* add() persists the result and acknowledges it.
Accept(r) ==
  /\ Len(results) < Capacity
  /\ durable' = durable \union {r}
  /\ results' = Append(results, r)
  /\ UNCHANGED <<failures, failureCount, faulted, journal, faults>>

\* add() refuses the result for lack of room in the window, or ingest()
\* raises a ValueError, or there is no room for the failure of either kind.
RaisesValue(r) ==
  /\ UNCHANGED results
  /\ \/ /\ Len(results) >= Capacity
        /\ RecordFailure("native_capture.capacity", r.source) \/ JournalFull
        /\ UNCHANGED durable
     \/ /\ Len(results) < Capacity
        /\ RecordFailure("native_capture.persist", r.source) \/ JournalFull
        /\ durable' \in {durable, durable \union {r}}

\* ingest() raises another exception, a TimeoutError of the operation lock
\* for one, or the journal cannot be written.
RaisesOther(r) ==
  /\ UNCHANGED results
  /\ \/ /\ Len(results) >= Capacity
        /\ JournalFails("native_capture.capacity", r.source)
        /\ UNCHANGED durable
     \/ /\ Len(results) < Capacity
        /\ \/ RecordFailure("native_capture.persist", r.source)
           \/ JournalFails("native_capture.persist", r.source)
        /\ durable' \in {durable, durable \union {r}}

Drain ==
  /\ up
  /\ results # <<>>
  /\ delivered' = delivered \union ToSet(results)
  /\ results' = <<>>
  /\ UNCHANGED <<up, failures, failureCount, handlerVars, phase, faulted,
                 durable, journal, faults, restarts>>

-----------------------------------------------------------------------------
(* What a callback does with the sink.                                     *)

Goto(s, ph) == phase' = [phase EXCEPT ![s] = ph]

\* The contract is built and handed to sink.add, inside a try of ValueError
\* and TypeError: the callback goes on at `next`, handles an error of either
\* at `failed`, or raises to the SDK.  Building it reads objects of the SDK,
\* which may raise what the handler does not name: that exception escapes
\* before the sink has heard of the observation.
AddResult(s, kind, next, failed) ==
  LET r == [source |-> s, kind |-> kind]
  IN  \/ Accept(r) /\ Goto(s, next)
      \/ UNCHANGED sinkVars /\ Goto(s, failed)
      \/ RaisesValue(r) /\ Goto(s, failed)
      \/ RaisesOther(r) /\ Goto(s, "raised")
      \/ UNCHANGED sinkVars /\ Goto(s, "escaped")

\* sink.fail outside of any try.
FailThen(s, stage, next) ==
  /\ UNCHANGED <<results, durable>>
  /\ \/ RecordFailure(stage, s) /\ Goto(s, next)
     \/ JournalFull /\ Goto(s, "raised")
     \/ JournalFails(stage, s) /\ Goto(s, "raised")

-----------------------------------------------------------------------------
(* The LangChain callback handler, with the callbacks of a model; those of *)
(* a tool and of a retriever take the same steps.                          *)

\* _start: the checks and the insertion are not atomic.  What is started may
\* not be observable, with an error that is handled ("refused") or one that is
\* not; the run goes on in any case.
AdmitStart(s) ==
  /\ up
  /\ phase[s] = "new"
  /\ \E ph \in {"refused", "running"}
              \union (IF Cardinality(started) < Capacity THEN {"admitted"} ELSE {}) :
       Goto(s, ph)
  /\ UNCHANGED <<up, sinkVars, handlerVars, delivered, restarts>>

InsertStart(s) ==
  /\ phase[s] = "admitted"
  /\ started' = started \union {s}
  /\ Goto(s, "running")
  /\ UNCHANGED <<up, sinkVars, completed, spanLock, delivered, restarts>>

\* The start is not recorded.
RefuseStart(s) ==
  /\ phase[s] = "refused"
  /\ UNCHANGED <<results, durable>>
  /\ RecordFailure("start", s) \/ JournalFull \/ JournalFails("start", s)
  /\ Goto(s, "running")
  /\ UNCHANGED <<up, handlerVars, delivered, restarts>>

\* on_llm_end: with its start recorded, the model contract comes first,
\* unless its name or its response cannot be observed.  on_llm_error, and
\* an end without a start, finish at once.
EndRun(s) ==
  /\ phase[s] = "running"
  /\ \E ph \in IF s \in started THEN {"contract", "contract failed", "finish"}
               ELSE {"finish"} :
       Goto(s, ph)
  /\ UNCHANGED <<up, sinkVars, handlerVars, delivered, restarts>>

\* Mutation: the entry is looked up and stays.
FinishKeeping(s) ==
  /\ phase[s] = "finish"
  /\ Goto(s, IF s \in started THEN "runtime" ELSE "unpaired")
  /\ UNCHANGED <<up, sinkVars, handlerVars, delivered, restarts>>

\* _finish takes the entry out of _started.
Finish(s) ==
  /\ phase[s] = "finish"
  /\ Goto(s, IF s \in started THEN "runtime" ELSE "unpaired")
  /\ started' = started \ {s}
  /\ UNCHANGED <<up, sinkVars, completed, spanLock, delivered, restarts>>

\* Mutation: an error of the runtime contract ends the callback quietly.
CaptureRunQuietly(s) ==
  /\ \/ phase[s] = "contract" /\ AddResult(s, "contract", "finish", "contract failed")
     \/ phase[s] = "contract failed" /\ FailThen(s, "contract", "finish")
     \/ phase[s] = "runtime" /\ AddResult(s, "runtime", "done", "runtime failed")
     \/ phase[s] = "runtime failed" /\ Goto(s, "done") /\ UNCHANGED sinkVars
     \/ phase[s] = "unpaired" /\ FailThen(s, "unpaired", "done")
  /\ UNCHANGED <<up, handlerVars, delivered, restarts>>

\* The calls of the sink in on_llm_end and in _finish.
CaptureRun(s) ==
  /\ \/ phase[s] = "contract" /\ AddResult(s, "contract", "finish", "contract failed")
     \/ phase[s] = "contract failed" /\ FailThen(s, "contract", "finish")
     \/ phase[s] = "runtime" /\ AddResult(s, "runtime", "done", "runtime failed")
     \/ phase[s] = "runtime failed" /\ FailThen(s, "runtime", "done")
     \/ phase[s] = "unpaired" /\ FailThen(s, "unpaired", "done")
  /\ UNCHANGED <<up, handlerVars, delivered, restarts>>

-----------------------------------------------------------------------------
(* The OpenAI Agents span processor.                                       *)

\* on_span_end, under the span lock, for a span that was not captured yet.
EndSpan(s) ==
  /\ up
  /\ spanLock = NoSpan
  /\ s \notin completed
  /\ spanLock' = s
  /\ Goto(s, IF Cardinality(completed) < Capacity THEN "runtime" ELSE "refused")
  /\ UNCHANGED <<up, sinkVars, started, completed, delivered, restarts>>

\* The runtime contract; the identity is taken if it was acknowledged.
CaptureSpan(s) ==
  /\ spanLock = s
  /\ phase[s] = "runtime"
  /\ AddResult(s, "runtime", "contract", "runtime failed")
  /\ completed' = IF phase'[s] = "contract" THEN completed \union {s} ELSE completed
  /\ UNCHANGED <<up, started, spanLock, delivered, restarts>>

\* The span has nothing more to observe, or not what its kind needs.
DescribeSpan(s) ==
  /\ spanLock = s
  /\ phase[s] = "contract"
  /\ \E ph \in {"done", "contract failed"} : Goto(s, ph)
  /\ UNCHANGED <<up, sinkVars, handlerVars, delivered, restarts>>

\* The model or tool contract, and what is journaled.  That of a response
\* handles any exception.
CaptureSpanContract(s) ==
  /\ spanLock = s
  /\ \/ phase[s] = "contract" /\ AddResult(s, "contract", "done", "contract failed")
     \/ /\ phase[s] = "contract"
        /\ RaisesOther([source |-> s, kind |-> "contract"])
        /\ Goto(s, "contract failed")
     \/ phase[s] = "contract failed" /\ FailThen(s, "contract", "done")
     \/ phase[s] = "runtime failed" /\ FailThen(s, "runtime", "done")
     \/ phase[s] = "refused" /\ FailThen(s, "window", "done")
  /\ UNCHANGED <<up, handlerVars, delivered, restarts>>

LeaveSpan(s) ==
  /\ spanLock = s
  /\ phase[s] \in {"done", "raised", "escaped"}
  /\ spanLock' = NoSpan
  /\ UNCHANGED <<up, sinkVars, started, completed, phase, delivered, restarts>>

-----------------------------------------------------------------------------
(* The end of the process, and the next one.                               *)

\* Perhaps within the write of a journal line.
Crash ==
  /\ up
  /\ restarts < MaxRestarts
  /\ up' = FALSE
  /\ \/ UNCHANGED <<journal, faults>>
     \/ /\ faults < MaxFaults
        /\ HasRoom
        /\ faults' = faults + 1
        /\ \E s \in Sources :
             /\ phase[s] \notin {"new", "done", "raised", "escaped", "lost"}
             /\ journal' \in Interrupted(journal,
                                <<[stage |-> "native_capture.persist", source |-> s]>>)
  /\ results' = <<>>
  /\ delivered' = {}
  /\ started' = {}
  /\ completed' = {}
  /\ spanLock' = NoSpan
  /\ phase' = [s \in Sources |->
                 IF phase[s] \in {"new", "done", "raised", "escaped"} THEN phase[s]
                 ELSE "lost"]
  /\ UNCHANGED <<failures, failureCount, faulted, durable, restarts>>

\* The constructor accepts the journal.
Replayable ==
  /\ journal.end = "ended"
  /\ Len(journal.lines) <= JournalLimit

\* NativeCaptureSink.__post_init__
Restart ==
  /\ ~up
  /\ Replayable
  /\ up' = TRUE
  /\ failures' = Window(journal.lines)
  /\ failureCount' = Len(journal.lines)
  /\ faulted' = FALSE
  /\ restarts' = restarts + 1
  /\ UNCHANGED <<results, handlerVars, phase, durable, delivered, journal, faults>>

Next ==
  \/ \E s \in Runs :
       \/ AdmitStart(s) \/ InsertStart(s) \/ RefuseStart(s)
       \/ EndRun(s) \/ Finish(s) \/ CaptureRun(s)
  \/ \E s \in Spans :
       \/ EndSpan(s) \/ CaptureSpan(s) \/ DescribeSpan(s)
       \/ CaptureSpanContract(s) \/ LeaveSpan(s)
  \/ Drain \/ Crash \/ Restart

Spec == Init /\ [][Next]_captureVars
-----------------------------------------------------------------------------
(* Properties.                                                             *)

\* "With a workspace, a result is persisted before being acknowledged":
\* what is in the window, or was drained, is in the workspace.
AcknowledgedIsDurable == ToSet(results) \union delivered \subseteq durable

\* The failure counter and window of a process agree with the journal, which
\* earlier processes wrote in part, unless a journal write failed in it.
FailuresMatchJournal ==
  up /\ ~faulted =>
    /\ failureCount = Len(journal.lines)
    /\ failures = Window(journal.lines)

\* "reject overflow without losing evidence silently": a run or span whose
\* callbacks have ended is in the workspace or in the journal, unless the
\* journal is full or could not be written, or an exception that no handler
\* names escaped from building a contract ("escaped"): _finish is skipped then,
\* and of such a run there may be nothing anywhere.
NothingLostSilently ==
  \A s \in Sources :
    phase[s] \in {"done", "raised"} =>
      \/ [source |-> s, kind |-> "runtime"] \in durable
      \/ \E i \in 1..Len(journal.lines) : journal.lines[i].source = s
      \/ ~HasRoom
      \/ faults > 0

\* The handler's window of starts keeps runs that are under way, and for good
\* those whose callback raised to the SDK before _finish.  No run is both in
\* the window and captured, although a callback may end at any call of the sink.
Underway == {"running", "contract", "contract failed", "finish"}
StartsReleased ==
  \A s \in started :
    /\ phase[s] \in Underway \union {"raised", "escaped"}
    /\ [source |-> s, kind |-> "runtime"] \notin durable

\* A process can always start again on its journal, unless a journal write
\* was cut off.
JournalReplayable ==
  faults = 0 => Replayable
=============================================================================
