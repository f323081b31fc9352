--------------------------- MODULE IncidentEvidence ---------------------------
(***************************************************************************)
(* The incident store and the pages made of it.  Reporters append records  *)
(* of incidents under the store's lock.  Pages are made of one reading of  *)
(* the file without the lock, and a viewer goes through them by offset,    *)
(* latest incidents first, while records come in.  append does not compare *)
(* a record with what is recorded of its incident: the page does, and one  *)
(* incident that went back is the end of every page.  A store that has no  *)
(* file yet is an empty one here.                                          *)
(***************************************************************************)
EXTENDS LineFile, FiniteSets, SequencesExt

CONSTANTS
  Reports,       \* what hosts may report, see Evidence
  NoRecovery,    \* no recovery, no verification after it
  NoWrite,
  NoViewer,
  MaxShown,      \* max_incident_records
  MaxRecords,    \* bound: records of the store
  MaxTime        \* bound: instants of the clock

\* _STATUS_RANK
Rank == [detected |-> 0, preserved |-> 1, contained |-> 2, assessed |-> 3,
         recovered |-> 4, reverified |-> 5]
Statuses == DOMAIN Rank

\* A recovery is of an incident; `kept` says that what it refers to is among
\* the evidence preserved with the report.
Recoveries == [of : Nat, status : {"planned", "applied", "failed"}, kept : BOOLEAN]
Verifications == [status : {"verified", "failed", "unknown"}, kept : BOOLEAN]
Evidence ==
  [incident : Nat, status : Statuses, recovery : Recoveries \union {NoRecovery},
   verification : Verifications \union {NoRecovery}]

\* What is stored, and what is being stored.
Records == [report : Reports, at : 0..MaxTime]
Writings == [record : Records, before : Files(Records)]

ConstantsAssumption ==
  /\ Reports \subseteq Evidence
  /\ NoRecovery \notin Recoveries \union Verifications
  /\ NoWrite \notin Writings
  /\ {MaxShown, MaxRecords, MaxTime} \subseteq Nat

VARIABLES
  file,       \* the JSONL file
  now,        \* the clock of the host
  writing,    \* the append that holds the lock: its record, the file before
  mishaps,    \* what has happened to the store: "cut" writes, clock "set_back"
  viewer      \* the viewer: its next offset, and what it has been shown

vars == <<file, now, writing, mishaps, viewer>>

TypeOK ==
  /\ file \in Files(Records)
  /\ now \in 0..MaxTime
  /\ writing \in Writings \union {NoWrite}
  /\ mishaps \subseteq {"cut", "set_back"}

Init ==
  /\ file = EmptyFile
  /\ now = 0
  /\ writing = NoWrite
  /\ mishaps = {}
  /\ viewer = NoViewer

-----------------------------------------------------------------------------
(* Appending.                                                              *)

\* SecurityIncidentEvidence.__post_init__
Admissible(report) ==
  /\ report.status \in {"recovered", "reverified"} => report.recovery # NoRecovery
  /\ report.status = "reverified" =>
       report.verification # NoRecovery /\ report.verification.status = "verified"
  /\ report.recovery # NoRecovery => report.recovery.of = report.incident

\* verify_forensic_continuity
Continuous(report) ==
  /\ report.recovery # NoRecovery
  /\ report.recovery.status = "applied" /\ report.recovery.kept
  /\ report.verification # NoRecovery
  /\ report.verification.status = "verified" /\ report.verification.kept

\* The lock is held and the chain reads; some of the line is written.
StartAppend(report) ==
  /\ writing = NoWrite
  /\ Len(file.lines) < MaxRecords
  /\ Admissible(report)
  /\ report.status = "reverified" => Continuous(report)
  /\ file.end # "spoiled"
  /\ LET record == [report |-> report, at |-> now] IN
     /\ writing' = [record |-> record, before |-> file]
     /\ file' \in Interrupted(file, <<record>>)
  /\ UNCHANGED <<now, mishaps, viewer>>

\* The rest of the line is written, and the lock released.
EndAppend ==
  /\ writing # NoWrite
  /\ file' = Extended(writing.before, <<writing.record>>)
  /\ writing' = NoWrite
  /\ UNCHANGED <<now, mishaps, viewer>>

\* The write fails, or the process stops, before the line is complete.
CutAppend ==
  /\ writing # NoWrite
  /\ writing' = NoWrite
  /\ mishaps' = mishaps \union {"cut"}
  /\ UNCHANGED <<file, now, viewer>>

SetClock ==
  /\ now' \in 0..MaxTime \ {now}
  /\ mishaps' = IF now' < now THEN mishaps \union {"set_back"} ELSE mishaps
  /\ UNCHANGED <<file, writing, viewer>>

-----------------------------------------------------------------------------
(* Pages.                                                                  *)

Recorded(lines) == {lines[n].report.incident : n \in DOMAIN lines}
Of(lines, i) == {n \in DOMAIN lines : lines[n].report.incident = i}
Latest(lines, i) == lines[Max(Of(lines, i))]

\* Mutation: only the times are compared.
TimesInOrder(lines) ==
  \A i \in Recorded(lines) : \A m, n \in Of(lines, i) : m < n => lines[m].at <= lines[n].at

\* IncidentInvestigationRecord: neither status nor time goes back.
Consolidates(lines) ==
  \A i \in Recorded(lines) : \A m, n \in Of(lines, i) :
    m < n =>
      /\ Rank[lines[m].report.status] <= Rank[lines[n].report.status]
      /\ lines[m].at <= lines[n].at

\* Mutation: the oldest first.
OldestFirst(lines, i, j) ==
  \/ Latest(lines, i).at < Latest(lines, j).at
  \/ Latest(lines, i).at = Latest(lines, j).at /\ i < j

\* consolidate_incident_records: the latest first, then by identity.
Before(lines, i, j) ==
  \/ Latest(lines, i).at > Latest(lines, j).at
  \/ Latest(lines, i).at = Latest(lines, j).at /\ i < j

\* The page at an offset, one incident long.
Page(lines, offset) ==
  {i \in Recorded(lines) : Cardinality({j \in Recorded(lines) : Before(lines, j, i)}) = offset}

Failed(why) == viewer' = [viewer EXCEPT !.step = why, !.during = writing # NoWrite]

\* For the properties: `expected` is what the first page could be made of, and
\* `during` whether a write was under way when a page was refused.
StartPaging ==
  /\ viewer = NoViewer
  /\ viewer' = [step |-> "page", offset |-> 0, shown |-> <<>>, expected |-> file.lines,
                during |-> FALSE]
  /\ UNCHANGED <<file, now, writing, mishaps>>

\* A request for the page at the next offset.
ReadPage ==
  /\ viewer # NoViewer
  /\ viewer.step = "page"
  /\ LET lines == file.lines
         page == Page(lines, viewer.offset) IN
     CASE file.end = "spoiled" -> Failed("invalid")
       [] file.end # "spoiled" /\ Len(lines) > MaxShown -> Failed("too_large")
       [] OTHER ->
            IF ~Consolidates(lines) THEN Failed("invalid")
            ELSE viewer' =
                   [viewer EXCEPT
                      !.offset = @ + 1,
                      !.shown = @ \o SetToSeq({Latest(lines, i).report : i \in page}),
                      !.step = IF viewer.offset + 1 < Cardinality(Recorded(lines))
                               THEN "page" ELSE "last"]
  /\ UNCHANGED <<file, now, writing, mishaps>>

LeavePages ==
  /\ viewer # NoViewer
  /\ viewer.step # "page"
  /\ viewer' = NoViewer
  /\ UNCHANGED <<file, now, writing, mishaps>>

Next ==
  \/ \E report \in Reports : StartAppend(report)
  \/ EndAppend \/ CutAppend \/ SetClock
  \/ StartPaging \/ ReadPage \/ LeavePages

Spec == Init /\ [][Next]_vars

-----------------------------------------------------------------------------
(* Properties.                                                             *)

ShownOf(i) == {n \in DOMAIN viewer.shown : viewer.shown[n].incident = i}

\* A viewer that has come to the last page has been shown every incident that
\* was there when it began, but for those that were reported on meanwhile,
\* which move to the front.
PagesComplete ==
  (viewer # NoViewer /\ viewer.step = "last") =>
    \A i \in Recorded(viewer.expected) :
      ShownOf(i) # {} \/ Of(file.lines, i) # Of(viewer.expected, i)

\* Reporters race, records come in between the pages, and what a viewer is
\* shown of an incident is never behind what it was shown, or what had been
\* recorded when it began; what is shown as reverified is continuous.  Pages
\* are refused for a write that was cut or is under way, for a clock that was
\* set back, or for an incident whose status went back.
PagesOrderly ==
  viewer # NoViewer =>
    /\ \A m, n \in DOMAIN viewer.shown :
         (m < n /\ viewer.shown[m].incident = viewer.shown[n].incident) =>
            Rank[viewer.shown[m].status] <= Rank[viewer.shown[n].status]
    /\ \A n \in DOMAIN viewer.shown :
         /\ \A k \in Of(viewer.expected, viewer.shown[n].incident) :
              Rank[viewer.expected[k].report.status] <= Rank[viewer.shown[n].status]
         /\ viewer.shown[n].status = "reverified" => Continuous(viewer.shown[n])
    /\ (viewer.step = "invalid" /\ ~viewer.during /\ mishaps = {})
         => \E i \in Recorded(file.lines) : \E m, n \in Of(file.lines, i) :
              m < n /\ Rank[file.lines[m].report.status] > Rank[file.lines[n].report.status]
=============================================================================
