--------------------------- MODULE RegistryPublication ---------------------------
(***************************************************************************)
(* What happens to a release after its publication was permitted: one      *)
(* script reads the registry back until it serves exactly the permitted    *)
(* files and writes a receipt; another one appends observations of the     *)
(* registry's later state to a history that is chained to the receipt.     *)
(* Both read the release record first and the files afterwards, one by     *)
(* one, while the registry changes and other callers do the same.          *)
(*                                                                         *)
(* The registry is external.  A file name is uploaded once, with the       *)
(* permitted bytes or with others; files and the release may be deleted    *)
(* and the release yanked.  There is one basis with its permit.            *)
(***************************************************************************)
EXTENDS LineFile

CONSTANTS
  Callers,       \* runs of the two scripts
  Names,         \* file names of the basis
  Extra,         \* a file name that is not of the basis
  NoReceipt,
  NoCall,
  MaxTime,       \* bound: values of the clock
  MaxRecords,    \* max_records of the history
  MaxChanges,    \* bound: changes of the registry
  MaxCuts        \* bound: appends that are interrupted

Bytes == {"permitted", "other"}
Statuses == {"available", "yanked", "partially_available", "unavailable"}
Times == 0..MaxTime

\* RegistryPublicationReceipt: of the one basis, told apart by observed_at.
Receipts == [observed : Times]

\* What the release record said: the files, whether they were yanked, and,
\* for the properties, how many observations were recorded at that moment.
Indexes == [present : BOOLEAN, files : SUBSET Names, yanked : BOOLEAN, seen : 0..MaxRecords]

\* RegistryPublicationLifecycleObservation.  predecessor_digest is the
\* number of observations before it: recorded ones never change.
Observations ==
  [receipt : Receipts, previous : 0..MaxRecords, observed : Times,
   status : Statuses, files : SUBSET Names, seen : 0..MaxRecords]

Calls ==
  [script : {"publication", "lifecycle"}, step : {"index", "download", "append"},
   receipt : Receipts \union {NoReceipt}, previous : 0..MaxRecords,
   after : Times, index : Indexes, got : [Names -> Bytes \union {"none"}],
   observed : Times, status : Statuses]

ConstantsAssumption ==
  /\ Extra \notin Names
  /\ Names # {}
  /\ MaxTime \in Nat
  /\ MaxRecords \in Nat
  /\ MaxChanges \in Nat
  /\ MaxCuts \in Nat
  /\ NoReceipt \notin Receipts
  /\ NoCall \notin Calls

VARIABLES
  uploaded,     \* registry: the bytes behind each file name
  listed,       \* registry: the files of the release record
  present,      \* registry: the release record exists
  yankedNow,    \* registry: the release is yanked
  changes,      \* registry: changes so far
  clock,        \* wall clock of the callers
  receipt,      \* the receipt file
  observations, \* the history file
  call,         \* what each caller is doing
  cuts

registryVars == <<uploaded, listed, present, yankedNow, changes>>
publicationVars == <<registryVars, clock, receipt, observations, call, cuts>>

AllNames == Names \union {Extra}

TypeOK ==
  /\ uploaded \in [AllNames -> Bytes \union {"none"}]
  /\ listed \subseteq AllNames
  /\ present \in BOOLEAN
  /\ yankedNow \in BOOLEAN
  /\ changes \in 0..MaxChanges
  /\ clock \in Times
  /\ receipt \in Receipts \union {NoReceipt}
  /\ observations \in Files(Observations)
  /\ call \in [Callers -> Calls \union {NoCall}]
  /\ cuts \in 0..MaxCuts

Init ==
  /\ uploaded = [n \in AllNames |-> "none"]
  /\ listed = {}
  /\ present = FALSE
  /\ yankedNow = FALSE
  /\ changes = 0
  /\ clock = 0
  /\ receipt = NoReceipt
  /\ observations = EmptyFile
  /\ call = [p \in Callers |-> NoCall]
  /\ cuts = 0

-----------------------------------------------------------------------------
(* The registry.                                                           *)

Upload(n, bytes) ==
  /\ uploaded[n] = "none"
  /\ uploaded' = [uploaded EXCEPT ![n] = bytes]
  /\ listed' = listed \union {n}
  /\ present' = TRUE
  /\ UNCHANGED yankedNow

DeleteFile(n) ==
  /\ listed' = listed \ {n}
  /\ n \in listed
  /\ UNCHANGED <<uploaded, present, yankedNow>>

DeleteRelease ==
  /\ present
  /\ present' = FALSE
  /\ listed' = {}
  /\ UNCHANGED <<uploaded, yankedNow>>

Yank ==
  /\ present
  /\ yankedNow' = ~yankedNow
  /\ UNCHANGED <<uploaded, listed, present>>

RegistryChanges ==
  /\ changes < MaxChanges
  /\ changes' = changes + 1
  /\ \/ \E n \in AllNames, bytes \in Bytes : Upload(n, bytes)
     \/ \E n \in AllNames : DeleteFile(n)
     \/ DeleteRelease
     \/ Yank
  /\ UNCHANGED <<clock, receipt, observations, call, cuts>>

\* The wall clock may also be set back.
SetClock ==
  /\ clock' \in Times \ {clock}
  /\ UNCHANGED <<registryVars, receipt, observations, call, cuts>>

-----------------------------------------------------------------------------
(* The history.                                                            *)

\* verify_registry_publication_lifecycle_observation: an observation fits
\* behind the ones before it.  Its files were compared with the basis.
Follows(o, before, r) ==
  /\ o.receipt = r
  /\ o.previous = Len(before)
  /\ o.observed >= (IF before = <<>> THEN r.observed ELSE before[Len(before)].observed)
  /\ CASE o.status = "unavailable" -> o.files = {}
       [] o.status = "partially_available" -> o.files # Names
       [] OTHER -> o.files = Names

\* _read_unlocked, with the receipt the caller has loaded.
ReadsAs(r) ==
  /\ observations.end # "spoiled"
  /\ Len(observations.lines) <= MaxRecords
  /\ \A i \in 1..Len(observations.lines) :
       Follows(observations.lines[i], SubSeq(observations.lines, 1, i - 1), r)

-----------------------------------------------------------------------------
(* The scripts.                                                            *)

NoIndex == [present |-> FALSE, files |-> {}, yanked |-> FALSE, seen |-> 0]
NothingRead == [n \in Names |-> "none"]

Goto(p, c) == call' = [call EXCEPT ![p] = c]
Return(p) == call' = [call EXCEPT ![p] = NoCall]

Doing(p, step) == call[p] # NoCall /\ call[p].step = step

\* main of reconcile_registry_publication: basis and permit are loaded and
\* fit together.
BeginPublication(p) ==
  /\ call[p] = NoCall
  /\ Goto(p, [script |-> "publication", step |-> "index", receipt |-> NoReceipt,
              previous |-> 0, after |-> 0, index |-> NoIndex, got |-> NothingRead,
              observed |-> 0, status |-> "available"])
  /\ UNCHANGED <<registryVars, clock, receipt, observations, cuts>>

\* main of reconcile_registry_publication_lifecycle: the tip of the history
\* is read once, before the first attempt.
BeginLifecycle(p) ==
  /\ call[p] = NoCall
  /\ receipt # NoReceipt
  /\ ReadsAs(receipt)
  /\ LET lines == observations.lines
     IN  Goto(p, [script |-> "lifecycle", step |-> "index", receipt |-> receipt,
                  previous |-> Len(lines),
                  after |-> IF lines = <<>> THEN receipt.observed
                            ELSE lines[Len(lines)].observed,
                  index |-> NoIndex, got |-> NothingRead, observed |-> 0,
                  status |-> "available"])
  /\ UNCHANGED <<registryVars, clock, receipt, observations, cuts>>

\* The release record is read.  No record is an error when publishing, and
\* an observation later; a file that is not of the basis ends the call.
ReadIndex(p) ==
  /\ Doing(p, "index")
  /\ present \/ call[p].script = "lifecycle"
  /\ IF listed \subseteq Names
     THEN Goto(p, [call[p] EXCEPT
                     !.step = "download", !.got = NothingRead,
                     !.index = [present |-> present, files |-> listed, yanked |-> yankedNow,
                                seen |-> Len(observations.lines)]])
     ELSE Return(p)
  /\ UNCHANGED <<registryVars, clock, receipt, observations, cuts>>

\* One of the files is read; the bytes may be others than those uploaded.
Download(p) ==
  /\ Doing(p, "download")
  /\ \E n \in call[p].index.files :
       /\ call[p].got[n] = "none"
       /\ \E bytes \in {uploaded[n], "other"} :
            Goto(p, [call[p] EXCEPT !.got[n] = bytes])
  /\ UNCHANGED <<registryVars, clock, receipt, observations, cuts>>

\* A request fails, and the script tries again from the start.
Retry(p) ==
  /\ Doing(p, "download")
  /\ Goto(p, [call[p] EXCEPT !.step = "index"])
  /\ UNCHANGED <<registryVars, clock, receipt, observations, cuts>>

\* The call raises, gives up, or its process ends.
GiveUp(p) ==
  /\ call[p] # NoCall
  /\ Return(p)
  /\ UNCHANGED <<registryVars, clock, receipt, observations, cuts>>

\* Mutation: the listed files are compared, and missing ones are not missed.
FilesMatchListed(c) ==
  \A n \in c.index.files : c.got[n] = "permitted"

\* The files that were listed have the digests and sizes of the basis.
FilesMatch(c) ==
  /\ \A n \in c.index.files : c.got[n] = "permitted"
  /\ c.script = "publication" => c.index.files = Names

\* reconcile_registry_publication, write_registry_publication_receipt
WriteReceipt(p) ==
  /\ Doing(p, "download")
  /\ call[p].script = "publication"
  /\ FilesMatch(call[p])
  /\ ~call[p].index.yanked
  /\ receipt' = [observed |-> clock]
  /\ Return(p)
  /\ UNCHANGED <<registryVars, clock, observations, cuts>>

StatusOf(index) ==
  IF ~index.present THEN "unavailable"
  ELSE IF index.files # Names THEN "partially_available"
  ELSE IF index.yanked THEN "yanked" ELSE "available"

\* reconcile_registry_publication_lifecycle; the time is taken now.
Reconcile(p) ==
  /\ Doing(p, "download")
  /\ call[p].script = "lifecycle"
  /\ FilesMatch(call[p])
  /\ clock >= call[p].after
  /\ Goto(p, [call[p] EXCEPT !.step = "append", !.observed = clock,
                             !.status = StatusOf(call[p].index)])
  /\ UNCHANGED <<registryVars, clock, receipt, observations, cuts>>

\* Mutation: the predecessor is filled in when the observation is appended.
ObservationAtTip(c) ==
  [receipt |-> c.receipt, previous |-> Len(observations.lines),
   observed |-> c.observed, status |-> c.status, files |-> c.index.files,
   seen |-> c.index.seen]

ObservationOf(c) ==
  [receipt |-> c.receipt, previous |-> c.previous, observed |-> c.observed,
   status |-> c.status, files |-> c.index.files, seen |-> c.index.seen]

\* append verifies the whole history and the observation behind its tip.
AppendReaches(p) ==
  /\ Doing(p, "append")
  /\ ReadsAs(call[p].receipt)
  /\ Follows(ObservationOf(call[p]), observations.lines, call[p].receipt)
  /\ Len(observations.lines) < MaxRecords

AppendObservation(p) ==
  /\ AppendReaches(p)
  /\ observations' = Extended(observations, <<ObservationOf(call[p])>>)
  /\ Return(p)
  /\ UNCHANGED <<registryVars, clock, receipt, cuts>>

AppendCut(p) ==
  /\ AppendReaches(p)
  /\ cuts < MaxCuts
  /\ cuts' = cuts + 1
  /\ observations' \in Interrupted(observations, <<ObservationOf(call[p])>>)
  /\ Return(p)
  /\ UNCHANGED <<registryVars, clock, receipt>>

Next ==
  \/ RegistryChanges
  \/ SetClock
  \/ \E p \in Callers :
       \/ BeginPublication(p) \/ BeginLifecycle(p) \/ ReadIndex(p) \/ Download(p)
       \/ Retry(p) \/ GiveUp(p) \/ WriteReceipt(p) \/ Reconcile(p)
       \/ AppendObservation(p) \/ AppendCut(p)

Spec == Init /\ [][Next]_publicationVars
-----------------------------------------------------------------------------
(* Properties.                                                             *)

\* "the registry publicly serves the exact authorized distribution bytes":
\* there is a receipt, or an observation of a complete release, only after
\* every file of the basis was uploaded with its permitted bytes.
PublishedBytesPermitted ==
  \/ receipt # NoReceipt
  \/ \E i \in 1..Len(observations.lines) :
       observations.lines[i].status \in {"available", "yanked"}
  => \A n \in Names : uploaded[n] = "permitted"

\* The history is in the order of what the registry served: an observation
\* comes from a release record that was read after its predecessor had been
\* recorded, whatever other callers append meanwhile.
ObservationsInOrder ==
  \A i \in 1..Len(observations.lines) : observations.lines[i].seen = i - 1
=============================================================================
