------------------------------- MODULE LineFile -------------------------------
(***************************************************************************)
(* An append-only file of JSON lines without repair of its tail: the       *)
(* attestation trust history, the outcome attestations and the registry    *)
(* lifecycle history.  A file is the sequence of records whose bytes are   *)
(* all there, and how it ends:                                             *)
(*   ended    after a newline, or empty;                                   *)
(*   open     after a complete record whose newline is missing, which the  *)
(*            readers accept and the next append continues;                *)
(*   spoiled  some line does not parse, so that no read succeeds any more. *)
(***************************************************************************)
EXTENDS Integers, Sequences

Ends == {"ended", "open", "spoiled"}
Files(R) == [lines : Seq(R), end : Ends]
EmptyFile == [lines |-> <<>>, end |-> "ended"]

\* The new records reach the file, each with its newline; the first one
\* continues a line that was left open.
Extended(f, new) ==
  [lines |-> f.lines \o new,
   end |-> IF f.end = "open" THEN "spoiled" ELSE f.end]

\* What the file may be when the process stops, or a write fails, before the
\* new records are complete: the first m of them are there, and perhaps
\* part of the next one.
Interrupted(f, new) ==
  {f} \union
  [lines : {f.lines \o SubSeq(new, 1, m) : m \in 0..Len(new)},
   end : IF f.end = "open" THEN {"spoiled"} ELSE Ends]
=============================================================================
