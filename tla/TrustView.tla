------------------------------- MODULE TrustView -------------------------------
(***************************************************************************)
(* The attestation trust page of the read interface, over the trust        *)
(* history and the attestation store while publishers and signers move     *)
(* them on.  A request reads its sources one after the other, without      *)
(* their locks: the attestation store, the current-state file, the         *)
(* history.  The authority store does not change.  Then it compares and    *)
(* verifies what it has read, and answers with a row for each outcome, or  *)
(* refuses: the sources are invalid.                                       *)
(***************************************************************************)
EXTENDS TrustedAttestations

CONSTANTS
  Configurations,    \* sets of configured sources
  NoView

VARIABLE view        \* the request

viewVars == <<vars, view>>

ViewInit == view = NoView

\* Mutation: the attestations are read last.
AttestationsLast == <<"state", "history", "attestations">>

\* The order of the readings.
Order == <<"attestations", "state", "history">>

\* Publications that are under way, or have left an older state behind.
Unsettled ==
  \/ \E p \in Publishers : publishing[p] # NoState
  \/ history.lines # <<>> /\ current # history.lines[Len(history.lines)]

Reading(source) ==
  /\ view # NoView
  /\ view.result = "pending"
  /\ view.step <= Len(Order)
  /\ Order[view.step] = source

Answered == view # NoView /\ view.result = "answered"
Refused == view # NoView /\ view.result = "refused"

-----------------------------------------------------------------------------
(* The request.                                                            *)

\* `disturbed` is for the properties: some publication came in between.
Begin(sources) ==
  /\ view = NoView
  /\ view' = [step |-> 1, result |-> "pending", sources |-> sources, lines |-> <<>>,
              state |-> NoState, states |-> <<>>, rows |-> {}, disturbed |-> Unsettled]
  /\ UNCHANGED vars

Refuse == view' = [view EXCEPT !.result = "refused"]

Skip(source) ==
  /\ Reading(source)
  /\ source \notin view.sources
  /\ view' = [view EXCEPT !.step = @ + 1]
  /\ UNCHANGED vars

ReadAttestations ==
  /\ Reading("attestations")
  /\ "attestations" \in view.sources
  /\ IF LedgerReads
     THEN view' = [view EXCEPT !.step = @ + 1, !.lines = ledger.lines]
     ELSE Refuse
  /\ UNCHANGED vars

\* The store grows while it is read.
AttestationsChange(c) ==
  /\ Reading("attestations")
  /\ "attestations" \in view.sources
  /\ Record(c)
  /\ ledger' # ledger
  /\ view' = [view EXCEPT !.result = "refused", !.disturbed = TRUE]

\* The file must exist.
ReadState ==
  /\ Reading("state")
  /\ "state" \in view.sources
  /\ IF current # NoState
     THEN view' = [view EXCEPT !.step = @ + 1, !.state = current]
     ELSE Refuse
  /\ UNCHANGED vars

ReadHistory ==
  /\ Reading("history")
  /\ "history" \in view.sources
  /\ IF Readable(history)
     THEN view' = [view EXCEPT !.step = @ + 1, !.states = history.lines]
     ELSE Refuse
  /\ UNCHANGED vars

-----------------------------------------------------------------------------
(* What is made of the readings.                                           *)

Authenticated == "authority" \in view.sources

HistoryTip == IF view.states = <<>> THEN NoState ELSE view.states[Len(view.states)]

\* The current state, or the tip of the history where none is configured.
StateShown == IF view.state = NoState THEN HistoryTip ELSE view.state

\* A current state that is not the tip of the history invalidates the page.
Aligned == HistoryTip # NoState => StateShown = HistoryTip

KnownStates ==
  ({StateShown} \union {view.states[i] : i \in 1..Len(view.states)}) \ {NoState}

ViewedBindings == {view.lines[i] : i \in {n \in 1..Len(view.lines) : IsBinding(view.lines[n])}}
ViewedOutcomes == {view.lines[i] : i \in {n \in 1..Len(view.lines) : ~IsBinding(view.lines[n])}}

\* Mutation: the signing key is looked up in the state that is shown.
HoldsInStateShown(line) == KeyActive(StateShown, line.key)

\* The exact state of the binding lists its key as active.
Holds(line) == KeyActive(line.state, line.key)

\* A binding whose state is known and that does not verify invalidates the page.
BindingsHold ==
  Authenticated =>
    \A line \in ViewedBindings : line.state \in KnownStates => Holds(line)

BindingStatus(outcome) ==
  LET bound == {line \in ViewedBindings : OutcomeOf(line) = outcome} IN
  CASE bound = {} -> "not-recorded"
    [] \E line \in bound : line.state \notin KnownStates -> "trust-state-unavailable"
    [] ~Authenticated -> "authority-not-configured"
    [] OTHER -> "verified"

KeyStatus(key) ==
  CASE key = NoKey -> "unsigned"
    [] StateShown = NoState -> "trust-state-unconfigured"
    [] ~Authenticated -> "trust-state-unauthenticated"
    [] key \notin DOMAIN StateShown.anchors -> "untrusted"
    [] OTHER -> StateShown.anchors[key].status

\* The history shows the key as active; nothing is said without an authority.
EverActive(key) ==
  Authenticated /\ \E i \in 1..Len(view.states) : KeyActive(view.states[i], key)

Row(outcome) ==
  [outcome |-> outcome, key |-> KeyStatus(outcome.key),
   binding |-> BindingStatus(outcome), everActive |-> EverActive(outcome.key)]

Project ==
  /\ view # NoView
  /\ view.result = "pending"
  /\ view.step > Len(Order)
  /\ IF Aligned /\ BindingsHold
     THEN view' = [view EXCEPT !.result = "answered", !.state = StateShown,
                               !.rows = {Row(outcome) : outcome \in ViewedOutcomes}]
     ELSE Refuse
  /\ UNCHANGED vars

Leave ==
  /\ Answered \/ Refused
  /\ view' = NoView
  /\ UNCHANGED vars

-----------------------------------------------------------------------------
\* What publishers and signers do meanwhile.
Meanwhile ==
  /\ Next
  /\ view' = IF view = NoView \/ UNCHANGED trustVars THEN view
             ELSE [view EXCEPT !.disturbed = TRUE]

ViewNext ==
  \/ Meanwhile
  \/ \E sources \in Configurations : Begin(sources)
  \/ \E source \in {"attestations", "state", "history"} : Skip(source)
  \/ ReadAttestations \/ ReadState \/ ReadHistory
  \/ \E c \in Signers : AttestationsChange(c)
  \/ Project \/ Leave

ViewSpec == Init /\ ViewInit /\ [][ViewNext]_viewVars

-----------------------------------------------------------------------------
(* Properties.                                                             *)

\* What a page says of a signed outcome is so, although its sources were read
\* at different times: a verified binding is in the store and verifies there,
\* its state is never missing from a page that shows the history, and that
\* history has seen the key active; an outcome without its binding was cut off;
\* a key that is shown as active is active in a published state.
PagesSound ==
  Answered =>
    \A row \in view.rows :
      /\ row.binding = "verified" =>
           /\ \E line \in BoundLines :
                /\ OutcomeOf(line) = row.outcome
                /\ Recorded(line.state)
                /\ KeyActive(line.state, line.key)
           /\ "history" \in view.sources => row.everActive
      /\ "history" \in view.sources => row.binding # "trust-state-unavailable"
      /\ interruptions = 0 /\ row.outcome.key # NoKey => row.binding # "not-recorded"
      /\ row.key = "active" => Recorded(view.state)

\* A page is refused for a reason: its sources moved while they were read, the
\* current state was not the tip, a write had been interrupted, or a removed
\* key was listed again.
RefusalsExplained ==
  Refused =>
    view.disturbed \/ interruptions > 0 \/ ~RemovedKeysStayOut
    \/ current = NoState
=============================================================================
