----------------------------- MODULE Pages_proofs -----------------------------
(***************************************************************************)
(* Proofs of what Pages promises, for any values of its constants.  The    *)
(* trust page and the readers of the workspace have proofs of their own,   *)
(* about the same definitions.                                             *)
(***************************************************************************)
EXTENDS Pages, LineFile_proofs, SequenceTheorems, FiniteSetTheorems

-----------------------------------------------------------------------------
(* The page of an assurance decision.  A decision is evaluated again from  *)
(* what it records; the rule that decided is the first that applies then,  *)
(* too, so that every decision the policy makes replays.                   *)

\* The k-th rule is the first that applies to an input.
Decides(k, i) ==
  /\ k \in 1..10
  /\ Deciding!Applies(i)[k]
  /\ \A j \in 1..(k - 1) : ~Deciding!Applies(i)[j]

LEMMA SomeRuleDecides ==
  ASSUME NEW i
  PROVE  \E k \in 1..10 : Decides(k, i)
<1> DEFINE a == Deciding!Applies(i)
<1>1. a[10]
  BY DEF Deciding!Applies
<1>2. 10 \in 1..10 /\ 9 \in 1..10 /\ 8 \in 1..10 /\ 7 \in 1..10 /\ 6 \in 1..10
      /\ 5 \in 1..10 /\ 4 \in 1..10 /\ 3 \in 1..10 /\ 2 \in 1..10 /\ 1 \in 1..10
  OBVIOUS
<1> HIDE DEF a
<1>3. \E k \in 1..10 : a[k] /\ \A j \in 1..(k - 1) : ~a[j]
  BY <1>1, SMT
<1>. QED BY <1>3 DEF a, Decides

LEMMA RuleThatDecides ==
  ASSUME NEW i, NEW k, Decides(k, i)
  PROVE  Deciding!RuleFor(i) = Deciding!Rules[k]
<1> DEFINE Earliest(n) == /\ Deciding!Applies(i)[n]
                          /\ \A j \in 1..(n - 1) : ~Deciding!Applies(i)[j]
<1>1. DOMAIN Deciding!Rules = 1..10
  BY DEF Deciding!Rules
<1>2. k \in 1..10 /\ Earliest(k)
  BY DEF Decides
<1>3. ASSUME NEW n \in 1..10, Earliest(n) PROVE n = k
  <2>1. ~(n < k) /\ ~(k < n)
    BY <1>2, <1>3
  <2>. QED BY <1>2, <2>1
<1>4. (CHOOSE n \in 1..10 : Earliest(n)) = k
  BY <1>2, <1>3
<1>. QED BY <1>1, <1>4, Zenon DEF Deciding!RuleFor

LEMMA RuleFacts ==
  ASSUME NEW k \in 1..10
  PROVE  /\ Deciding!Rules[k].name \in Deciding!RuleNames
         /\ Deciding!Rules[k].decision
              \in {Deciding!Rules[n].decision : n \in DOMAIN Deciding!Rules}
         /\ Deciding!Rules[k].name = "recovery-required" <=> k = 2
  BY DEF Deciding!Rules, Deciding!RuleNames

LEMMA EvaluationsReplay ==
  ASSUME Deciding!ConstantsAssumption, NEW i \in Deciding!AllInputs, NEW at
  PROVE  Deciding!Replays(Deciding!Evaluate(i, at))
<1> DEFINE d == Deciding!Evaluate(i, at)
           again == [subject |-> d.subject, state |-> d.state,
                     verification |-> d.verification, trust |-> d.trust,
                     recovery |-> d.rule = "recovery-required", risk |-> d.risk]
<1>1. PICK k \in 1..10 : Decides(k, i)
  BY SomeRuleDecides
<1>2. Deciding!RuleFor(i) = Deciding!Rules[k]
  BY <1>1, RuleThatDecides
<1> DEFINE rule == Deciding!Rules[k]
<1>3. /\ d.subject = i.subject /\ d.decision = rule.decision /\ d.rule = rule.name
      /\ d.state = i.state /\ d.verification = i.verification /\ d.trust = i.trust
      /\ d.risk = IF i.risk # Nothing THEN i.risk
                  ELSE IF rule.decision = "ALLOW" THEN Nothing ELSE rule.name
      /\ d.at = at
  BY <1>2, Zenon DEF Deciding!Evaluate
<1>4. /\ again.subject = i.subject /\ again.state = i.state
      /\ again.verification = i.verification /\ again.trust = i.trust
      /\ again.recovery <=> k = 2
      /\ again.risk = d.risk
  BY <1>1, <1>3, RuleFacts
<1>5. Decides(k, again)
  <2> HIDE DEF again, d, rule
  <2>1. ASSUME NEW j \in 1..10, j # 2
        PROVE  Deciding!Applies(again)[j] <=> Deciding!Applies(i)[j]
    <3>1. j \in {1, 3, 4, 5, 6, 7, 8, 9, 10}
      BY <2>1
    <3>2. \A n \in {1, 3} : Deciding!Applies(again)[n] <=> Deciding!Applies(i)[n]
      BY <1>4 DEF Deciding!Applies
    <3>3. \A n \in {4, 5, 6} : Deciding!Applies(again)[n] <=> Deciding!Applies(i)[n]
      BY <1>4 DEF Deciding!Applies
    <3>4. Deciding!Applies(again)[7] <=> Deciding!Applies(i)[7]
      BY <1>4, SMTT(30) DEF Deciding!Applies
    <3>5. Deciding!Applies(again)[8] <=> Deciding!Applies(i)[8]
      BY <1>4, SMTT(30) DEF Deciding!Applies
    <3>6. Deciding!Applies(again)[9] <=> Deciding!Applies(i)[9]
      BY <1>4, SMTT(30) DEF Deciding!Applies
    <3>7. Deciding!Applies(again)[10] <=> Deciding!Applies(i)[10]
      BY <1>4, SMTT(30) DEF Deciding!Applies
    <3>. QED BY <3>1, <3>2, <3>3, <3>4, <3>5, <3>6, <3>7
  <2>2. Deciding!Applies(again)[2] <=> k = 2
    BY <1>4 DEF Deciding!Applies
  <2>3. Deciding!Applies(again)[k]
    BY <1>1, <2>1, <2>2 DEF Decides
  <2>4. ASSUME NEW j \in 1..(k - 1) PROVE ~Deciding!Applies(again)[j]
    <3>1. ~Deciding!Applies(i)[j] /\ j \in 1..10 /\ j < k
      BY <1>1, <2>4 DEF Decides
    <3>. QED BY <2>1, <2>2, <3>1
  <2>. QED BY <1>1, <2>3, <2>4 DEF Decides
<1>6. Deciding!RuleFor(again) = rule
  BY <1>5, RuleThatDecides
<1>7. rule.name # Nothing
  BY <1>1, RuleFacts DEF Deciding!ConstantsAssumption
<1>8. (IF again.risk # Nothing THEN again.risk
       ELSE IF rule.decision = "ALLOW" THEN Nothing ELSE rule.name) = d.risk
  BY <1>3, <1>4, <1>7, Zenon
<1>9. Deciding!Evaluate(again, d.at)
        = [subject |-> again.subject, decision |-> rule.decision, rule |-> rule.name,
           state |-> again.state, verification |-> again.verification,
           trust |-> again.trust, risk |-> d.risk, at |-> d.at]
  BY <1>6, <1>8, Zenon DEF Deciding!Evaluate
<1>10. d = [subject |-> i.subject, decision |-> rule.decision, rule |-> rule.name,
            state |-> i.state, verification |-> i.verification, trust |-> i.trust,
            risk |-> d.risk, at |-> at]
  BY <1>2, Zenon DEF Deciding!Evaluate
<1>11. Deciding!Evaluate(again, d.at) = d
  BY <1>3, <1>4, <1>9, <1>10, Zenon
<1>. QED BY <1>11, Zenon DEF Deciding!Replays

LEMMA EvaluationsTyped ==
  ASSUME NEW i \in Deciding!AllInputs, NEW at \in Deciding!Moments
  PROVE  Deciding!Evaluate(i, at) \in Deciding!Decisions
<1>1. PICK k \in 1..10 : Decides(k, i)
  BY SomeRuleDecides
<1>2. Deciding!RuleFor(i) = Deciding!Rules[k]
  BY <1>1, RuleThatDecides
<1> DEFINE rule == Deciding!Rules[k]
           d == Deciding!Evaluate(i, at)
<1>3. d = [subject |-> i.subject, decision |-> rule.decision, rule |-> rule.name,
           state |-> i.state, verification |-> i.verification, trust |-> i.trust,
           risk |-> IF i.risk # Nothing THEN i.risk
                    ELSE IF rule.decision = "ALLOW" THEN Nothing ELSE rule.name,
           at |-> at]
  BY <1>2, Zenon DEF Deciding!Evaluate
<1>4. /\ rule.name \in Deciding!RuleNames
      /\ rule.decision \in {Deciding!Rules[n].decision : n \in DOMAIN Deciding!Rules}
  BY <1>1, RuleFacts
<1>5. /\ i.subject \in Assured /\ i.state \in Deciding!ReliabilityStates
      /\ i.verification \in Deciding!Verifications /\ i.trust \in {"trusted", "revoked"}
      /\ i.risk \in Risks \union {Nothing}
  BY DEF Deciding!AllInputs
<1> HIDE DEF rule, d
<1>. QED BY <1>3, <1>4, <1>5 DEF Deciding!Decisions, d

\* What is loaded or excepted was evaluated as it is; a page that refused was
\* to show an exception, and only decisions that allow exceptions get one.
AssuranceInv ==
  /\ Deciding!TypeOK
  /\ Deciding!DecisionsReplay
  /\ Deciding!RefusalsAreStale
  /\ exceptionFile # Nothing => Deciding!Excepted(exceptionFile.of)
  /\ Deciding!Reads => page.with

LEMMA AssuranceInit ==
  ASSUME Deciding!ConstantsAssumption, Deciding!Init
  PROVE  AssuranceInv
  BY DEF Deciding!ConstantsAssumption, Deciding!Init, AssuranceInv, Deciding!TypeOK,
     Deciding!Moments, Deciding!DecisionsReplay, Deciding!RefusalsAreStale, Deciding!Reads

LEMMA AssuranceStep ==
  ASSUME Deciding!ConstantsAssumption, AssuranceInv,
         [Deciding!Next]_(Deciding!assuranceVars)
  PROVE  AssuranceInv'
<1> USE DEF Deciding!DecisionsReplay, Deciding!RefusalsAreStale, Deciding!Reads
<1>0. /\ decisionFile \in Deciding!Decisions \union {Nothing}
      /\ exceptionFile \in Deciding!Exceptions \union {Nothing}
      /\ loaded \in Deciding!Decisions \union {Nothing}
      /\ decisionTime \in Deciding!Moments
      /\ page \in Deciding!Requests \union {Nothing}
  BY Zenon DEF AssuranceInv, Deciding!TypeOK
<1>1. CASE Deciding!Decide
  <2>1. PICK i \in FirstInputs \union LaterInputs :
          decisionFile' = Deciding!Evaluate(i, decisionTime)
    BY <1>1, Zenon DEF Deciding!Decide
  <2>2. i \in Deciding!AllInputs
    BY <2>1 DEF Deciding!ConstantsAssumption
  <2>3. decisionFile' \in Deciding!Decisions
    BY <1>0, <2>1, <2>2, EvaluationsTyped, Zenon
  <2>4. Deciding!Replays(decisionFile)'
    BY <2>1, <2>2, EvaluationsReplay, Zenon
  <2>5. /\ exceptionFile' = exceptionFile /\ page' = page
        /\ loaded' = loaded /\ decisionTime' = decisionTime
    BY <1>1, Zenon DEF Deciding!Decide
  <2>. QED BY <2>3, <2>4, <2>5, Zenon DEF AssuranceInv, Deciding!TypeOK
<1>2. CASE Deciding!LoadDecision \/ Deciding!Tick \/ UNCHANGED Deciding!assuranceVars
  <2>1. decisionFile' = decisionFile /\ exceptionFile' = exceptionFile /\ page' = page
    BY <1>2, Zenon DEF Deciding!LoadDecision, Deciding!Tick, Deciding!assuranceVars
  <2>2. loaded' \in {loaded, decisionFile}
    BY <1>2, Zenon DEF Deciding!LoadDecision, Deciding!Tick, Deciding!assuranceVars
  <2>3. decisionTime' \in Deciding!Moments
    BY <1>0, <1>2 DEF Deciding!LoadDecision, Deciding!Tick, Deciding!assuranceVars,
       Deciding!Moments, Deciding!ConstantsAssumption
  <2>. QED BY <1>0, <2>1, <2>2, <2>3, Zenon DEF AssuranceInv, Deciding!TypeOK
<1>3. CASE Deciding!CreateException
  <2>1. PICK expires \in Deciding!Moments, digested \in BOOLEAN :
          exceptionFile' = [of |-> loaded, digested |-> digested, created |-> decisionTime,
                            expires |-> expires]
    BY <1>3, Zenon DEF Deciding!CreateException
  <2>2. /\ decisionFile' = decisionFile /\ page' = page /\ decisionTime' = decisionTime
        /\ loaded' = Nothing
        /\ loaded # Nothing /\ Deciding!Excepted(loaded)
    BY <1>3, Zenon DEF Deciding!CreateException
  <2>3. exceptionFile' \in Deciding!Exceptions /\ exceptionFile'.of = loaded
    BY <1>0, <2>1, <2>2 DEF Deciding!Exceptions
  <2>. QED BY <1>0, <2>2, <2>3, Zenon DEF AssuranceInv, Deciding!TypeOK
<1>4. CASE Deciding!WithdrawException
  <2>1. /\ decisionFile' = decisionFile /\ page' = page /\ exceptionFile' = Nothing
        /\ loaded' = loaded /\ decisionTime' = decisionTime
    BY <1>4, Zenon DEF Deciding!WithdrawException
  <2>. QED BY <2>1, Zenon DEF AssuranceInv, Deciding!TypeOK
<1>5. CASE Deciding!ReadDecision
  <2>1. /\ decisionFile' = decisionFile /\ exceptionFile' = exceptionFile
        /\ loaded' = loaded /\ decisionTime' = decisionTime
        /\ decisionFile # Nothing /\ Deciding!Replays(decisionFile)
    BY <1>5, Zenon DEF Deciding!ReadDecision, AssuranceInv
  <2>2. PICK with \in BOOLEAN :
          page' = [step |-> IF with THEN "exception" ELSE "answered",
                   with |-> with, decision |-> decisionFile, exception |-> Nothing,
                   status |-> Nothing]
    BY <1>5, <2>1, Zenon DEF Deciding!ReadDecision
  <2>3. page' \in Deciding!Requests
    BY <1>0, <2>1, <2>2 DEF Deciding!Requests
  <2>4. page'.step # "refused" /\ (page'.step = "exception" => page'.with)
    BY <2>2
  <2>. QED BY <2>1, <2>3, <2>4, Zenon DEF AssuranceInv, Deciding!TypeOK
<1>6. CASE Deciding!ReadException
  <2> DEFINE bound == /\ exceptionFile # Nothing
                      /\ Deciding!BindsTo(exceptionFile, page.decision)
  <2>1. /\ decisionFile' = decisionFile /\ exceptionFile' = exceptionFile
        /\ loaded' = loaded /\ decisionTime' = decisionTime
        /\ page # Nothing
        /\ page' = [page EXCEPT
                      !.step = IF bound THEN "answered" ELSE "refused",
                      !.exception = exceptionFile,
                      !.status = IF ~bound THEN Nothing
                                 ELSE IF decisionTime < exceptionFile.expires
                                      THEN "active" ELSE "expired"]
    BY <1>6, Zenon DEF Deciding!ReadException
  <2>2. ~bound => exceptionFile = Nothing \/ exceptionFile.of # page.decision
    BY Zenon DEF AssuranceInv, Deciding!BindsTo
  <2>3. page.with
    BY <1>6, Zenon DEF AssuranceInv, Deciding!ReadException
  <2> HIDE DEF bound
  <2>4. /\ page' \in Deciding!Requests
        /\ page'.step = "refused" => ~bound
        /\ page'.step # "exception"
        /\ page'.with = page.with /\ page'.decision = page.decision
        /\ page'.exception = exceptionFile
    BY <1>0, <2>1 DEF Deciding!Requests
  <2>. QED BY <2>1, <2>2, <2>3, <2>4, Zenon DEF AssuranceInv, Deciding!TypeOK
<1>. QED BY <1>1, <1>2, <1>3, <1>4, <1>5, <1>6, Zenon DEF Deciding!Next

\* Whatever the policy decided replays, also when the residual risk was the
\* rule's own, and the page refuses only an exception that is missing or was
\* created from another evaluation than the one it read.
LEMMA AssuranceInvariance ==
  ASSUME Deciding!ConstantsAssumption
  PROVE  Deciding!Spec => []Deciding!AssuranceSound
<1>1. AssuranceInv => Deciding!AssuranceSound
  BY Zenon DEF AssuranceInv, Deciding!AssuranceSound
<1>. QED BY AssuranceInit, AssuranceStep, <1>1, PTL DEF Deciding!Spec

-----------------------------------------------------------------------------
(* Checkpoints.  As long as no two publications cross, the one under way   *)
(* is alone: what it compared is so still when it puts its file in place.  *)

\* No checkpoint is not a checkpoint.
NoCheckpointIsNone ==
  \A id, tip, count, time, previous :
    NoCheckpoint # [id |-> id, tip |-> tip, count |-> count, issued |-> time,
                    previous |-> previous]

\* A checkpoint holds the one before it, so that they are no set.
IsCheckpoint(c) ==
  /\ c = [id |-> c.id, tip |-> c.tip, count |-> c.count, issued |-> c.issued,
          previous |-> c.previous]
  /\ c.id \in CheckpointIds
  /\ c.count \in Nat
  /\ c.issued \in Nat

\* Files of checkpoints, by their identities.
CheckpointFiles(files) ==
  /\ files = [i \in CheckpointIds |-> files[i]]
  /\ \A i \in CheckpointIds :
       files[i] # NoCheckpoint => IsCheckpoint(files[i]) /\ files[i].id = i

PublicationsTyped ==
  /\ publication = [p \in Anchorers |-> publication[p]]
  /\ \A p \in Anchorers :
       publication[p] # NoPublication =>
         /\ publication[p] = [pc |-> publication[p].pc,
                              checkpoint |-> publication[p].checkpoint]
         /\ IsCheckpoint(publication[p].checkpoint)

Accepted(p) == Anchoring!At(p, "staging") \/ Anchoring!At(p, "replacing")

\* What an accepted checkpoint was compared with.
Compared(p) ==
  LET c == publication[p].checkpoint IN
  /\ anchored[c.id] = NoCheckpoint
  /\ Anchoring!LatestReads
  /\ Anchoring!FollowsOn(Anchoring!Latest, c)
  /\ Anchoring!At(p, "replacing") => staged[c.id] = c

\* Some published checkpoint is not before another one.
SomeLatest ==
  Anchoring!Published # {} =>
    \E l \in Anchoring!Published : ~\E d \in Anchoring!Published : Anchoring!Before(l, d)

AnchorsTyped ==
  /\ records \in Seq(AnchoredRecords)
  /\ now \in Nat
  /\ CheckpointFiles(anchored)
  /\ CheckpointFiles(staged)
  /\ PublicationsTyped
  /\ \A c \in acknowledged : IsCheckpoint(c)
  /\ crossed \in BOOLEAN

AnchorInv ==
  /\ AnchorsTyped
  /\ ~crossed =>
       /\ \A p, q \in Anchorers : Accepted(p) /\ Accepted(q) => p = q
       /\ \A p \in Anchorers : Accepted(p) => Compared(p)
       /\ SomeLatest
  /\ Anchoring!AcknowledgedAnchored

LEMMA AnchorInit ==
  ASSUME Anchoring!ConstantsAssumption, Anchoring!Init
  PROVE  AnchorInv
<1>1. /\ records = <<>> /\ now = 0 /\ acknowledged = {} /\ crossed = FALSE
      /\ anchored = [i \in CheckpointIds |-> NoCheckpoint]
      /\ staged = [i \in CheckpointIds |-> NoCheckpoint]
      /\ publication = [p \in Anchorers |-> NoPublication]
  BY DEF Anchoring!Init
<1>2. AnchorsTyped
  <2>1. CheckpointFiles(anchored) /\ CheckpointFiles(staged)
    BY <1>1 DEF CheckpointFiles
  <2>2. PublicationsTyped
    BY <1>1 DEF PublicationsTyped
  <2>3. records \in Seq(AnchoredRecords)
    BY <1>1
  <2>4. now \in Nat /\ crossed \in BOOLEAN /\ \A c \in acknowledged : IsCheckpoint(c)
    BY <1>1
  <2>. QED BY <2>1, <2>2, <2>3, <2>4, Zenon DEF AnchorsTyped
<1>3. Anchoring!Published = {}
  BY <1>1 DEF Anchoring!Published
<1>4. \A p \in Anchorers : ~Accepted(p)
  BY <1>1 DEF Accepted, Anchoring!At
<1>5. SomeLatest /\ Anchoring!LatestReads
  BY <1>3 DEF SomeLatest, Anchoring!LatestReads
<1>. QED BY <1>1, <1>2, <1>4, <1>5 DEF AnchorInv, Anchoring!AcknowledgedAnchored

\* The latest checkpoint.
LEMMA LatestIsLast ==
  ASSUME SomeLatest, Anchoring!Published # {}
  PROVE  /\ Anchoring!Latest \in Anchoring!Published
         /\ \A d \in Anchoring!Published : ~Anchoring!Before(Anchoring!Latest, d)
  BY DEF SomeLatest, Anchoring!Latest

LEMMA PublishedTyped ==
  ASSUME CheckpointFiles(anchored), NEW c \in Anchoring!Published
  PROVE  IsCheckpoint(c) /\ c # NoCheckpoint /\ anchored[c.id] = c
  BY DEF CheckpointFiles, Anchoring!Published

\* A checkpoint that follows the latest one is the latest then, or stalled.
LEMMA LaterCheckpoint ==
  ASSUME CheckpointFiles(anchored), CheckpointFiles(anchored'), SomeLatest,
         Anchoring!LatestReads, NEW c, IsCheckpoint(c), c # NoCheckpoint,
         c \notin Anchoring!Published,
         Anchoring!Published' = Anchoring!Published \union {c},
         Anchoring!FollowsOn(Anchoring!Latest, c)
  PROVE  /\ SomeLatest'
         /\ Anchoring!LatestReads' \/ Anchoring!Stalled(c)
<1> DEFINE P == Anchoring!Published
           Q == P \union {c}
           B(x, y) == Anchoring!Before(x, y)
           l == Anchoring!Latest
<1>1. \A x \in Q : x.count \in Nat /\ x.issued \in Nat /\ x # NoCheckpoint
  BY PublishedTyped DEF IsCheckpoint
<1>2. /\ \A x \in Q : ~B(x, x)
      /\ \A x, y \in Q : B(x, y) => ~B(y, x)
      /\ \A x, y, z \in Q : B(x, y) /\ B(y, z) => B(x, z)
  <2> HIDE DEF Q
  <2>. QED BY <1>1, SMT DEF Anchoring!Before
<1>3. /\ SomeLatest' <=> (Q # {} => \E m \in Q : ~\E d \in Q : B(m, d))
      /\ Anchoring!LatestReads' <=>
           /\ \A x, y \in Q : x = y \/ B(x, y) \/ B(y, x)
           /\ \A x, y \in Q :
                B(x, y) /\ ~(\E e \in Q : B(x, e) /\ B(e, y)) => Anchoring!FollowsOn(x, y)
  BY Zenon DEF SomeLatest, Anchoring!LatestReads, Anchoring!Adjacent
<1>4. CASE P = {}
  <2>1. Q = {c}
    BY <1>4
  <2>. QED BY <1>2, <1>3, <2>1
<1>5. CASE P # {}
  <2>1. l \in P /\ \A d \in P : ~B(l, d)
    BY <1>5, LatestIsLast
  <2>2. c.previous = l /\ l.count <= c.count
    BY <1>1, <2>1 DEF Anchoring!FollowsOn
  <2>3. \A x \in P : x = l \/ B(x, l)
    BY <2>1, Zenon DEF Anchoring!LatestReads
  <2>4. CASE B(l, c)
    <3> HIDE DEF B, l, P
    <3>1. \A x \in P : B(x, c)
      BY <1>2, <2>1, <2>3, <2>4
    <3>2. \A d \in Q : ~B(c, d)
      BY <1>2, <3>1
    <3>3. \A x, y \in P : x = y \/ B(x, y) \/ B(y, x)
      BY Zenon DEF Anchoring!LatestReads, B, P
    <3>4. \A x, y \in Q : x = y \/ B(x, y) \/ B(y, x)
      BY <3>1, <3>3
    <3>5. ASSUME NEW x \in Q, NEW y \in Q, B(x, y),
                 ~\E e \in Q : B(x, e) /\ B(e, y)
          PROVE  Anchoring!FollowsOn(x, y)
      <4>1. x \in P
        BY <3>2, <3>5
      <4>2. CASE y = c
        <5>1. x = l
          BY <2>1, <2>3, <2>4, <3>5, <4>1, <4>2
        <5>. QED BY <4>2, <5>1 DEF l
      <4>3. CASE y \in P
        BY <3>5, <4>1, <4>3, Zenon DEF Anchoring!LatestReads, Anchoring!Adjacent, B, P
      <4>. QED BY <4>2, <4>3
    <3>. QED BY <1>3, <3>2, <3>4, <3>5
  <2>5. CASE ~B(l, c)
    <3>1. Anchoring!Stalled(c)
      BY <1>1, <2>1, <2>2, <2>5 DEF Anchoring!Stalled, Anchoring!Before
    <3>2. \A d \in Q : ~B(l, d)
      BY <2>1, <2>5
    <3>. QED BY <1>3, <2>1, <3>1, <3>2
  <2>. QED BY <2>4, <2>5
<1>. QED BY <1>4, <1>5

\* The directory stays as it is.
LEMMA DirectoryStays ==
  ASSUME anchored' = anchored
  PROVE  /\ Anchoring!Published' = Anchoring!Published
         /\ Anchoring!LatestReads' <=> Anchoring!LatestReads
         /\ SomeLatest' <=> SomeLatest
         /\ Anchoring!Latest' = Anchoring!Latest
<1>1. Anchoring!Published' = Anchoring!Published
  BY Zenon DEF Anchoring!Published
<1>2. Anchoring!LatestReads' <=> Anchoring!LatestReads
  BY <1>1, SMT DEF Anchoring!LatestReads, Anchoring!Adjacent
<1>3. SomeLatest' <=> SomeLatest
  BY <1>1, SMT DEF SomeLatest
<1>4. Anchoring!Latest' = Anchoring!Latest
  <2> DEFINE P == Anchoring!Published
             Q == Anchoring!Published'
             LatestOf(S) == IF S = {} THEN NoCheckpoint
                            ELSE CHOOSE c \in S : ~\E d \in S : Anchoring!Before(c, d)
  <2>1. Anchoring!Latest = LatestOf(P) /\ Anchoring!Latest' = LatestOf(Q)
    BY Zenon DEF Anchoring!Latest
  <2>2. LatestOf(P) = LatestOf(Q)
    <3> HIDE DEF P, Q, LatestOf
    <3>1. P = Q
      BY <1>1 DEF P, Q
    <3>. QED BY <3>1
  <2>. QED BY <2>1, <2>2
<1>. QED BY <1>1, <1>2, <1>3, <1>4

\* A publisher moves to where it has accepted nothing; what is acknowledged
\* is published.
LEMMA PublisherMoves ==
  ASSUME AnchorInv, NEW p \in Anchorers, NEW x,
         publication' = [publication EXCEPT ![p] = x],
         \/ x = NoPublication
         \/ /\ x = [pc |-> x.pc, checkpoint |-> x.checkpoint]
            /\ x.pc \notin {"staging", "replacing"}
            /\ IsCheckpoint(x.checkpoint),
         UNCHANGED <<records, now, anchored, staged, crossed>>,
         \/ acknowledged' = acknowledged
         \/ \E c \in Anchoring!Published : acknowledged' = acknowledged \union {c}
  PROVE  AnchorInv'
<1>1. /\ publication = [q \in Anchorers |-> publication[q]]
      /\ \A q \in Anchorers : publication'[q] = IF q = p THEN x ELSE publication[q]
      /\ publication' = [q \in Anchorers |-> publication'[q]]
  BY DEF AnchorInv, AnchorsTyped, PublicationsTyped
<1>2. PublicationsTyped'
  BY <1>1, Zenon DEF AnchorInv, AnchorsTyped, PublicationsTyped, IsCheckpoint
<1>3. \A c \in acknowledged' : IsCheckpoint(c)
  BY PublishedTyped DEF AnchorInv, AnchorsTyped
<1>4. AnchorsTyped'
  BY <1>2, <1>3, Zenon DEF AnchorInv, AnchorsTyped, CheckpointFiles, IsCheckpoint
<1>5. /\ Anchoring!Published' = Anchoring!Published
      /\ Anchoring!LatestReads' <=> Anchoring!LatestReads
      /\ SomeLatest' <=> SomeLatest
      /\ Anchoring!Latest' = Anchoring!Latest
  BY DirectoryStays
<1>6. \A q \in Anchorers :
        Accepted(q)' => q # p /\ Accepted(q) /\ publication'[q] = publication[q]
                        /\ (Anchoring!At(q, "replacing")' => Anchoring!At(q, "replacing"))
  BY <1>1 DEF Accepted, Anchoring!At
<1>7. \A q \in Anchorers : Accepted(q)' /\ Compared(q) => Compared(q)'
  BY <1>5, <1>6, Zenon DEF Compared
<1>8. ~crossed' => \A q, r \in Anchorers : Accepted(q)' /\ Accepted(r)' => q = r
  BY <1>6, Zenon DEF AnchorInv
<1>9. ~crossed' => \A q \in Anchorers : Accepted(q)' => Compared(q)'
  BY <1>6, <1>7, Zenon DEF AnchorInv
<1>10. Anchoring!AcknowledgedAnchored'
  <2>1. acknowledged \subseteq Anchoring!Published => acknowledged' \subseteq Anchoring!Published'
    BY <1>5
  <2>. QED BY <1>5, <2>1, Zenon DEF AnchorInv, Anchoring!AcknowledgedAnchored
<1>. QED BY <1>4, <1>5, <1>8, <1>9, <1>10, Zenon DEF AnchorInv

\* A publisher's place in its publication.
LEMMA GotoFields ==
  ASSUME PublicationsTyped, NEW p \in Anchorers, publication[p] # NoPublication, NEW place,
         Anchoring!Goto(p, place)
  PROVE  publication' = [publication EXCEPT ![p] =
                           [pc |-> place, checkpoint |-> publication[p].checkpoint]]
<1> DEFINE old == publication[p]
<1>1. publication' = [publication EXCEPT ![p] = [old EXCEPT !.pc = place]]
  BY Zenon DEF Anchoring!Goto
<1>2. old = [pc |-> old.pc, checkpoint |-> old.checkpoint]
  BY Zenon DEF PublicationsTyped
<1> HIDE DEF old
<1>3. [old EXCEPT !.pc = place] = [pc |-> place, checkpoint |-> old.checkpoint]
  BY <1>2
<1>. QED BY <1>1, <1>3, Zenon DEF old

\* The host's history and its clock move.
LEMMA HostMoves ==
  ASSUME AnchorInv, records' \in Seq(AnchoredRecords), now' \in Nat,
         UNCHANGED <<anchored, staged, publication, acknowledged, crossed>>
  PROVE  AnchorInv'
<1>1. AnchorsTyped'
  BY Zenon DEF AnchorInv, AnchorsTyped, CheckpointFiles, PublicationsTyped, IsCheckpoint
<1>2. /\ Anchoring!Published' = Anchoring!Published
      /\ Anchoring!LatestReads' <=> Anchoring!LatestReads
      /\ SomeLatest' <=> SomeLatest
      /\ Anchoring!Latest' = Anchoring!Latest
  BY DirectoryStays
<1>3. \A p \in Anchorers : Accepted(p)' => Accepted(p) /\ (Compared(p) => Compared(p)')
  BY <1>2, Zenon DEF Accepted, Compared, Anchoring!At
<1>4. Anchoring!AcknowledgedAnchored'
  BY <1>2, Zenon DEF AnchorInv, Anchoring!AcknowledgedAnchored
<1>. QED BY <1>1, <1>2, <1>3, <1>4, Zenon DEF AnchorInv

\* What a publisher is at, with the typing of its checkpoint.
LEMMA AtFields ==
  ASSUME NoCheckpointIsNone, AnchorInv, NEW p \in Anchorers, publication[p] # NoPublication
  PROVE  /\ PublicationsTyped
         /\ IsCheckpoint(publication[p].checkpoint)
         /\ publication[p].checkpoint.id \in CheckpointIds
         /\ publication[p].checkpoint # NoCheckpoint
<1>1. PublicationsTyped /\ IsCheckpoint(publication[p].checkpoint)
  BY Zenon DEF AnchorInv, AnchorsTyped, PublicationsTyped
<1>2. \A c : IsCheckpoint(c) => c # NoCheckpoint
  BY Zenon DEF IsCheckpoint, NoCheckpointIsNone
<1>. QED BY <1>1, <1>2 DEF IsCheckpoint

LEMMA PrepareKeeps ==
  ASSUME NoCheckpointIsNone, AnchorInv, NEW p \in Anchorers, NEW i \in CheckpointIds,
         Anchoring!Prepare(p, i)
  PROVE  AnchorInv'
<1> DEFINE c == [id |-> i, tip |-> records, count |-> Len(records), issued |-> now,
                 previous |-> Anchoring!Latest]
           x == [pc |-> "signing", checkpoint |-> c]
<1>1. /\ publication' = [publication EXCEPT ![p] = x]
      /\ UNCHANGED <<records, now, anchored, staged, crossed>> /\ acknowledged' = acknowledged
  BY DEF Anchoring!Prepare, Anchoring!hostVars
<1>2. Len(records) \in Nat /\ now \in Nat
  BY DEF AnchorInv, AnchorsTyped
<1>3. IsCheckpoint(c)
  BY <1>2 DEF IsCheckpoint
<1>4. x = [pc |-> x.pc, checkpoint |-> x.checkpoint] /\ x.pc = "signing" /\ x.checkpoint = c
  OBVIOUS
<1> HIDE DEF c, x
<1>. QED BY <1>1, <1>3, <1>4, PublisherMoves

LEMMA SignKeeps ==
  ASSUME NoCheckpointIsNone, AnchorInv, NEW p \in Anchorers, Anchoring!Sign(p)
  PROVE  AnchorInv'
<1>1. /\ publication[p] # NoPublication /\ Anchoring!Goto(p, "publishing")
      /\ UNCHANGED <<records, now, anchored, staged, crossed>> /\ acknowledged' = acknowledged
  BY DEF Anchoring!Sign, Anchoring!At, Anchoring!hostVars
<1> DEFINE x == [pc |-> "publishing", checkpoint |-> publication[p].checkpoint]
<1>2. publication' = [publication EXCEPT ![p] = x] /\ IsCheckpoint(publication[p].checkpoint)
  BY <1>1, AtFields, GotoFields
<1>3. /\ x = [pc |-> x.pc, checkpoint |-> x.checkpoint] /\ x.pc = "publishing"
      /\ x.checkpoint = publication[p].checkpoint
  OBVIOUS
<1> HIDE DEF x
<1>. QED BY <1>1, <1>2, <1>3, PublisherMoves

\* It ends, with or without an answer.
LEMMA EndKeeps ==
  ASSUME AnchorInv, NEW p \in Anchorers,
         Anchoring!SignerFails(p) \/ Anchoring!Stop(p)
  PROVE  AnchorInv'
<1>1. /\ publication' = [publication EXCEPT ![p] = NoPublication]
      /\ UNCHANGED <<records, now, anchored, staged, crossed>> /\ acknowledged' = acknowledged
  BY DEF Anchoring!SignerFails, Anchoring!Stop, Anchoring!End, Anchoring!hostVars
<1>. QED BY <1>1, PublisherMoves

LEMMA RepeatKeeps ==
  ASSUME AnchorInv, NEW p \in Anchorers, Anchoring!Repeat(p)
  PROVE  AnchorInv'
<1>1. PICK c \in acknowledged :
        publication' = [publication EXCEPT ![p] = [pc |-> "publishing", checkpoint |-> c]]
  BY DEF Anchoring!Repeat
<1>2. UNCHANGED <<records, now, anchored, staged, crossed>> /\ acknowledged' = acknowledged
  BY DEF Anchoring!Repeat, Anchoring!hostVars
<1> DEFINE x == [pc |-> "publishing", checkpoint |-> c]
<1>3. /\ x = [pc |-> x.pc, checkpoint |-> x.checkpoint] /\ x.pc = "publishing"
      /\ x.checkpoint = c /\ IsCheckpoint(c)
  BY DEF AnchorInv, AnchorsTyped
<1>4. publication' = [publication EXCEPT ![p] = x]
  BY <1>1
<1> HIDE DEF x
<1>. QED BY <1>2, <1>3, <1>4, PublisherMoves

\* Identity and order are compared; then the checkpoint is accepted alone, or
\* it crosses another one.
LEMMA CheckKeeps ==
  ASSUME NoCheckpointIsNone, AnchorInv, NEW p \in Anchorers, Anchoring!Check(p)
  PROVE  AnchorInv'
<1> DEFINE c == publication[p].checkpoint
           others == \E q \in Anchorers \ {p} :
                       Anchoring!At(q, "staging") \/ Anchoring!At(q, "replacing")
<1>1. /\ publication[p] # NoPublication /\ publication[p].pc = "publishing"
      /\ UNCHANGED <<records, now, anchored, staged>>
  BY DEF Anchoring!Check, Anchoring!At, Anchoring!hostVars
<1>2. /\ PublicationsTyped /\ IsCheckpoint(c) /\ c.id \in CheckpointIds /\ c # NoCheckpoint
  BY <1>1, AtFields
<1>3. \/ anchored[c.id] = c /\ acknowledged' = acknowledged \union {c}
         /\ Anchoring!End(p) /\ UNCHANGED crossed
      \/ acknowledged' = acknowledged /\ Anchoring!End(p) /\ UNCHANGED crossed
      \/ /\ acknowledged' = acknowledged /\ anchored[c.id] # c
         /\ ~Anchoring!Taken(c) /\ Anchoring!LatestReads
         /\ Anchoring!FollowsOn(Anchoring!Latest, c)
         /\ Anchoring!Goto(p, "staging") /\ crossed' = (crossed \/ others)
  BY Zenon DEF Anchoring!Check
<1>4. CASE anchored[c.id] = c /\ acknowledged' = acknowledged \union {c}
           /\ Anchoring!End(p) /\ UNCHANGED crossed
  <2>1. c \in Anchoring!Published
    BY <1>2, <1>4 DEF Anchoring!Published
  <2>2. publication' = [publication EXCEPT ![p] = NoPublication]
    BY <1>4 DEF Anchoring!End
  <2> HIDE DEF c
  <2>. QED BY <1>1, <1>4, <2>1, <2>2, PublisherMoves
<1>5. CASE acknowledged' = acknowledged /\ Anchoring!End(p) /\ UNCHANGED crossed
  <2>1. publication' = [publication EXCEPT ![p] = NoPublication]
    BY <1>5 DEF Anchoring!End
  <2>. QED BY <1>1, <1>5, <2>1, PublisherMoves
<1>6. CASE /\ acknowledged' = acknowledged /\ anchored[c.id] # c
           /\ ~Anchoring!Taken(c) /\ Anchoring!LatestReads
           /\ Anchoring!FollowsOn(Anchoring!Latest, c)
           /\ Anchoring!Goto(p, "staging") /\ crossed' = (crossed \/ others)
  <2> DEFINE x == [pc |-> "staging", checkpoint |-> c]
  <2>1. publication' = [publication EXCEPT ![p] = x]
    BY <1>1, <1>2, <1>6, GotoFields
  <2>2. x.pc = "staging" /\ x.checkpoint = c /\ x = [pc |-> x.pc, checkpoint |-> x.checkpoint]
    OBVIOUS
  <2> HIDE DEF x
  <2>3. /\ \A q \in Anchorers : publication'[q] = IF q = p THEN x ELSE publication[q]
        /\ publication' = [q \in Anchorers |-> publication'[q]]
    BY <1>2, <2>1 DEF PublicationsTyped
  <2>4. PublicationsTyped'
    BY <1>2, <2>2, <2>3, Zenon DEF PublicationsTyped, IsCheckpoint
  <2>5. crossed' \in BOOLEAN
    BY <1>6, Zenon DEF AnchorInv, AnchorsTyped
  <2>6. AnchorsTyped'
    BY <1>1, <1>6, <2>4, <2>5, Zenon DEF AnchorInv, AnchorsTyped, CheckpointFiles,
                                         IsCheckpoint
  <2>7. /\ Anchoring!Published' = Anchoring!Published
        /\ Anchoring!LatestReads' <=> Anchoring!LatestReads
        /\ SomeLatest' <=> SomeLatest
        /\ Anchoring!Latest' = Anchoring!Latest
    BY <1>1, DirectoryStays
  <2>8. ASSUME ~crossed' PROVE ~crossed /\ ~others
    BY <1>6, <2>8, Zenon
  <2>9. ASSUME ~crossed', NEW q \in Anchorers, Accepted(q)' PROVE q = p
    BY <2>3, <2>8, <2>9 DEF Accepted, Anchoring!At
  <2>10. Compared(p)'
    <3>1. publication'[p] = x
      BY <2>3
    <3>2. anchored[c.id] = NoCheckpoint
      BY <1>6 DEF Anchoring!Taken
    <3>3. ~Anchoring!At(p, "replacing")'
      BY <2>2, <3>1 DEF Anchoring!At
    <3> HIDE DEF c
    <3>4. publication'[p].checkpoint = c /\ anchored' = anchored
      BY <1>1, <2>2, <3>1
    <3>. QED BY <1>6, <2>7, <3>2, <3>3, <3>4, Zenon DEF Compared
  <2>11. Anchoring!AcknowledgedAnchored'
    BY <1>6, <2>7, <2>8, Zenon DEF AnchorInv, Anchoring!AcknowledgedAnchored
  <2>. QED BY <2>6, <2>7, <2>8, <2>9, <2>10, <2>11, Zenon DEF AnchorInv
<1>. QED BY <1>3, <1>4, <1>5, <1>6

LEMMA StageKeeps ==
  ASSUME NoCheckpointIsNone, AnchorInv, NEW p \in Anchorers, Anchoring!Stage(p)
  PROVE  AnchorInv'
<1> DEFINE c == publication[p].checkpoint
           x == [pc |-> "replacing", checkpoint |-> c]
<1>1. /\ publication[p] # NoPublication /\ Accepted(p)
      /\ staged' = [staged EXCEPT ![c.id] = c]
      /\ Anchoring!Goto(p, "replacing")
      /\ UNCHANGED <<records, now, anchored, crossed, acknowledged>>
  BY DEF Anchoring!Stage, Anchoring!At, Anchoring!hostVars, Accepted
<1>2. /\ PublicationsTyped /\ IsCheckpoint(c) /\ c.id \in CheckpointIds /\ c # NoCheckpoint
  BY <1>1, AtFields
<1>3. publication' = [publication EXCEPT ![p] = x]
  BY <1>1, <1>2, GotoFields
<1>4. x.pc = "replacing" /\ x.checkpoint = c /\ x = [pc |-> x.pc, checkpoint |-> x.checkpoint]
  OBVIOUS
<1> HIDE DEF c, x
<1>5. /\ \A q \in Anchorers : publication'[q] = IF q = p THEN x ELSE publication[q]
      /\ publication' = [q \in Anchorers |-> publication'[q]]
  BY <1>2, <1>3 DEF PublicationsTyped
<1>6. PublicationsTyped'
  BY <1>2, <1>4, <1>5, Zenon DEF PublicationsTyped, IsCheckpoint
<1>7. CheckpointFiles(staged)
  BY Zenon DEF AnchorInv, AnchorsTyped
<1>8. /\ \A i \in CheckpointIds : staged'[i] = IF i = c.id THEN c ELSE staged[i]
      /\ staged' = [i \in CheckpointIds |-> staged'[i]]
  BY <1>1, <1>7 DEF CheckpointFiles
<1>9. CheckpointFiles(staged')
  BY <1>2, <1>7, <1>8, Zenon DEF CheckpointFiles, IsCheckpoint
<1>10. AnchorsTyped'
  BY <1>1, <1>6, <1>9, Zenon DEF AnchorInv, AnchorsTyped, CheckpointFiles, IsCheckpoint
<1>11. /\ Anchoring!Published' = Anchoring!Published
       /\ Anchoring!LatestReads' <=> Anchoring!LatestReads
       /\ SomeLatest' <=> SomeLatest
       /\ Anchoring!Latest' = Anchoring!Latest
  BY <1>1, DirectoryStays
<1>12. ASSUME ~crossed', NEW q \in Anchorers, Accepted(q)' PROVE q = p
  <2>1. q # p => Accepted(q)
    BY <1>5, <1>12 DEF Accepted, Anchoring!At
  <2>. QED BY <1>1, <1>12, <2>1, Zenon DEF AnchorInv
<1>13. ~crossed' => Compared(p)'
  <2>1. publication'[p].checkpoint = c /\ staged'[c.id] = c /\ anchored' = anchored
    BY <1>1, <1>2, <1>4, <1>5, <1>8
  <2>2. ~crossed => Compared(p)
    BY <1>1, Zenon DEF AnchorInv
  <2>3. ~crossed' => /\ anchored[c.id] = NoCheckpoint /\ Anchoring!LatestReads
                     /\ Anchoring!FollowsOn(Anchoring!Latest, c)
    BY <1>1, <2>2, Zenon DEF Compared, c
  <2>. QED BY <1>11, <2>1, <2>3, Zenon DEF Compared
<1>14. Anchoring!AcknowledgedAnchored'
  BY <1>1, <1>11, Zenon DEF AnchorInv, Anchoring!AcknowledgedAnchored
<1>. QED BY <1>1, <1>10, <1>11, <1>12, <1>13, <1>14, Zenon DEF AnchorInv

\* Alone, it puts in place what it staged, and nothing was there before.
LEMMA ReplaceKeeps ==
  ASSUME NoCheckpointIsNone, AnchorInv, NEW p \in Anchorers, Anchoring!Replace(p)
  PROVE  AnchorInv'
<1> DEFINE c == publication[p].checkpoint
           f == staged[c.id]
<1>1. /\ publication[p] # NoPublication /\ Accepted(p) /\ Anchoring!At(p, "replacing")
      /\ publication' = [publication EXCEPT ![p] = NoPublication]
      /\ UNCHANGED <<records, now, crossed>>
  BY DEF Anchoring!Replace, Anchoring!At, Anchoring!hostVars, Anchoring!End, Accepted
<1>2. /\ PublicationsTyped /\ IsCheckpoint(c) /\ c.id \in CheckpointIds /\ c # NoCheckpoint
  BY <1>1, AtFields
<1>3. CASE f = NoCheckpoint
  <2>1. UNCHANGED <<anchored, staged, acknowledged>>
    BY <1>3, Zenon DEF Anchoring!Replace
  <2>. QED BY <1>1, <2>1, PublisherMoves
<1>4. CASE f # NoCheckpoint
  <2>1. /\ anchored' = [anchored EXCEPT ![c.id] = f]
        /\ staged' = [staged EXCEPT ![c.id] = NoCheckpoint]
        /\ acknowledged' = acknowledged \union {c}
    BY <1>4, Zenon DEF Anchoring!Replace
  <2>2. CheckpointFiles(anchored) /\ CheckpointFiles(staged)
    BY Zenon DEF AnchorInv, AnchorsTyped
  <2>3. IsCheckpoint(f) /\ f.id = c.id
    BY <1>2, <1>4, <2>2, Zenon DEF CheckpointFiles
  <2> HIDE DEF c, f
  <2>4. /\ \A i \in CheckpointIds : anchored'[i] = IF i = c.id THEN f ELSE anchored[i]
        /\ anchored' = [i \in CheckpointIds |-> anchored'[i]]
        /\ \A i \in CheckpointIds : staged'[i] = IF i = c.id THEN NoCheckpoint ELSE staged[i]
        /\ staged' = [i \in CheckpointIds |-> staged'[i]]
    BY <1>2, <2>1, <2>2 DEF CheckpointFiles
  <2>5. CheckpointFiles(anchored') /\ CheckpointFiles(staged')
    BY <1>2, <1>4, <2>2, <2>3, <2>4, Zenon DEF CheckpointFiles
  <2>6. /\ \A q \in Anchorers :
             publication'[q] = IF q = p THEN NoPublication ELSE publication[q]
        /\ publication' = [q \in Anchorers |-> publication'[q]]
    BY <1>1, <1>2 DEF PublicationsTyped
  <2>7. PublicationsTyped'
    BY <1>2, <2>6, Zenon DEF PublicationsTyped, IsCheckpoint
  <2>8. AnchorsTyped'
    <3>1. \A d \in acknowledged' : IsCheckpoint(d)
      BY <1>2, <2>1 DEF AnchorInv, AnchorsTyped
    <3>. QED BY <1>1, <2>5, <2>7, <3>1, Zenon DEF AnchorInv, AnchorsTyped, CheckpointFiles,
                                                  IsCheckpoint
  <2>9. CASE crossed
    BY <1>1, <2>8, <2>9, Zenon DEF AnchorInv, Anchoring!AcknowledgedAnchored
  <2>10. CASE ~crossed
    <3>1. \A q \in Anchorers : ~Accepted(q)'
      <4>1. \A q \in Anchorers : Accepted(q)' => q # p /\ Accepted(q)
        BY <2>6 DEF Accepted, Anchoring!At
      <4>. QED BY <1>1, <2>10, <4>1, Zenon DEF AnchorInv
    <3>2. /\ anchored[c.id] = NoCheckpoint /\ Anchoring!LatestReads /\ f = c
          /\ Anchoring!FollowsOn(Anchoring!Latest, c)
      BY <1>1, <2>10, Zenon DEF AnchorInv, Compared, c, f
    <3>3. Anchoring!Published' = Anchoring!Published \union {c}
      <4>1. ASSUME NEW d \in Anchoring!Published' PROVE d \in Anchoring!Published \union {c}
        BY <2>4, <3>2, <4>1 DEF Anchoring!Published
      <4>2. ASSUME NEW d \in Anchoring!Published PROVE d \in Anchoring!Published'
        <5>1. PICK i \in CheckpointIds : anchored[i] = d /\ d # NoCheckpoint
          BY <4>2 DEF Anchoring!Published
        <5>2. anchored'[i] = d
          BY <2>4, <3>2, <5>1
        <5>. QED BY <5>1, <5>2 DEF Anchoring!Published
      <4>3. c \in Anchoring!Published'
        BY <1>2, <2>4, <3>2 DEF Anchoring!Published, c
      <4>. QED BY <4>1, <4>2, <4>3
    <3>4. c \notin Anchoring!Published
      BY <1>2, <2>2, <3>2, PublishedTyped DEF c
    <3>5. SomeLatest
      BY <2>10, Zenon DEF AnchorInv
    <3>6. SomeLatest' /\ (Anchoring!LatestReads' \/ Anchoring!Stalled(c))
      <4>1. IsCheckpoint(c) /\ c # NoCheckpoint
        BY <1>2 DEF c
      <4>. QED BY <2>2, <2>5, <3>2, <3>3, <3>4, <3>5, <4>1, LaterCheckpoint
    <3>7. acknowledged \subseteq Anchoring!Published
      BY <2>10, Zenon DEF AnchorInv, Anchoring!AcknowledgedAnchored
    <3>8. Anchoring!AcknowledgedAnchored'
      BY <2>1, <3>3, <3>6, <3>7 DEF Anchoring!AcknowledgedAnchored
    <3>. QED BY <2>8, <3>1, <3>6, <3>8, Zenon DEF AnchorInv
  <2>. QED BY <2>9, <2>10
<1>. QED BY <1>3, <1>4

LEMMA AnchorStep ==
  ASSUME NoCheckpointIsNone, Anchoring!ConstantsAssumption, AnchorInv,
         [Anchoring!Next]_(Anchoring!vars)
  PROVE  AnchorInv'
<1>1. records \in Seq(AnchoredRecords) /\ now \in Nat
  BY Zenon DEF AnchorInv, AnchorsTyped
<1>2. CASE UNCHANGED Anchoring!vars
  BY <1>1, <1>2, HostMoves DEF Anchoring!vars
<1>3. ASSUME NEW r \in AnchoredRecords, Anchoring!Extend(r) PROVE AnchorInv'
  BY <1>1, <1>3, HostMoves DEF Anchoring!Extend
<1>4. CASE Anchoring!Truncate
  <2>1. SubSeq(records, 1, Len(records) - 1) \in Seq(AnchoredRecords)
    BY <1>1, <1>4 DEF Anchoring!Truncate
  <2>. QED BY <1>1, <1>4, <2>1, HostMoves DEF Anchoring!Truncate
<1>5. ASSUME NEW t \in 0..MaxAnchorTime, Anchoring!SetClock(t) PROVE AnchorInv'
  <2>1. t \in Nat
    BY DEF Anchoring!ConstantsAssumption
  <2>. QED BY <1>1, <1>5, <2>1, HostMoves DEF Anchoring!SetClock
<1>6. ASSUME NEW p \in Anchorers, NEW i \in CheckpointIds, Anchoring!Prepare(p, i)
      PROVE  AnchorInv'
  BY <1>6, PrepareKeeps
<1>7. ASSUME NEW p \in Anchorers,
             \/ Anchoring!Sign(p) \/ Anchoring!SignerFails(p)
             \/ Anchoring!Check(p) \/ Anchoring!Stage(p) \/ Anchoring!Replace(p)
             \/ Anchoring!Stop(p) \/ Anchoring!Repeat(p)
      PROVE  AnchorInv'
  BY <1>7, SignKeeps, EndKeeps, CheckKeeps, StageKeeps, ReplaceKeeps, RepeatKeeps
<1>. QED BY <1>2, <1>3, <1>4, <1>5, <1>6, <1>7, Zenon DEF Anchoring!Next

\* publish compares, stages and replaces without a lock; as long as no two
\* publications were past the comparison at a time, what it returned for is
\* there, and the directory names a latest checkpoint unless the clock had not
\* moved on over an unchanged history.
THEOREM AcknowledgedStayAnchored ==
  ASSUME NoCheckpointIsNone, Anchoring!ConstantsAssumption
  PROVE  Anchoring!Spec => []AcknowledgedAnchored
<1>1. AnchorInv => AcknowledgedAnchored
  BY DEF AnchorInv, AcknowledgedAnchored
<1>. QED BY AnchorInit, AnchorStep, <1>1, PTL DEF Anchoring!Spec

-----------------------------------------------------------------------------
(* The page of a release.  A receipt is written for what the registry      *)
(* serves under a permit, the permit for a basis that was approved; a name *)
(* that is uploaded keeps its bytes, so that this stays so while the       *)
(* request reads on.                                                       *)

\* A basis that names a bundle lists the bundle's files.
OfItsBundle(basis) ==
  basis.bundle # Nothing => basis.artifacts = [n \in BuiltFiles |-> basis.bundle]

\* The registry serves what the basis lists, and somebody had approved it.
Served(basis) ==
  /\ basis \in approvedBases
  /\ registryFiles[basis.source] = basis.artifacts

\* What a request has read so far fits together.
RequestBound ==
  /\ request.configured \in ShownParts
  /\ request.step # "bundle" => request.bundle \in Builds
  /\ request.basis # Nothing =>
       /\ request.step # "bundle"
       /\ OfItsBundle(request.basis)
       /\ Release!Describes(request.basis, request.bundle)
  /\ request.step \in {"approvals", "permit", "receipt", "lifecycle"} =>
       request.basis # Nothing
  /\ \/ request.step = "lifecycle"
     \/ request.step = "answered" /\ "registry" \in request.configured
     => request.basis # Nothing /\ Served(request.basis)

PipelineInv ==
  /\ Release!TypeOK
  /\ basisFile # Nothing => OfItsBundle(basisFile)
  /\ permitFile # Nothing => permitFile.basis \in approvedBases
  /\ receiptFile # Nothing => Served(receiptFile.permit.basis)

PageBound == request # Nothing => RequestBound

LEMMA ReleasePageInit ==
  ASSUME Release!ConstantsAssumption, Release!Init
  PROVE  PipelineInv /\ PageBound
<1>1. FirstBuild \in Release!Bundles /\ FirstBuild \in Builds /\ FirstBuild.source \in Built
  BY DEF Release!ConstantsAssumption, Release!Bundles
<1>2. Release!TypeOK
  BY <1>1 DEF Release!ConstantsAssumption, Release!Init, Release!TypeOK
<1>. QED BY <1>2 DEF Release!Init, PipelineInv, PageBound

\* What is served stays served: no file of it can be uploaded again.
LEMMA ServedStays ==
  ASSUME Release!ConstantsAssumption, Release!TypeOK, approvedBases \subseteq approvedBases',
         UNCHANGED registryFiles \/ Release!Upload, NEW basis, Served(basis)
  PROVE  Served(basis)'
<1>1. basis \in Release!Bases /\ basis \in approvedBases'
      /\ registryFiles[basis.source] = basis.artifacts
  BY DEF Served, Release!TypeOK
<1>2. CASE UNCHANGED registryFiles
  BY <1>1, <1>2 DEF Served
<1>3. CASE Release!Upload
  <2>1. PICK n \in BuiltFiles :
          /\ registryFiles[permitFile.basis.source][n] = Nothing
          /\ registryFiles' = [registryFiles EXCEPT ![permitFile.basis.source][n] = dist[n]]
    BY <1>3 DEF Release!Upload
  <2>2. basis.source \in Built /\ basis.artifacts \in [BuiltFiles -> Builds]
    BY <1>1 DEF Release!Bases
  <2>3. Nothing \notin Builds
    BY DEF Release!ConstantsAssumption
  <2>4. registryFiles[basis.source][n] # Nothing
    BY <1>1, <2>2, <2>3
  <2>5. permitFile.basis.source # basis.source
    BY <2>1, <2>4
  <2>6. registryFiles'[basis.source] = registryFiles[basis.source]
    BY <2>1, <2>2, <2>5 DEF Release!TypeOK
  <2>. QED BY <1>1, <2>6 DEF Served
<1>. QED BY <1>2, <1>3

\* A request that does not move stays bound.
LEMMA PageStays ==
  ASSUME Release!ConstantsAssumption, Release!TypeOK, approvedBases \subseteq approvedBases',
         UNCHANGED registryFiles \/ Release!Upload, UNCHANGED request, PageBound
  PROVE  PageBound'
<1>1. request.basis # Nothing /\ Served(request.basis) => Served(request.basis)'
  BY ServedStays
<1>. QED BY <1>1, Zenon DEF PageBound, RequestBound, OfItsBundle, Release!Describes

LEMMA ReleaseTypes ==
  ASSUME Release!ConstantsAssumption, Release!TypeOK, Release!PipelineMoves
  PROVE  Release!TypeOK'
<1> USE DEF Release!TypeOK, Release!ConstantsAssumption
<1>1. /\ releaseChanges' \in 0..MaxReleaseChanges /\ request' = request
  BY DEF Release!PipelineMoves
<1>2. CASE Release!ReplaceFiles
  <2>1. PICK b \in Builds :
          \/ trustBundle' = b /\ UNCHANGED <<releaseRoot, dist, candidate>>
          \/ /\ \E n \in Release!Names : releaseRoot' = [releaseRoot EXCEPT ![n] = b]
             /\ UNCHANGED <<trustBundle, dist, candidate>>
          \/ dist' = [n \in BuiltFiles |-> b]
             /\ UNCHANGED <<trustBundle, releaseRoot, candidate>>
          \/ candidate' = b.source /\ UNCHANGED <<trustBundle, releaseRoot, dist>>
    BY <1>2, Zenon DEF Release!ReplaceFiles
  <2>2. b.source \in Built
    BY DEF Release!Bundles
  <2>3. /\ trustBundle' \in Builds /\ dist' \in [BuiltFiles -> Builds] /\ candidate' \in Built
        /\ releaseRoot' \in [Release!Names -> Builds \union {Nothing}]
    BY <2>1, <2>2
  <2>4. UNCHANGED <<basisFile, permitFile, receiptFile, historyFile, approvedBases, active,
                    issuing, registryFiles, issued>>
    BY <1>2, Zenon DEF Release!ReplaceFiles
  <2>. QED BY <1>1, <2>3, <2>4
<1>3. CASE Release!CreateBasis
  <2>1. basisFile' \in Release!Bases
    <3>1. trustBundle \in Builds /\ trustBundle.source \in Built
      BY DEF Release!Bundles
    <3>2. Release!BoundBasis \in Release!Bases
      BY <3>1 DEF Release!BoundBasis, Release!Bases
    <3>3. Release!DirectoryBasis \in Release!Bases
      BY DEF Release!DirectoryBasis, Release!Bases
    <3>. QED BY <1>3, <3>2, <3>3 DEF Release!CreateBasis
  <2>. QED BY <1>1, <1>3, <2>1 DEF Release!CreateBasis
<1>4. CASE Release!Authorize
  BY <1>1, <1>4 DEF Release!Authorize
<1>5. CASE Release!Revoke
  BY <1>1, <1>5 DEF Release!Revoke
<1>6. CASE Release!CompareFiles
  BY <1>1, <1>6 DEF Release!CompareFiles
<1>7. CASE Release!IssuePermit
  <2>1. permitFile' \in Release!Permits
    BY <1>7 DEF Release!IssuePermit, Release!Permits
  <2>. QED BY <1>1, <1>7, <2>1 DEF Release!IssuePermit
<1>8. CASE Release!Upload
  <2>1. PICK n \in BuiltFiles :
          registryFiles' = [registryFiles EXCEPT ![permitFile.basis.source][n] = dist[n]]
    BY <1>8 DEF Release!Upload
  <2>2. permitFile.basis.source \in Built
    BY <1>8 DEF Release!Upload, Release!Permits, Release!Bases
  <2>3. registryFiles' \in [Built -> [BuiltFiles -> Builds \union {Nothing}]]
    BY <2>1, <2>2
  <2>. QED BY <1>1, <1>8, <2>3 DEF Release!Upload
<1>9. CASE Release!WriteReceipt
  <2>1. receiptFile' \in Release!Receipts
    BY <1>9 DEF Release!WriteReceipt, Release!Receipts
  <2>. QED BY <1>1, <1>9, <2>1 DEF Release!WriteReceipt
<1>10. CASE Release!Observe
  BY <1>1, <1>10 DEF Release!Observe
<1>. QED
  BY <1>2, <1>3, <1>4, <1>5, <1>6, <1>7, <1>8, <1>9, <1>10, Zenon DEF Release!PipelineMoves

LEMMA PipelineKeeps ==
  ASSUME Release!ConstantsAssumption, PipelineInv, PageBound, Release!PipelineMoves
  PROVE  PipelineInv' /\ PageBound'
<1> DEFINE Sound == /\ basisFile # Nothing => OfItsBundle(basisFile)
                    /\ permitFile # Nothing => permitFile.basis \in approvedBases
                    /\ receiptFile # Nothing => Served(receiptFile.permit.basis)
<1>1. Release!TypeOK /\ Release!TypeOK' /\ request' = request
  BY ReleaseTypes DEF PipelineInv, Release!PipelineMoves
<1>2. Sound
  BY DEF PipelineInv
<1>3. CASE Release!ReplaceFiles
  <2>1. UNCHANGED <<basisFile, permitFile, receiptFile, approvedBases, registryFiles>>
    BY <1>3, Zenon DEF Release!ReplaceFiles
  <2>2. Sound'
    BY <1>2, <2>1 DEF OfItsBundle, Served
  <2>. QED BY <1>1, <2>1, <2>2, PageStays DEF PipelineInv
<1>4. CASE Release!CreateBasis
  <2>1. UNCHANGED <<permitFile, receiptFile, approvedBases, registryFiles>>
    BY <1>4, Zenon DEF Release!CreateBasis
  <2>2. OfItsBundle(basisFile)'
    BY <1>4 DEF Release!CreateBasis, Release!BoundBasis, Release!DirectoryBasis, OfItsBundle
  <2>3. Sound'
    BY <1>2, <2>1, <2>2 DEF Served
  <2>. QED BY <1>1, <2>1, <2>3, PageStays DEF PipelineInv
<1>5. CASE Release!Authorize \/ Release!Revoke
  <2>1. /\ UNCHANGED <<basisFile, permitFile, receiptFile, registryFiles>>
        /\ approvedBases \subseteq approvedBases'
    BY <1>5 DEF Release!Authorize, Release!Revoke
  <2>2. Sound'
    BY <1>2, <2>1 DEF OfItsBundle, Served
  <2>. QED BY <1>1, <2>1, <2>2, PageStays DEF PipelineInv
<1>6. CASE Release!CompareFiles \/ Release!Observe
  <2>1. UNCHANGED <<basisFile, permitFile, receiptFile, approvedBases, registryFiles>>
    BY <1>6, Zenon DEF Release!CompareFiles, Release!Observe
  <2>2. Sound'
    BY <1>2, <2>1 DEF OfItsBundle, Served
  <2>. QED BY <1>1, <2>1, <2>2, PageStays DEF PipelineInv
<1>7. CASE Release!IssuePermit
  <2>1. UNCHANGED <<basisFile, receiptFile, approvedBases, registryFiles>>
    BY <1>7, Zenon DEF Release!IssuePermit
  <2>2. permitFile'.basis \in approvedBases'
    BY <1>1, <1>7, <2>1 DEF Release!IssuePermit, Release!TypeOK
  <2>3. Sound'
    BY <1>2, <2>1, <2>2 DEF OfItsBundle, Served
  <2>. QED BY <1>1, <2>1, <2>3, PageStays DEF PipelineInv
<1>8. CASE Release!Upload
  <2>1. UNCHANGED <<basisFile, permitFile, receiptFile, approvedBases>>
    BY <1>8, Zenon DEF Release!Upload
  <2>2. ASSUME NEW b, Served(b) PROVE Served(b)'
    BY <1>1, <1>8, <2>1, <2>2, ServedStays
  <2>3. receiptFile # Nothing => Served(receiptFile.permit.basis)'
    <3>1. receiptFile # Nothing => Served(receiptFile.permit.basis)
      BY <1>2
    <3> DEFINE b == receiptFile.permit.basis
    <3>2. Served(b) => b \in approvedBases' /\ registryFiles'[b.source] = b.artifacts
      <4> HIDE DEF b
      <4>. QED BY <2>2, Zenon DEF Served
    <3>. QED BY <2>1, <3>1, <3>2, Zenon DEF Served
  <2>4. Sound'
    BY <1>2, <2>1, <2>3, Zenon DEF OfItsBundle
  <2>. QED BY <1>1, <1>8, <2>1, <2>4, PageStays DEF PipelineInv
<1>9. CASE Release!WriteReceipt
  <2>1. UNCHANGED <<basisFile, permitFile, approvedBases, registryFiles>>
    BY <1>9, Zenon DEF Release!WriteReceipt
  <2>2. Served(permitFile.basis)
    BY <1>2, <1>9, Zenon DEF Release!WriteReceipt, Served
  <2>3. receiptFile'.permit = permitFile
    BY <1>9 DEF Release!WriteReceipt
  <2>4. Sound'
    BY <1>2, <2>1, <2>2, <2>3 DEF OfItsBundle, Served
  <2>. QED BY <1>1, <2>1, <2>4, PageStays DEF PipelineInv
<1>. QED
  BY <1>3, <1>4, <1>5, <1>6, <1>7, <1>8, <1>9, Zenon DEF Release!PipelineMoves

\* The next step of a request.
LEMMA StepFields ==
  ASSUME NEW r \in Release!Requests, NEW s \in Release!Steps
  PROVE  LET q == [r EXCEPT !.step = s] IN
         /\ q \in Release!Requests /\ q.step = s
         /\ q.configured = r.configured /\ q.bundle = r.bundle
         /\ q.basis = r.basis /\ q.permit = r.permit /\ q.receipt = r.receipt
  BY DEF Release!Requests

LEMMA RequestKeeps ==
  ASSUME Release!ConstantsAssumption, PipelineInv, PageBound, Release!RequestMoves
  PROVE  PipelineInv' /\ PageBound'
<1> DEFINE r == request
           steps == Release!Steps
<1>1. UNCHANGED <<trustBundle, releaseRoot, dist, candidate, basisFile, permitFile,
                  receiptFile, historyFile, approvedBases, active, issuing, registryFiles,
                  issued, releaseChanges>>
  BY DEF Release!RequestMoves, Release!Begin, Release!Refuse, Release!ReadBundle,
         Release!CheckFile, Release!ContentDone, Release!ReadBasis, Release!Resolve,
         Release!ReadPermit, Release!ReadReceipt, Release!ReadHistory, Release!Proceed,
         Release!pipelineVars
<1>2. Release!TypeOK /\ r \in Release!Requests \union {Nothing}
  BY DEF PipelineInv, Release!TypeOK
<1>3. SUFFICES r' \in Release!Requests \union {Nothing} /\ PageBound'
  <2>1. ASSUME r' \in Release!Requests \union {Nothing} PROVE PipelineInv'
    BY <1>1, <1>2, <2>1 DEF PipelineInv, Release!TypeOK, OfItsBundle, Served
  <2>. QED BY <2>1
<1>4. ASSUME NEW b, Served(b) PROVE Served(b)'
  BY <1>1, <1>4 DEF Served
<1>5. CASE Release!Begin
  <2>1. PICK parts \in ShownParts :
          r' = [step |-> "bundle", configured |-> parts, bundle |-> Nothing,
                checked |-> {}, failed |-> {}, basis |-> Nothing, authorized |-> FALSE,
                permit |-> Nothing, receipt |-> Nothing]
    BY <1>5 DEF Release!Begin, Release!Proceed
  <2>2. parts \subseteq Release!Parts
    BY DEF Release!ConstantsAssumption
  <2>3. /\ r' \in Release!Requests /\ r'.step = "bundle" /\ r'.basis = Nothing
        /\ r'.configured = parts
    BY <2>1, <2>2 DEF Release!Requests, Release!Steps
  <2>. QED BY <2>3 DEF PageBound, RequestBound
<1>6. CASE Release!Refuse
  BY <1>6 DEF Release!Refuse, Release!Proceed, PageBound
<1>7. ASSUME NEW s \in steps, Release!Reading(s)
      PROVE  r # Nothing /\ r \in Release!Requests /\ r.step = s /\ RequestBound
  BY <1>2, <1>7, Zenon DEF Release!Reading, PageBound
<1>8. CASE Release!ReadBundle
  <2> DEFINE q == [r EXCEPT !.step = "content"]
  <2>1. Release!Reading("bundle") /\ r' = [q EXCEPT !.bundle = trustBundle]
    BY <1>8, Zenon DEF Release!ReadBundle, Release!Proceed
  <2>2. r \in Release!Requests /\ r.step = "bundle" /\ RequestBound
    BY <1>7, <2>1 DEF Release!Steps
  <2>3. /\ q \in Release!Requests /\ q.step = "content" /\ q.configured = r.configured
        /\ q.basis = r.basis
    BY <2>2, StepFields DEF Release!Steps
  <2> HIDE DEF q
  <2>4. trustBundle \in Builds
    BY <1>2 DEF Release!TypeOK
  <2>5. /\ r' \in Release!Requests /\ r'.step = "content" /\ r'.configured = r.configured
        /\ r'.basis = r.basis /\ r'.bundle = trustBundle
    BY <2>1, <2>3, <2>4 DEF Release!Requests
  <2>6. r.basis = Nothing
    BY <2>2, Zenon DEF RequestBound
  <2>. QED BY <2>2, <2>4, <2>5, <2>6 DEF PageBound, RequestBound
<1>9. CASE Release!CheckFile
  <2>1. PICK n \in Release!Names :
          r' = [r EXCEPT !.checked = @ \union {n},
                         !.failed = IF releaseRoot[n] = r.bundle THEN @ ELSE @ \union {n}]
    BY <1>9 DEF Release!CheckFile, Release!Proceed, Release!Listed
  <2>2. r \in Release!Requests /\ r.step = "content" /\ RequestBound
    <3>1. Release!Reading("content")
      BY <1>9 DEF Release!CheckFile
    <3>. QED BY <1>7, <3>1 DEF Release!Steps
  <2> DEFINE q == [r EXCEPT !.checked = r.checked \union {n}]
             failed == IF releaseRoot[n] = r.bundle THEN r.failed ELSE r.failed \union {n}
  <2>3. /\ q \in Release!Requests /\ q.step = "content" /\ q.configured = r.configured
        /\ q.bundle = r.bundle /\ q.basis = r.basis
    BY <2>2 DEF Release!Requests
  <2>4. r' = [q EXCEPT !.failed = failed] /\ failed \subseteq Release!Names
    <3>1. r.failed \subseteq Release!Names
      BY <2>2 DEF Release!Requests
    <3>2. failed \subseteq Release!Names
      BY <3>1
    <3>. QED BY <2>1, <3>2, Zenon
  <2> HIDE DEF q, failed
  <2>5. /\ r' \in Release!Requests /\ r'.step = "content" /\ r'.configured = r.configured
        /\ r'.bundle = r.bundle /\ r'.basis = r.basis
    BY <2>3, <2>4 DEF Release!Requests
  <2>. QED BY <2>2, <2>5 DEF PageBound, RequestBound, Release!Describes, OfItsBundle
<1>10. CASE Release!ContentDone
  <2> DEFINE s == IF Release!Configured("publication") THEN "basis" ELSE "answered"
  <2>1. Release!Reading("content") /\ r' = [r EXCEPT !.step = s]
    BY <1>10, Zenon DEF Release!ContentDone, Release!Proceed
  <2>2. r \in Release!Requests /\ r.step = "content" /\ RequestBound
    BY <1>7, <2>1 DEF Release!Steps
  <2>3. s \in Release!Steps
    BY DEF Release!Steps
  <2>4. /\ r' \in Release!Requests /\ r'.step = s /\ r'.configured = r.configured
        /\ r'.bundle = r.bundle /\ r'.basis = r.basis
    BY <2>1, <2>2, <2>3, StepFields
  <2>5. s = "answered" => "registry" \notin r.configured
    BY <2>2, Zenon DEF Release!Configured, RequestBound, Release!ConstantsAssumption
  <2>6. s \in {"basis", "answered"}
    OBVIOUS
  <2> HIDE DEF s
  <2>. QED BY <2>2, <2>4, <2>5, <2>6 DEF PageBound, RequestBound, Release!Describes,
                                         OfItsBundle
<1>11. CASE Release!ReadBasis
  <2> DEFINE q == [r EXCEPT !.step = "approvals"]
  <2>1. /\ Release!Reading("basis") /\ r' = [q EXCEPT !.basis = basisFile]
        /\ basisFile # Nothing /\ Release!Describes(basisFile, r.bundle)
    BY <1>11, Zenon DEF Release!ReadBasis, Release!Proceed
  <2>2. r \in Release!Requests /\ r.step = "basis" /\ RequestBound
    BY <1>7, <2>1 DEF Release!Steps
  <2>3. /\ q \in Release!Requests /\ q.step = "approvals" /\ q.configured = r.configured
        /\ q.bundle = r.bundle
    BY <2>2, StepFields DEF Release!Steps
  <2> HIDE DEF q
  <2>4. basisFile \in Release!Bases /\ OfItsBundle(basisFile)
    BY <1>2, <2>1 DEF PipelineInv, Release!TypeOK
  <2>5. /\ r' \in Release!Requests /\ r'.step = "approvals" /\ r'.configured = r.configured
        /\ r'.bundle = r.bundle /\ r'.basis = basisFile
    BY <2>1, <2>3, <2>4 DEF Release!Requests
  <2>. QED BY <2>1, <2>2, <2>4, <2>5 DEF PageBound, RequestBound, Release!Describes,
                                         OfItsBundle
<1>12. CASE Release!Resolve
  <2> DEFINE s == IF Release!Configured("registry") THEN "permit" ELSE "answered"
             q == [r EXCEPT !.step = s]
             authorized == r.basis \in active
  <2>1. Release!Reading("approvals")
        /\ r' = [[r EXCEPT !.authorized = authorized] EXCEPT !.step = s]
    BY <1>12, Zenon DEF Release!Resolve, Release!Proceed
  <2>2. r \in Release!Requests /\ r.step = "approvals" /\ RequestBound
    BY <1>7, <2>1 DEF Release!Steps
  <2> DEFINE p == [r EXCEPT !.authorized = authorized]
  <2>a. authorized \in BOOLEAN
    BY SMT
  <2> HIDE DEF authorized
  <2>3. /\ p \in Release!Requests /\ p.configured = r.configured
        /\ p.bundle = r.bundle /\ p.basis = r.basis
    BY <2>2, <2>a DEF Release!Requests
  <2>4. s \in Release!Steps /\ s \in {"permit", "answered"}
    BY DEF Release!Steps
  <2>5. s = "answered" => "registry" \notin r.configured
    BY DEF Release!Configured
  <2> HIDE DEF s, p
  <2>6. /\ r' \in Release!Requests /\ r'.step = s /\ r'.configured = r.configured
        /\ r'.bundle = r.bundle /\ r'.basis = r.basis
    BY <2>1, <2>3, <2>4, StepFields DEF p
  <2>. QED BY <2>2, <2>4, <2>5, <2>6 DEF PageBound, RequestBound, Release!Describes,
                                         OfItsBundle
<1>13. CASE Release!ReadPermit
  <2> DEFINE q == [r EXCEPT !.step = "receipt"]
  <2>1. /\ Release!Reading("permit") /\ r' = [q EXCEPT !.permit = permitFile]
        /\ permitFile # Nothing
    BY <1>13, Zenon DEF Release!ReadPermit, Release!Proceed
  <2>2. r \in Release!Requests /\ r.step = "permit" /\ RequestBound
    BY <1>7, <2>1 DEF Release!Steps
  <2>3. /\ q \in Release!Requests /\ q.step = "receipt" /\ q.configured = r.configured
        /\ q.bundle = r.bundle /\ q.basis = r.basis
    BY <2>2, StepFields DEF Release!Steps
  <2> HIDE DEF q
  <2>4. permitFile \in Release!Permits
    BY <1>2, <2>1 DEF Release!TypeOK
  <2>5. /\ r' \in Release!Requests /\ r'.step = "receipt" /\ r'.configured = r.configured
        /\ r'.bundle = r.bundle /\ r'.basis = r.basis
    BY <2>1, <2>3, <2>4 DEF Release!Requests
  <2>. QED BY <2>2, <2>5 DEF PageBound, RequestBound, Release!Describes, OfItsBundle
<1>14. CASE Release!ReadReceipt
  <2> DEFINE s == IF Release!Configured("lifecycle") THEN "lifecycle" ELSE "answered"
             p == [r EXCEPT !.receipt = receiptFile]
  <2>1. /\ Release!Reading("receipt") /\ r' = [p EXCEPT !.step = s]
        /\ receiptFile # Nothing
        /\ Release!Reconciled(receiptFile, r.basis, r.permit)
    BY <1>14, Zenon DEF Release!ReadReceipt, Release!Proceed
  <2>2. r \in Release!Requests /\ r.step = "receipt" /\ RequestBound
    BY <1>7, <2>1 DEF Release!Steps
  <2>3. receiptFile \in Release!Receipts
    BY <1>2, <2>1 DEF Release!TypeOK
  <2>4. /\ p \in Release!Requests /\ p.configured = r.configured
        /\ p.bundle = r.bundle /\ p.basis = r.basis
    BY <2>2, <2>3 DEF Release!Requests
  <2>5. s \in Release!Steps /\ s \in {"lifecycle", "answered"}
    BY DEF Release!Steps
  <2> HIDE DEF s, p
  <2>6. /\ r' \in Release!Requests /\ r'.step = s /\ r'.configured = r.configured
        /\ r'.bundle = r.bundle /\ r'.basis = r.basis
    BY <2>1, <2>4, <2>5, StepFields
  <2>7. Served(r.basis)
    BY <2>1, Zenon DEF Release!Reconciled, PipelineInv
  <2>8. Served(r.basis)'
    BY <1>1, <2>6, <2>7 DEF Served
  <2>. QED BY <2>2, <2>5, <2>6, <2>8, Zenon DEF PageBound, RequestBound, Release!Describes,
                                                OfItsBundle
<1>15. CASE Release!ReadHistory
  <2>1. /\ Release!Reading("lifecycle") /\ r' = [r EXCEPT !.step = "answered"]
    BY <1>15, Zenon DEF Release!ReadHistory, Release!Proceed
  <2>2. r \in Release!Requests /\ r.step = "lifecycle" /\ RequestBound
    BY <1>7, <2>1 DEF Release!Steps
  <2>3. /\ r' \in Release!Requests /\ r'.step = "answered" /\ r'.configured = r.configured
        /\ r'.bundle = r.bundle /\ r'.basis = r.basis
    BY <2>1, <2>2, StepFields DEF Release!Steps
  <2>4. Served(r.basis)'
    BY <1>1, <2>2, <2>3 DEF Served, RequestBound
  <2>. QED BY <2>2, <2>3, <2>4 DEF PageBound, RequestBound, Release!Describes, OfItsBundle
<1>. QED BY <1>5, <1>6, <1>8, <1>9, <1>10, <1>11, <1>12, <1>13, <1>14, <1>15, Zenon
         DEF Release!RequestMoves

LEMMA ReleasePageStep ==
  ASSUME Release!ConstantsAssumption, PipelineInv, PageBound,
         [Release!Next]_(Release!releaseVars)
  PROVE  PipelineInv' /\ PageBound'
<1>1. CASE UNCHANGED Release!releaseVars
  BY <1>1 DEF Release!releaseVars, Release!pipelineVars, PipelineInv, PageBound,
              Release!TypeOK, RequestBound, OfItsBundle, Served, Release!Describes
<1>. QED BY <1>1, PipelineKeeps, RequestKeeps DEF Release!Next

\* A page that shows a release as published shows what the registry serves,
\* under a basis that was approved, and the bundle that the basis names.
THEOREM PublishedAsShown ==
  ASSUME Release!ConstantsAssumption
  PROVE  Release!Spec => []ReleasesAsShown
<1>1. ASSUME PipelineInv, PageBound PROVE ReleasesAsShown
  <2>1. SUFFICES ASSUME Release!Reading("answered"), Release!Configured("registry")
        PROVE  /\ registryFiles[request.bundle.source] = request.basis.artifacts
               /\ request.basis \in approvedBases
               /\ request.basis.bundle # Nothing =>
                    registryFiles[request.bundle.source] = [n \in BuiltFiles |-> request.bundle]
    BY DEF ReleasesAsShown, Release!ReleasesAsShown
  <2>2. RequestBound /\ request.step = "answered" /\ "registry" \in request.configured
    BY <1>1, <2>1, Zenon DEF PageBound, Release!Reading, Release!Configured
  <2>3. /\ Served(request.basis) /\ OfItsBundle(request.basis)
        /\ Release!Describes(request.basis, request.bundle)
    BY <2>2, Zenon DEF RequestBound
  <2>. QED BY <2>3 DEF Served, OfItsBundle, Release!Describes
<1>. QED BY ReleasePageInit, ReleasePageStep, <1>1, PTL DEF Release!Spec

-----------------------------------------------------------------------------
(* Incident pages.  Lines are only added to the store, and one more line   *)
(* moves no incident but its own towards the front while the lines         *)
(* consolidate, so that what a viewer has not seen is still before it.     *)

LEMMA SameCount ==
  \A S : Incident!Cardinality(S) = Cardinality(S)
  BY Zenon DEF Incident!Cardinality, Cardinality

LEMMA Ranks ==
  \A s \in Incident!Statuses : Incident!Rank[s] \in Nat
  BY DEF Incident!Statuses, Incident!Rank

LEMMA SequenceOfSet ==
  ASSUME NEW T, NEW S \in SUBSET T, IsFiniteSet(S)
  PROVE  /\ Incident!SetToSeq(S) \in Seq(T)
         /\ \A n \in 1..Len(Incident!SetToSeq(S)) : Incident!SetToSeq(S)[n] \in S
         /\ \A x \in S : \E n \in 1..Len(Incident!SetToSeq(S)) :
                            Incident!SetToSeq(S)[n] = x
<1> DEFINE k == Cardinality(S)
           f == CHOOSE f \in [1..k -> S] : IsInjective(f)
<1>1. k \in Nat /\ ExistsBijection(1..k, S)
  BY FS_CardinalityType
<1>2. \E g \in [1..k -> S] : IsInjective(g)
  BY <1>1, Zenon DEF ExistsBijection, Bijection, Injection
<1>3. f \in [1..k -> S] /\ IsInjective(f)
  BY <1>2, Zenon
<1>4. Incident!SetToSeq(S) = f
  BY SameCount, Zenon DEF Incident!SetToSeq, Incident!IsInjective, IsInjective
<1> HIDE DEF f, k
<1>5. IsFiniteSet(1..k) /\ Cardinality(1..k) = k
  BY <1>1, FS_Interval
<1>6. f \in Surjection(1..k, S)
  BY <1>3, <1>5, FS_Injection DEF Injection, k
<1>7. f \in Seq(T) /\ Len(f) = k
  BY <1>1, <1>3
<1>. QED BY <1>3, <1>4, <1>6, <1>7 DEF Surjection

\* What append does to the store.
Grows(lines, more) ==
  more = lines \/ \E r \in Incident!Records : more = Append(lines, r)

\* Every incident has a latest line.
LatestExists(lines) ==
  \A i \in Incident!Recorded(lines) : \E m \in Incident!Of(lines, i) :
    \A n \in Incident!Of(lines, i) : n <= m

LEMMA LatestLine ==
  ASSUME NEW lines \in Seq(Incident!Records), LatestExists(lines),
         NEW i \in Incident!Recorded(lines)
  PROVE  \E m \in Incident!Of(lines, i) :
           /\ Incident!Latest(lines, i) = lines[m]
           /\ \A n \in Incident!Of(lines, i) : n <= m
<1> DEFINE S == Incident!Of(lines, i)
<1>1. PICK m \in S : \A n \in S : n <= m
  BY DEF LatestExists
<1>2. \A n \in S : n \in Nat
  BY DEF Incident!Of
<1>3. Incident!Max(S) = m
  BY <1>1, <1>2 DEF Incident!Max
<1>. QED BY <1>1, <1>3 DEF Incident!Latest

LEMMA LatestExistsStays ==
  ASSUME NEW lines \in Seq(Incident!Records), LatestExists(lines),
         NEW r \in Incident!Records
  PROVE  LatestExists(Append(lines, r))
<1> DEFINE more == Append(lines, r)
<1>1. /\ DOMAIN lines = 1..Len(lines) /\ Len(lines) \in Nat
      /\ DOMAIN more = 1..Len(lines) + 1
      /\ \A n \in 1..Len(lines) : more[n] = lines[n]
      /\ more[Len(lines) + 1] = r
  OBVIOUS
<1> HIDE DEF more
<1>2. SUFFICES ASSUME NEW i \in Incident!Recorded(more)
      PROVE  \E m \in Incident!Of(more, i) : \A n \in Incident!Of(more, i) : n <= m
  BY DEF LatestExists, more
<1>3. CASE r.report.incident = i
  <2>1. Len(lines) + 1 \in Incident!Of(more, i)
    BY <1>1, <1>3 DEF Incident!Of
  <2>. QED BY <1>1, <2>1 DEF Incident!Of
<1>4. CASE r.report.incident # i
  <2>1. Incident!Of(more, i) = Incident!Of(lines, i)
    BY <1>1, <1>4 DEF Incident!Of
  <2>2. i \in Incident!Recorded(lines)
    BY <1>1, <1>2, <1>4 DEF Incident!Recorded
  <2>. QED BY <2>1, <2>2 DEF LatestExists
<1>. QED BY <1>3, <1>4

\* The incidents that come before one.
Earlier(lines, i) == {j \in Incident!Recorded(lines) : Incident!Before(lines, j, i)}
Place(lines, i) == Cardinality(Earlier(lines, i))

LEMMA Places ==
  ASSUME Incident!ConstantsAssumption, NEW lines \in Seq(Incident!Records)
  PROVE  /\ IsFiniteSet(Incident!Recorded(lines))
         /\ \A i : IsFiniteSet(Earlier(lines, i)) /\ Place(lines, i) \in Nat
         /\ \A i \in Incident!Recorded(lines) :
              LatestExists(lines) /\ i \in Nat
                => Place(lines, i) < Cardinality(Incident!Recorded(lines))
<1> DEFINE ids == Incident!Recorded(lines)
           f == [n \in 1..Len(lines) |-> lines[n].report.incident]
<1>1. Len(lines) \in Nat /\ DOMAIN lines = 1..Len(lines)
  OBVIOUS
<1>2. f \in Surjection(1..Len(lines), ids)
  BY <1>1 DEF Surjection, Incident!Recorded
<1> HIDE DEF f
<1>3. IsFiniteSet(ids)
  BY <1>1, <1>2, FS_Surjection, FS_Interval
<1>4. \A i : Earlier(lines, i) \in SUBSET ids
  BY DEF Earlier
<1>5. \A i : IsFiniteSet(Earlier(lines, i)) /\ Place(lines, i) \in Nat
  BY <1>3, <1>4, FS_Subset, FS_CardinalityType DEF Place
<1>6. ASSUME NEW i \in ids, LatestExists(lines), i \in Nat
      PROVE  Place(lines, i) < Cardinality(ids)
  <2>1. Incident!Latest(lines, i).at \in Nat
    <3>1. PICK m \in Incident!Of(lines, i) : Incident!Latest(lines, i) = lines[m]
      BY <1>6, LatestLine
    <3>2. lines[m] \in Incident!Records
      BY <1>1, <3>1 DEF Incident!Of
    <3>. QED BY <3>1, <3>2 DEF Incident!Records, Incident!ConstantsAssumption
  <2>2. i \notin Earlier(lines, i)
    BY <1>6, <2>1 DEF Earlier, Incident!Before
  <2>3. Cardinality(Earlier(lines, i)) # Cardinality(ids)
        /\ Cardinality(Earlier(lines, i)) <= Cardinality(ids)
    BY <1>3, <1>4, <2>2, FS_Subset
  <2>. QED BY <1>3, <1>5, <2>3, FS_CardinalityType DEF Place
<1>. QED BY <1>3, <1>5, <1>6

\* A line more makes up for no line that went back, and an incident that it is
\* not about gets no nearer to the front.
LEMMA OneMoreLine ==
  ASSUME Incident!ConstantsAssumption, NEW lines \in Seq(Incident!Records),
         LatestExists(lines), NEW r \in Incident!Records,
         Incident!Consolidates(Append(lines, r))
  PROVE  /\ Incident!Consolidates(lines)
         /\ \A i \in Incident!Recorded(lines) :
              i # r.report.incident => Place(lines, i) <= Place(Append(lines, r), i)
<1> DEFINE more == Append(lines, r)
           x == r.report.incident
<1>1. /\ DOMAIN lines = 1..Len(lines) /\ Len(lines) \in Nat
      /\ DOMAIN more = 1..Len(lines) + 1 /\ more \in Seq(Incident!Records)
      /\ \A n \in 1..Len(lines) : more[n] = lines[n]
      /\ more[Len(lines) + 1] = r
  OBVIOUS
<1>2. \A n \in 1..Len(lines) : lines[n] \in Incident!Records
  OBVIOUS
<1>3. LatestExists(more)
  BY LatestExistsStays
<1> HIDE DEF more
<1>4. /\ Incident!Recorded(lines) \subseteq Incident!Recorded(more)
      /\ \A i : Incident!Of(lines, i) \subseteq Incident!Of(more, i)
      /\ \A i : i # x => Incident!Of(lines, i) = Incident!Of(more, i)
      /\ Len(lines) + 1 \in Incident!Of(more, x)
  BY <1>1 DEF Incident!Recorded, Incident!Of
<1>5. Incident!Consolidates(more)
  BY DEF more
<1>6. Incident!Consolidates(lines)
  <2>1. \A i \in Incident!Recorded(lines) : \A n \in Incident!Of(lines, i) :
          more[n] = lines[n] /\ i \in Incident!Recorded(more) /\ n \in Incident!Of(more, i)
    BY <1>1, <1>4 DEF Incident!Of
  <2>. QED BY <1>5, <2>1 DEF Incident!Consolidates
<1>7. ASSUME NEW i \in Incident!Recorded(lines), i # x
      PROVE  Incident!Latest(more, i) = Incident!Latest(lines, i)
  <2>1. PICK m \in Incident!Of(lines, i) : /\ Incident!Latest(lines, i) = lines[m]
                                           /\ \A n \in Incident!Of(lines, i) : n <= m
    BY LatestLine
  <2>2. PICK k \in Incident!Of(more, i) : /\ Incident!Latest(more, i) = more[k]
                                          /\ \A n \in Incident!Of(more, i) : n <= k
    BY <1>1, <1>3, <1>4, LatestLine
  <2>3. m = k /\ m \in 1..Len(lines)
    BY <1>1, <1>4, <1>7, <2>1, <2>2 DEF Incident!Of
  <2>. QED BY <1>1, <2>1, <2>2, <2>3
<1>8. ASSUME x \in Incident!Recorded(lines)
      PROVE  /\ Incident!Latest(lines, x).at \in Int /\ Incident!Latest(more, x).at \in Int
             /\ Incident!Latest(lines, x).at <= Incident!Latest(more, x).at
  <2>1. PICK m \in Incident!Of(lines, x) : /\ Incident!Latest(lines, x) = lines[m]
                                           /\ \A n \in Incident!Of(lines, x) : n <= m
    BY <1>8, LatestLine
  <2>2. PICK k \in Incident!Of(more, x) : /\ Incident!Latest(more, x) = more[k]
                                          /\ \A n \in Incident!Of(more, x) : n <= k
    BY <1>1, <1>3, <1>4, <1>8, LatestLine
  <2>3. m \in 1..Len(lines) /\ k = Len(lines) + 1 /\ m < k
    BY <1>1, <1>4, <2>1, <2>2 DEF Incident!Of
  <2>4. lines[m].at <= more[k].at
    BY <1>1, <1>4, <1>5, <1>8, <2>1, <2>2, <2>3 DEF Incident!Consolidates
  <2>5. lines[m] \in Incident!Records /\ more[k] \in Incident!Records
    BY <1>1, <1>2, <2>3
  <2>6. lines[m].at \in Int /\ more[k].at \in Int
    BY <2>5 DEF Incident!Records, Incident!ConstantsAssumption
  <2>. QED BY <2>1, <2>2, <2>4, <2>6
<1>9. ASSUME NEW i \in Incident!Recorded(lines), i # x
      PROVE  Place(lines, i) <= Place(more, i)
  <2>1. Incident!Latest(more, i) = Incident!Latest(lines, i)
    BY <1>7, <1>9
  <2>2. ASSUME NEW j \in Incident!Recorded(lines), Incident!Before(lines, j, i)
        PROVE  Incident!Before(more, j, i)
    <3>1. CASE j # x
      <4>1. Incident!Latest(more, j) = Incident!Latest(lines, j)
        BY <1>7, <3>1
      <4>. QED BY <2>1, <2>2, <4>1, Zenon DEF Incident!Before
    <3>2. CASE j = x
      <4>1. Incident!Latest(lines, i).at \in Int
        <5>1. PICK m \in Incident!Of(lines, i) : Incident!Latest(lines, i) = lines[m]
          BY LatestLine
        <5>2. lines[m] \in Incident!Records
          BY <1>1, <1>2, <5>1 DEF Incident!Of
        <5>. QED BY <5>1, <5>2 DEF Incident!Records, Incident!ConstantsAssumption
      <4>. QED BY <1>8, <2>1, <2>2, <3>2, <4>1 DEF Incident!Before
    <3>. QED BY <3>1, <3>2
  <2>3. Earlier(lines, i) \in SUBSET Earlier(more, i)
    BY <1>4, <2>2 DEF Earlier
  <2>4. IsFiniteSet(Earlier(more, i))
    BY <1>1, Places
  <2>. QED BY <2>3, <2>4, FS_Subset, Zenon DEF Place
<1>. QED BY <1>6, <1>9 DEF more

\* What is reverified is continuous.
ReverifiedContinuous(report) == report.status = "reverified" => Incident!Continuous(report)

\* Unless something has happened to the store, its lines are in the order of
\* the clock, and none was cut.
InOrder ==
  /\ \A m, n \in 1..Len(incidentFile.lines) :
       m < n => incidentFile.lines[m].at <= incidentFile.lines[n].at
  /\ \A n \in 1..Len(incidentFile.lines) : incidentFile.lines[n].at <= incidentTime
  /\ reporting # NoWrite =>
       /\ reporting.before.end = "ended"
       /\ reporting.record.at <= incidentTime
       /\ \A n \in 1..Len(incidentFile.lines) :
            incidentFile.lines[n].at <= reporting.record.at
  /\ reporting = NoWrite => incidentFile.end = "ended"

StoreInv ==
  /\ Incident!TypeOK
  /\ LatestExists(incidentFile.lines)
  /\ \A n \in 1..Len(incidentFile.lines) : ReverifiedContinuous(incidentFile.lines[n].report)
  /\ reporting # NoWrite =>
       /\ incidentFile \in Incident!Interrupted(reporting.before, <<reporting.record>>)
       /\ ReverifiedContinuous(reporting.record.report)
  /\ mishaps = {} => InOrder

LEMMA IncidentInit ==
  ASSUME Incident!ConstantsAssumption, Incident!Init
  PROVE  StoreInv
<1>1. Incident!EmptyFile \in Incident!Files(Incident!Records)
  BY DEF Incident!EmptyFile, Incident!Files, Incident!Ends
<1>2. /\ incidentFile.lines = <<>> /\ incidentFile.end = "ended" /\ Len(incidentFile.lines) = 0
  BY DEF Incident!Init, Incident!EmptyFile
<1>3. LatestExists(incidentFile.lines)
  BY <1>2 DEF LatestExists, Incident!Recorded
<1>4. Incident!TypeOK
  BY <1>1 DEF Incident!Init, Incident!TypeOK, Incident!ConstantsAssumption
<1>5. InOrder
  BY <1>2 DEF InOrder, Incident!Init
<1>. QED BY <1>2, <1>3, <1>4, <1>5 DEF StoreInv, Incident!Init

\* The store is a LineFile.
LEMMA SameFiles ==
  /\ Incident!Files(Incident!Records) = Files(Incident!Records)
  /\ \A f, r : Incident!Interrupted(f, <<r>>) = Interrupted(f, <<r>>)
  /\ \A f, r : Incident!Extended(f, <<r>>) = Extended(f, <<r>>)
<1>1. Incident!Files(Incident!Records) = Files(Incident!Records)
  BY Zenon DEF Incident!Files, Files, Incident!Ends, Ends
<1>2. \A f, r : Incident!Interrupted(f, <<r>>) = Interrupted(f, <<r>>)
  BY Zenon DEF Incident!Interrupted, Interrupted, Incident!Ends, Ends
<1>3. \A f, r : Incident!Extended(f, <<r>>) = Extended(f, <<r>>)
  BY Zenon DEF Incident!Extended, Extended
<1>. QED BY <1>1, <1>2, <1>3

\* A line that is added, if it is, keeps what holds of every line.
LEMMA StoreGrows ==
  ASSUME StoreInv, Incident!TypeOK', NEW r \in Incident!Records,
         ReverifiedContinuous(r.report),
         incidentFile'.lines \in {incidentFile.lines, Append(incidentFile.lines, r)}
  PROVE  /\ Grows(incidentFile.lines, incidentFile'.lines)
         /\ LatestExists(incidentFile'.lines)
         /\ \A n \in 1..Len(incidentFile'.lines) :
              ReverifiedContinuous(incidentFile'.lines[n].report)
         /\ \A n \in 1..Len(incidentFile'.lines) :
              \/ n \in 1..Len(incidentFile.lines) /\ incidentFile'.lines[n] = incidentFile.lines[n]
              \/ n > Len(incidentFile.lines) /\ incidentFile'.lines[n] = r
<1> DEFINE lines == incidentFile.lines
           more == incidentFile'.lines
<1>1. lines \in Seq(Incident!Records) /\ Len(lines) \in Nat
  BY DEF StoreInv, Incident!TypeOK, Incident!Files
<1>2. LatestExists(lines) /\ \A n \in 1..Len(lines) : ReverifiedContinuous(lines[n].report)
  BY DEF StoreInv
<1>3. more = lines \/ more = Append(lines, r)
  OBVIOUS
<1> HIDE DEF lines, more
<1>4. Grows(lines, more)
  BY <1>3, Zenon DEF Grows
<1>5. LatestExists(more)
  BY <1>1, <1>2, <1>3, LatestExistsStays
<1>6. \A n \in 1..Len(more) : \/ n \in 1..Len(lines) /\ more[n] = lines[n]
                              \/ n > Len(lines) /\ more[n] = r
  BY <1>1, <1>3
<1>7. \A n \in 1..Len(more) : ReverifiedContinuous(more[n].report)
  BY <1>2, <1>6
<1>. QED BY <1>4, <1>5, <1>6, <1>7 DEF lines, more

\* A line with the latest time goes last.
LEMMA LatestLast ==
  ASSUME Incident!ConstantsAssumption, incidentFile.lines \in Seq(Incident!Records),
         incidentTime \in Int, NEW r \in Incident!Records, r.at <= incidentTime,
         \A m, n \in 1..Len(incidentFile.lines) :
           m < n => incidentFile.lines[m].at <= incidentFile.lines[n].at,
         \A n \in 1..Len(incidentFile.lines) : incidentFile.lines[n].at <= r.at,
         \A n \in 1..Len(incidentFile'.lines) :
           \/ n \in 1..Len(incidentFile.lines) /\ incidentFile'.lines[n] = incidentFile.lines[n]
           \/ n > Len(incidentFile.lines) /\ incidentFile'.lines[n] = r
  PROVE  /\ \A m, n \in 1..Len(incidentFile'.lines) :
              m < n => incidentFile'.lines[m].at <= incidentFile'.lines[n].at
         /\ \A n \in 1..Len(incidentFile'.lines) : incidentFile'.lines[n].at <= incidentTime
<1> DEFINE old == incidentFile.lines
           new == incidentFile'.lines
           N == Len(old)
           M == Len(new)
<1>a. N \in Nat /\ \A n \in 1..N : old[n] \in Incident!Records
  OBVIOUS
<1>1. N \in Nat /\ r.at \in Int /\ \A n \in 1..N : old[n] \in Incident!Records
  BY <1>a DEF Incident!Records, Incident!ConstantsAssumption
<1>2. \A n \in 1..N : old[n].at \in Int /\ old[n].at <= r.at
  BY <1>1 DEF Incident!Records, Incident!ConstantsAssumption
<1>3. \A m, n \in 1..N : m < n => old[m].at <= old[n].at
  OBVIOUS
<1>4. \A n \in 1..M : \/ n \in 1..N /\ new[n] = old[n]
                      \/ n > N /\ new[n] = r
  OBVIOUS
<1> HIDE DEF old, new, N, M
<1>5. ASSUME NEW m \in 1..M, NEW n \in 1..M, m < n
      PROVE  new[m].at <= new[n].at
  <2>1. CASE n > N /\ new[n] = r
    <3>1. CASE m \in 1..N /\ new[m] = old[m]
      BY <1>2, <2>1, <3>1
    <3>2. CASE new[m] = r
      BY <1>1, <2>1, <3>2
    <3>. QED BY <1>4, <3>1, <3>2
  <2>2. CASE n \in 1..N /\ new[n] = old[n]
    <3>1. m \in 1..N
      BY <1>1, <1>5, <2>2
    <3>2. new[m] = old[m]
      BY <1>1, <1>4, <3>1
    <3>. QED BY <1>3, <1>5, <2>2, <3>1, <3>2
  <2>. QED BY <1>4, <2>1, <2>2
<1>6. ASSUME NEW n \in 1..M PROVE new[n].at <= incidentTime
  <2>1. CASE new[n] = r
    BY <2>1
  <2>2. CASE n \in 1..N /\ new[n] = old[n]
    BY <1>1, <1>2, <2>2
  <2>. QED BY <1>4, <2>1, <2>2
<1>. QED BY <1>5, <1>6, Zenon DEF old, new, N, M

LEMMA StoreStep ==
  ASSUME Incident!ConstantsAssumption, StoreInv, [Incident!Next]_(Incident!vars)
  PROVE  /\ StoreInv'
         /\ Grows(incidentFile.lines, incidentFile'.lines)
         /\ mishaps \subseteq mishaps'
<1> DEFINE lines == incidentFile.lines
<1>0. /\ Incident!TypeOK /\ lines \in Seq(Incident!Records) /\ Len(lines) \in Nat
      /\ incidentFile \in Files(Incident!Records) /\ incidentTime \in Int
      /\ \A n \in 1..Len(lines) : lines[n].at \in Int
  <2>1. Incident!TypeOK /\ incidentFile \in Files(Incident!Records) /\ incidentTime \in Int
    BY SameFiles DEF StoreInv, Incident!TypeOK, Incident!ConstantsAssumption
  <2>2. lines \in Seq(Incident!Records) /\ Len(lines) \in Nat
    BY <2>1 DEF Files
  <2>3. \A n \in 1..Len(lines) : lines[n] \in Incident!Records
    BY <2>2
  <2> HIDE DEF lines
  <2>. QED BY <2>1, <2>2, <2>3 DEF Incident!Records, Incident!ConstantsAssumption
<1>1. ASSUME NEW report \in Incidents, Incident!StartAppend(report)
      PROVE  /\ StoreInv' /\ Grows(lines, lines') /\ mishaps \subseteq mishaps'
  <2> DEFINE r == [report |-> report, at |-> incidentTime]
  <2>1. /\ reporting = NoWrite /\ Incident!Admissible(report)
        /\ report.status = "reverified" => Incident!Continuous(report)
        /\ incidentFile.end # "spoiled"
        /\ reporting' = [record |-> r, before |-> incidentFile]
        /\ incidentFile' \in Incident!Interrupted(incidentFile, <<r>>)
        /\ incidentTime' = incidentTime /\ mishaps' = mishaps /\ viewer' = viewer
    BY <1>1, Zenon DEF Incident!StartAppend
  <2>2. /\ r \in Incident!Records /\ r.report = report /\ r.at = incidentTime
        /\ ReverifiedContinuous(r.report)
    BY <1>0, <2>1 DEF Incident!Records, Incident!TypeOK, ReverifiedContinuous
  <2> HIDE DEF r
  <2>3. /\ incidentFile' \in Files(Incident!Records)
        /\ lines' \in {lines, Append(lines, r)}
    BY <1>0, <2>1, <2>2, SameFiles, InterruptedOne
  <2>4. reporting' \in Incident!Writings /\ reporting' # NoWrite
        /\ reporting'.record = r /\ reporting'.before = incidentFile
    BY <1>0, <2>1, <2>2, SameFiles DEF Incident!Writings, Incident!ConstantsAssumption
  <2>5. Incident!TypeOK'
    BY <1>0, <2>1, <2>3, <2>4, SameFiles, Zenon DEF Incident!TypeOK
  <2>6. /\ Grows(lines, lines') /\ LatestExists(lines')
        /\ \A n \in 1..Len(lines') : ReverifiedContinuous(lines'[n].report)
        /\ \A n \in 1..Len(lines') : \/ n \in 1..Len(lines) /\ lines'[n] = lines[n]
                                     \/ n > Len(lines) /\ lines'[n] = r
    BY <2>2, <2>3, <2>5, StoreGrows
  <2>7. ASSUME mishaps = {} PROVE InOrder'
    <3>1. InOrder /\ incidentFile.end = "ended"
      BY <2>1, <2>7, Zenon DEF StoreInv, InOrder
    <3>2. /\ \A m, n \in 1..Len(lines) : m < n => lines[m].at <= lines[n].at
          /\ \A n \in 1..Len(lines) : lines[n].at <= incidentTime
      BY <3>1 DEF InOrder
    <3>3. r.at = incidentTime /\ r.at <= incidentTime
      BY <1>0, <2>2
    <3>6. /\ \A m, n \in 1..Len(lines') : m < n => lines'[m].at <= lines'[n].at
          /\ \A n \in 1..Len(lines') : lines'[n].at <= incidentTime
      <4>1. \A n \in 1..Len(lines) : lines[n].at <= r.at
        BY <3>2, <3>3
      <4>. QED BY <1>0, <2>2, <2>6, <3>2, <3>3, <4>1, LatestLast, Zenon
    <3>. QED BY <1>0, <2>1, <2>2, <2>4, <3>1, <3>6 DEF InOrder
  <2>8. incidentFile' \in Incident!Interrupted(reporting'.before, <<reporting'.record>>)
    BY <2>1, <2>4, Zenon
  <2>. QED BY <2>1, <2>2, <2>4, <2>5, <2>6, <2>7, <2>8, Zenon DEF StoreInv
<1>2. ASSUME Incident!EndAppend
      PROVE  /\ StoreInv' /\ Grows(lines, lines') /\ mishaps \subseteq mishaps'
  <2> DEFINE r == reporting.record
  <2>1. /\ reporting # NoWrite /\ reporting' = NoWrite
        /\ incidentFile' = Incident!Extended(reporting.before, <<r>>)
        /\ incidentTime' = incidentTime /\ mishaps' = mishaps
    BY <1>2, Zenon DEF Incident!EndAppend
  <2>2. /\ r \in Incident!Records /\ reporting.before \in Files(Incident!Records)
        /\ incidentFile \in Interrupted(reporting.before, <<r>>)
        /\ ReverifiedContinuous(r.report)
    BY <1>0, <2>1, SameFiles DEF StoreInv, Incident!TypeOK, Incident!Writings
  <2>3. /\ incidentFile' \in Files(Incident!Records)
        /\ lines' = Append(reporting.before.lines, r)
        /\ lines \in {reporting.before.lines, Append(reporting.before.lines, r)}
    BY <2>1, <2>2, SameFiles, ExtendedOne, InterruptedOne
  <2> HIDE DEF r
  <2>4. lines' \in {lines, Append(lines, r)}
    BY <2>3
  <2>5. Incident!TypeOK'
    BY <1>0, <2>1, <2>3, SameFiles, Zenon DEF Incident!TypeOK
  <2>6. /\ Grows(lines, lines') /\ LatestExists(lines')
        /\ \A n \in 1..Len(lines') : ReverifiedContinuous(lines'[n].report)
        /\ \A n \in 1..Len(lines') : \/ n \in 1..Len(lines) /\ lines'[n] = lines[n]
                                     \/ n > Len(lines) /\ lines'[n] = r
    BY <2>2, <2>4, <2>5, StoreGrows
  <2>7. ASSUME mishaps = {} PROVE InOrder'
    <3>1. /\ \A m, n \in 1..Len(lines) : m < n => lines[m].at <= lines[n].at
          /\ \A n \in 1..Len(lines) : lines[n].at <= incidentTime /\ lines[n].at <= r.at
          /\ r.at <= incidentTime /\ reporting.before.end = "ended"
      BY <2>1, <2>7 DEF StoreInv, InOrder, r
    <3>3. incidentFile'.end = "ended"
      BY <2>1, <3>1 DEF Incident!Extended
    <3>6. /\ \A m, n \in 1..Len(lines') : m < n => lines'[m].at <= lines'[n].at
          /\ \A n \in 1..Len(lines') : lines'[n].at <= incidentTime
      BY <1>0, <2>2, <2>6, <3>1, LatestLast, Zenon
    <3>. QED BY <1>0, <2>1, <3>3, <3>6 DEF InOrder
  <2>. QED BY <2>1, <2>2, <2>5, <2>6, <2>7, Zenon DEF StoreInv
<1>3. CASE Incident!CutAppend
  <2>1. /\ reporting' = NoWrite /\ mishaps' = mishaps \union {"cut"}
        /\ UNCHANGED <<incidentFile, incidentTime>>
    BY <1>3, Zenon DEF Incident!CutAppend
  <2>2. Incident!TypeOK' /\ mishaps' # {}
    BY <1>0, <2>1 DEF Incident!TypeOK
  <2>. QED BY <2>1, <2>2 DEF StoreInv, Grows
<1>4. CASE Incident!SetClock
  <2>1. /\ incidentTime' \in 0..MaxIncidentTime
        /\ mishaps' = IF incidentTime' < incidentTime THEN mishaps \union {"set_back"}
                      ELSE mishaps
        /\ UNCHANGED <<incidentFile, reporting>>
    BY <1>4 DEF Incident!SetClock
  <2>2. Incident!TypeOK' /\ mishaps \subseteq mishaps'
    BY <1>0, <2>1 DEF Incident!TypeOK
  <2>3. ASSUME mishaps' = {} PROVE InOrder'
    <3>0. ~(incidentTime' < incidentTime) /\ mishaps = {}
      <4>1. CASE incidentTime' < incidentTime
        BY <2>1, <2>3, <4>1
      <4>2. CASE ~(incidentTime' < incidentTime)
        BY <2>1, <2>3, <4>2
      <4>. QED BY <4>1, <4>2
    <3>a. incidentTime' \in Int
      BY <2>1 DEF Incident!ConstantsAssumption
    <3>1. InOrder /\ incidentTime <= incidentTime' /\ incidentTime' \in Int
      BY <1>0, <3>0, <3>a DEF StoreInv
    <3>2. reporting # NoWrite => reporting.record.at \in Int
      BY <1>0 DEF Incident!TypeOK, Incident!Writings, Incident!Records,
                  Incident!ConstantsAssumption
    <3>. QED BY <1>0, <2>1, <3>1, <3>2 DEF InOrder
  <2>. QED BY <2>1, <2>2, <2>3 DEF StoreInv, Grows
<1>5. CASE UNCHANGED <<incidentFile, incidentTime, reporting, mishaps>>
  BY <1>0, <1>5 DEF StoreInv, Grows, Incident!TypeOK, InOrder
<1>6. Incident!StartPaging \/ Incident!ReadPage \/ Incident!LeavePages
        => UNCHANGED <<incidentFile, incidentTime, reporting, mishaps>>
  BY Zenon DEF Incident!StartPaging, Incident!ReadPage, Incident!LeavePages
<1>. QED
  BY <1>1, <1>2, <1>3, <1>4, <1>5, <1>6, Zenon DEF Incident!Next, Incident!vars

\* Viewers, and what binds what a viewer has been shown to the store.
Viewers ==
  [step : {"page", "last", "invalid", "too_large"}, offset : Nat, shown : Seq(Incidents),
   expected : Seq(Incident!Records), during : BOOLEAN]

Begins(prefix, lines) ==
  /\ Len(prefix) <= Len(lines)
  /\ \A n \in 1..Len(prefix) : lines[n] = prefix[n]

\* What is shown was recorded, and is not behind what was shown or expected.
ShownInOrder(v, lines) ==
  /\ \A n \in 1..Len(v.shown) :
       /\ \E k \in 1..Len(lines) : lines[k].report = v.shown[n]
       /\ \A k \in 1..Len(v.expected) :
            v.expected[k].report.incident = v.shown[n].incident =>
              Incident!Rank[v.expected[k].report.status] <= Incident!Rank[v.shown[n].status]
       /\ \A m \in 1..Len(v.shown) :
            m < n /\ v.shown[m].incident = v.shown[n].incident =>
              Incident!Rank[v.shown[m].status] <= Incident!Rank[v.shown[n].status]
       /\ ReverifiedContinuous(v.shown[n])

\* The status of an incident went back.
WentBack(lines) ==
  \E m, n \in 1..Len(lines) :
    /\ m < n /\ lines[m].report.incident = lines[n].report.incident
    /\ Incident!Rank[lines[m].report.status] > Incident!Rank[lines[n].report.status]

\* An incident has been shown, or moved to the front.
ShownOrMoved(v, lines, i) ==
  \/ \E n \in 1..Len(v.shown) : v.shown[n].incident = i
  \/ \E n \in 1..Len(lines) : n > Len(v.expected) /\ lines[n].report.incident = i

\* What has not been is on a later page, as long as there are pages.
NoneSkipped(v, lines) ==
  /\ v.step = "page" /\ Incident!Consolidates(lines) =>
       \A i \in Incident!Recorded(v.expected) :
         ShownOrMoved(v, lines, i) \/ Place(lines, i) >= v.offset
  /\ v.step = "last" => \A i \in Incident!Recorded(v.expected) : ShownOrMoved(v, lines, i)

ViewerBound(v, lines) ==
  /\ v \in Viewers
  /\ Begins(v.expected, lines)
  /\ ShownInOrder(v, lines)
  /\ NoneSkipped(v, lines)

IncidentInv ==
  /\ StoreInv
  /\ viewer # NoViewer =>
       /\ ViewerBound(viewer, incidentFile.lines)
       /\ viewer.step = "invalid" /\ ~viewer.during /\ mishaps = {}
            => WentBack(incidentFile.lines)

\* The store grows under a viewer.
LEMMA ViewerKept ==
  ASSUME Incident!ConstantsAssumption, NEW lines \in Seq(Incident!Records),
         LatestExists(lines), NEW more, Grows(lines, more), NEW v, ViewerBound(v, lines)
  PROVE  ViewerBound(v, more) /\ (WentBack(lines) => WentBack(more))
<1>1. CASE more = lines
  BY <1>1
<1>2. ASSUME NEW r \in Incident!Records, more = Append(lines, r)
      PROVE  ViewerBound(v, more) /\ (WentBack(lines) => WentBack(more))
  <2>1. /\ DOMAIN lines = 1..Len(lines) /\ Len(lines) \in Nat
        /\ Len(more) = Len(lines) + 1
        /\ \A n \in 1..Len(lines) : more[n] = lines[n]
        /\ more[Len(more)] = r
    BY <1>2
  <2>2. \A n \in 1..Len(lines) : n \in 1..Len(more)
    BY <2>1
  <2>3. v \in Viewers /\ Len(v.expected) \in Nat
        /\ DOMAIN v.expected = 1..Len(v.expected)
    BY DEF ViewerBound, Viewers
  <2>4. Begins(v.expected, more)
    BY <2>1, <2>3 DEF ViewerBound, Begins
  <2>5. ShownInOrder(v, more)
    BY <2>1, <2>2 DEF ViewerBound, ShownInOrder
  <2>6. WentBack(lines) => WentBack(more)
    BY <2>1, <2>2 DEF WentBack
  <2>7. \A i : ShownOrMoved(v, lines, i) => ShownOrMoved(v, more, i)
    BY <2>1, <2>2, Zenon DEF ShownOrMoved
  <2>8. ASSUME v.step = "page", Incident!Consolidates(more),
               NEW i \in Incident!Recorded(v.expected)
        PROVE  ShownOrMoved(v, more, i) \/ Place(more, i) >= v.offset
    <3>1. CASE i = r.report.incident
      <4>1. Len(more) > Len(v.expected)
        BY <2>1, <2>3 DEF ViewerBound, Begins
      <4>. QED BY <2>1, <3>1, <4>1 DEF ShownOrMoved
    <3>2. CASE i # r.report.incident
      <4>1. i \in Incident!Recorded(lines)
        BY <2>1, <2>3 DEF Incident!Recorded, ViewerBound, Begins
      <4>2. Incident!Consolidates(lines) /\ Place(lines, i) <= Place(more, i)
        BY <1>2, <2>8, <3>2, <4>1, OneMoreLine
      <4>3. ShownOrMoved(v, lines, i) \/ Place(lines, i) >= v.offset
        BY <2>8, <4>2, Zenon DEF ViewerBound, NoneSkipped
      <4>4. Place(lines, i) \in Nat /\ Place(more, i) \in Nat /\ v.offset \in Nat
        <5>1. more \in Seq(Incident!Records)
          BY <1>2
        <5>. QED BY <2>3, <5>1, Places DEF Viewers
      <4>. QED BY <2>7, <4>2, <4>3, <4>4
    <3>. QED BY <3>1, <3>2
  <2>9. NoneSkipped(v, more)
    BY <2>7, <2>8, Zenon DEF ViewerBound, NoneSkipped
  <2>. QED BY <2>3, <2>4, <2>5, <2>6, <2>9, Zenon DEF ViewerBound
<1>. QED BY <1>1, <1>2, Zenon DEF Grows

\* Without mishaps, lines that do not consolidate went back.
LEMMA StatusWentBack ==
  ASSUME Incident!ConstantsAssumption, StoreInv, mishaps = {},
         ~Incident!Consolidates(incidentFile.lines)
  PROVE  WentBack(incidentFile.lines)
<1> DEFINE lines == incidentFile.lines
<1>1. /\ lines \in Seq(Incident!Records) /\ DOMAIN lines = 1..Len(lines)
      /\ \A m, n \in 1..Len(lines) : m < n => lines[m].at <= lines[n].at
  BY DEF StoreInv, InOrder, Incident!TypeOK, Incident!Files
<1>2. \A n \in 1..Len(lines) : Incident!Rank[lines[n].report.status] \in Nat
  <2>1. TAKE n \in 1..Len(lines)
  <2>2. lines[n] \in Incident!Records
    BY <1>1
  <2>3. lines[n].report.status \in Incident!Statuses
    BY <2>2 DEF Incident!Records, Incident!ConstantsAssumption, Incident!Evidence
  <2>. QED BY <2>3, Ranks
<1> HIDE DEF lines
<1>3. ~Incident!Consolidates(lines)
  BY DEF lines
<1>4. PICK i \in Incident!Recorded(lines) :
        \E m, n \in Incident!Of(lines, i) :
          /\ m < n
          /\ ~(/\ Incident!Rank[lines[m].report.status] <= Incident!Rank[lines[n].report.status]
               /\ lines[m].at <= lines[n].at)
  BY <1>3, Zenon DEF Incident!Consolidates
<1>a. PICK m \in Incident!Of(lines, i), n \in Incident!Of(lines, i) :
        /\ m < n
        /\ ~(/\ Incident!Rank[lines[m].report.status] <= Incident!Rank[lines[n].report.status]
             /\ lines[m].at <= lines[n].at)
  BY <1>4, Zenon
<1>5. /\ m \in 1..Len(lines) /\ n \in 1..Len(lines)
      /\ lines[m].report.incident = lines[n].report.incident
  BY <1>1, <1>a DEF Incident!Of
<1>6. Incident!Rank[lines[m].report.status] > Incident!Rank[lines[n].report.status]
  BY <1>1, <1>2, <1>5, <1>a
<1>7. WentBack(lines)
  BY <1>5, <1>6, <1>a DEF WentBack
<1>. QED BY <1>7 DEF lines

LEMMA JoinedSequences ==
  ASSUME NEW R, NEW s \in Seq(R), NEW t \in Seq(R)
  PROVE  /\ Len(s) \in Nat /\ Len(t) \in Nat /\ Len(s \o t) = Len(s) + Len(t)
         /\ \A n \in 1..Len(s) : (s \o t)[n] = s[n]
         /\ \A n \in 1..Len(t) : (s \o t)[Len(s) + n] = t[n]
  OBVIOUS

\* What a page shows.
LEMMA PageReports ==
  ASSUME Incident!ConstantsAssumption, NEW lines \in Seq(Incident!Records),
         LatestExists(lines), Incident!Consolidates(lines), NEW offset
  PROVE  LET slice == Incident!Page(lines, offset)
             reports == {Incident!Latest(lines, i).report : i \in slice}
             new == Incident!SetToSeq(reports)
         IN /\ new \in Seq(Incidents)
            /\ \A n \in 1..Len(new) : new[n] \in reports
            /\ \A x \in reports : \E n \in 1..Len(new) : new[n] = x
            /\ slice = {i \in Incident!Recorded(lines) : Place(lines, i) = offset}
            /\ \A i \in slice : \E x \in reports : x.incident = i
            /\ \A x \in reports : \E m \in 1..Len(lines) :
                 /\ x = lines[m].report
                 /\ \A n \in 1..Len(lines) : lines[n].report.incident = x.incident =>
                      Incident!Rank[lines[n].report.status] <= Incident!Rank[x.status]
<1> DEFINE slice == Incident!Page(lines, offset)
           reports == {Incident!Latest(lines, i).report : i \in slice}
           new == Incident!SetToSeq(reports)
<1>2. /\ DOMAIN lines = 1..Len(lines) /\ Len(lines) \in Nat
      /\ \A n \in 1..Len(lines) : lines[n] \in Incident!Records
  OBVIOUS
<1>3. \A n \in 1..Len(lines) :
        /\ lines[n].report \in Incidents /\ lines[n].report.incident \in Nat
        /\ Incident!Rank[lines[n].report.status] \in Nat
  <2>1. TAKE n \in 1..Len(lines)
  <2>2. lines[n].report \in Incidents /\ lines[n].report \in Incident!Evidence
    BY <1>2 DEF Incident!Records, Incident!ConstantsAssumption
  <2>. QED BY <2>2, Ranks DEF Incident!Evidence
<1>4. \A i \in Incident!Recorded(lines) : i \in Nat
  BY <1>2, <1>3 DEF Incident!Recorded
<1>5. slice = {i \in Incident!Recorded(lines) : Place(lines, i) = offset}
  BY SameCount, Zenon DEF Incident!Page, Place, Earlier
<1>6. \A i \in slice : \E m \in 1..Len(lines) :
        /\ Incident!Latest(lines, i).report = lines[m].report
        /\ lines[m].report.incident = i
        /\ \A n \in 1..Len(lines) : lines[n].report.incident = i =>
             Incident!Rank[lines[n].report.status] <= Incident!Rank[lines[m].report.status]
  <2>1. TAKE i \in slice
  <2>2. i \in Incident!Recorded(lines)
    BY <1>5
  <2>3. PICK m \in Incident!Of(lines, i) : /\ Incident!Latest(lines, i) = lines[m]
                                           /\ \A n \in Incident!Of(lines, i) : n <= m
    BY <2>2, LatestLine
  <2>4. m \in 1..Len(lines) /\ lines[m].report.incident = i
    BY <1>2, <2>3 DEF Incident!Of
  <2>5. ASSUME NEW n \in 1..Len(lines), lines[n].report.incident = i
        PROVE  Incident!Rank[lines[n].report.status] <= Incident!Rank[lines[m].report.status]
    <3>1. n \in Incident!Of(lines, i)
      BY <1>2, <2>5 DEF Incident!Of
    <3>2. n < m \/ n = m
      BY <2>3, <2>4, <3>1
    <3>3. CASE n < m
      BY <2>2, <2>3, <3>1, <3>3, Zenon DEF Incident!Consolidates
    <3>4. CASE n = m
      BY <1>3, <2>4, <3>4
    <3>. QED BY <3>2, <3>3, <3>4
  <2>. QED BY <2>3, <2>4, <2>5
<1>7. IsFiniteSet(reports) /\ reports \in SUBSET Incidents
  <2> DEFINE f == [i \in slice |-> Incident!Latest(lines, i).report]
  <2>1. slice \in SUBSET Incident!Recorded(lines)
    BY <1>5
  <2>2. IsFiniteSet(slice)
    BY <2>1, Places, FS_Subset
  <2>3. f \in Surjection(slice, reports)
    BY DEF Surjection
  <2>4. reports \in SUBSET Incidents
    BY <1>3, <1>6
  <2> HIDE DEF slice, f, reports
  <2>. QED BY <2>2, <2>3, <2>4, FS_Surjection
<1>8. /\ new \in Seq(Incidents)
      /\ \A n \in 1..Len(new) : new[n] \in reports
      /\ \A x \in reports : \E n \in 1..Len(new) : new[n] = x
  <2> HIDE DEF reports
  <2>. QED BY <1>7, SequenceOfSet
<1>9. \A x \in reports : \E m \in 1..Len(lines) :
        /\ x = lines[m].report
        /\ \A n \in 1..Len(lines) : lines[n].report.incident = x.incident =>
             Incident!Rank[lines[n].report.status] <= Incident!Rank[x.status]
  BY <1>6
<1>10. \A i \in slice : \E x \in reports : x.incident = i
  BY <1>6
<1>. QED BY <1>5, <1>8, <1>9, <1>10

\* The next page of a store whose incidents consolidate.
LEMMA PageRead ==
  ASSUME Incident!ConstantsAssumption, NEW lines \in Seq(Incident!Records),
         LatestExists(lines), Incident!Consolidates(lines),
         \A n \in 1..Len(lines) : ReverifiedContinuous(lines[n].report),
         NEW v, ViewerBound(v, lines), v.step = "page", NEW w \in Viewers,
         w.offset = v.offset + 1, w.expected = v.expected,
         w.shown = v.shown \o Incident!SetToSeq({Incident!Latest(lines, i).report :
                                                   i \in Incident!Page(lines, v.offset)}),
         w.step = IF v.offset + 1 < Cardinality(Incident!Recorded(lines)) THEN "page"
                  ELSE "last"
  PROVE  ViewerBound(w, lines)
<1> DEFINE slice == Incident!Page(lines, v.offset)
           reports == {Incident!Latest(lines, i).report : i \in slice}
           new == Incident!SetToSeq(reports)
<1>1. /\ v \in Viewers /\ v.offset \in Nat /\ v.shown \in Seq(Incidents)
      /\ Len(v.shown) \in Nat /\ Len(v.expected) \in Nat
      /\ DOMAIN v.expected = 1..Len(v.expected)
  BY DEF ViewerBound, Viewers
<1>2. /\ DOMAIN lines = 1..Len(lines) /\ Len(lines) \in Nat
      /\ \A n \in 1..Len(lines) : lines[n] \in Incident!Records
  OBVIOUS
<1>4. \A i \in Incident!Recorded(lines) : i \in Nat
  <2>1. \A n \in 1..Len(lines) : lines[n].report \in Incident!Evidence
    BY <1>2 DEF Incident!Records, Incident!ConstantsAssumption
  <2>. QED BY <1>2, <2>1 DEF Incident!Recorded, Incident!Evidence
<1>8. /\ new \in Seq(Incidents)
      /\ \A n \in 1..Len(new) : new[n] \in reports
      /\ \A x \in reports : \E n \in 1..Len(new) : new[n] = x
      /\ slice = {i \in Incident!Recorded(lines) : Place(lines, i) = v.offset}
      /\ \A i \in slice : \E x \in reports : x.incident = i
      /\ \A x \in reports : \E m \in 1..Len(lines) :
           /\ x = lines[m].report
           /\ \A n \in 1..Len(lines) : lines[n].report.incident = x.incident =>
                Incident!Rank[lines[n].report.status] <= Incident!Rank[x.status]
  BY PageReports, Zenon
<1> HIDE DEF slice, reports, new
<1>11. /\ Len(w.shown) = Len(v.shown) + Len(new) /\ Len(new) \in Nat
       /\ \A n \in 1..Len(v.shown) : w.shown[n] = v.shown[n]
       /\ \A n \in 1..Len(new) : w.shown[Len(v.shown) + n] = new[n]
  <2>1. w.shown = v.shown \o new
    BY DEF new, reports, slice
  <2>2. v.shown \in Seq(Incidents) /\ new \in Seq(Incidents)
    BY <1>1, <1>8
  <2>3. /\ Len(new) \in Nat /\ Len(v.shown \o new) = Len(v.shown) + Len(new)
        /\ \A n \in 1..Len(v.shown) : (v.shown \o new)[n] = v.shown[n]
        /\ \A n \in 1..Len(new) : (v.shown \o new)[Len(v.shown) + n] = new[n]
    <3> DEFINE a == v.shown
    <3>1. a \in Seq(Incidents) /\ new \in Seq(Incidents)
      BY <2>2
    <3> HIDE DEF a
    <3>2. /\ Len(new) \in Nat /\ Len(a \o new) = Len(a) + Len(new)
          /\ \A n \in 1..Len(a) : (a \o new)[n] = a[n]
          /\ \A n \in 1..Len(new) : (a \o new)[Len(a) + n] = new[n]
      BY <3>1
    <3>. QED BY <3>2 DEF a
  <2>. QED BY <2>1, <2>3, Zenon
<1>12. \A n \in 1..Len(w.shown) : n \in 1..Len(v.shown) \/ w.shown[n] \in reports
  <2>1. TAKE n \in 1..Len(w.shown)
  <2>2. CASE n > Len(v.shown)
    <3>1. n - Len(v.shown) \in 1..Len(new) /\ n = Len(v.shown) + (n - Len(v.shown))
      BY <1>1, <1>11, <2>2
    <3>2. w.shown[n] = new[n - Len(v.shown)]
      BY <1>11, <3>1
    <3>. QED BY <1>8, <3>1, <3>2
  <2>. QED BY <1>1, <1>11, <2>2
<1>13. ShownInOrder(w, lines)
  <2>1. SUFFICES ASSUME NEW n \in 1..Len(w.shown)
        PROVE  /\ \E k \in 1..Len(lines) : lines[k].report = w.shown[n]
               /\ \A k \in 1..Len(v.expected) :
                    v.expected[k].report.incident = w.shown[n].incident =>
                      Incident!Rank[v.expected[k].report.status]
                        <= Incident!Rank[w.shown[n].status]
               /\ \A m \in 1..Len(w.shown) :
                    m < n /\ w.shown[m].incident = w.shown[n].incident =>
                      Incident!Rank[w.shown[m].status] <= Incident!Rank[w.shown[n].status]
               /\ ReverifiedContinuous(w.shown[n])
    BY Zenon DEF ShownInOrder
  <2>2. CASE n \in 1..Len(v.shown)
    <3>1. \A m \in 1..Len(w.shown) : m < n => m \in 1..Len(v.shown) /\ w.shown[m] = v.shown[m]
      BY <1>1, <1>11, <2>2
    <3>2. w.shown[n] = v.shown[n]
      BY <1>11, <2>2
    <3>. QED BY <2>2, <3>1, <3>2, Zenon DEF ViewerBound, ShownInOrder
  <2>3. CASE w.shown[n] \in reports
    <3>1. PICK k \in 1..Len(lines) :
            /\ w.shown[n] = lines[k].report
            /\ \A j \in 1..Len(lines) : lines[j].report.incident = w.shown[n].incident =>
                 Incident!Rank[lines[j].report.status] <= Incident!Rank[w.shown[n].status]
      BY <1>8, <2>3, Zenon
    <3>2. \A j \in 1..Len(v.expected) : j \in 1..Len(lines) /\ lines[j] = v.expected[j]
      BY <1>1, <1>2 DEF ViewerBound, Begins
    <3>3. \A m \in 1..Len(w.shown) : \E j \in 1..Len(lines) : lines[j].report = w.shown[m]
      <4>1. TAKE m \in 1..Len(w.shown)
      <4>2. CASE m \in 1..Len(v.shown)
        BY <1>11, <4>2, Zenon DEF ViewerBound, ShownInOrder
      <4>3. CASE w.shown[m] \in reports
        BY <1>8, <4>3, Zenon
      <4>. QED BY <1>12, <4>2, <4>3
    <3>4. \A j \in 1..Len(v.expected) :
            v.expected[j].report.incident = w.shown[n].incident =>
              Incident!Rank[v.expected[j].report.status] <= Incident!Rank[w.shown[n].status]
      BY <3>1, <3>2
    <3>5. \A m \in 1..Len(w.shown) :
            w.shown[m].incident = w.shown[n].incident =>
              Incident!Rank[w.shown[m].status] <= Incident!Rank[w.shown[n].status]
      BY <3>1, <3>3
    <3>6. ReverifiedContinuous(w.shown[n])
      BY <3>1
    <3>. QED BY <3>1, <3>4, <3>5, <3>6, Zenon
  <2>. QED BY <1>12, <2>2, <2>3
<1>14. ASSUME NEW i \in Incident!Recorded(v.expected)
       PROVE  ShownOrMoved(w, lines, i) \/ Place(lines, i) >= w.offset
  <2>1. i \in Incident!Recorded(lines)
    BY <1>1, <1>2 DEF Incident!Recorded, ViewerBound, Begins
  <2>2. ShownOrMoved(v, lines, i) \/ Place(lines, i) >= v.offset
    BY Zenon DEF ViewerBound, NoneSkipped
  <2>3. CASE ShownOrMoved(v, lines, i)
    <3>1. \A n \in 1..Len(v.shown) : n \in 1..Len(w.shown)
      BY <1>1, <1>11
    <3>. QED BY <1>11, <2>3, <3>1, Zenon DEF ShownOrMoved
  <2>4. CASE Place(lines, i) = v.offset
    <3>1. PICK x \in reports : x.incident = i
      BY <1>8, <2>1, <2>4
    <3>2. PICK n \in 1..Len(new) : new[n] = x
      BY <1>8
    <3>3. Len(v.shown) + n \in 1..Len(w.shown) /\ w.shown[Len(v.shown) + n] = x
      <4> DEFINE N == Len(v.shown)
                 M == Len(new)
      <4>1. N \in Nat /\ M \in Nat /\ n \in 1..M /\ Len(w.shown) = N + M
        BY <1>1, <1>11
      <4> HIDE DEF N, M
      <4>2. N + n \in 1..N + M
        BY <4>1
      <4>. QED BY <1>11, <3>2, <4>1, <4>2 DEF N
    <3>. QED BY <3>1, <3>3, Zenon DEF ShownOrMoved
  <2>. QED BY <1>1, <2>2, <2>3, <2>4, Places
<1>15. NoneSkipped(w, lines)
  <2>1. ASSUME w.step = "last", NEW i \in Incident!Recorded(v.expected)
        PROVE  ShownOrMoved(w, lines, i)
    <3>1. i \in Incident!Recorded(lines)
      BY <1>1, <1>2 DEF Incident!Recorded, ViewerBound, Begins
    <3>2. Place(lines, i) < Cardinality(Incident!Recorded(lines)) /\ Place(lines, i) \in Nat
      BY <1>4, <3>1, Places
    <3>3. ~(v.offset + 1 < Cardinality(Incident!Recorded(lines)))
      BY <2>1
    <3>4. Cardinality(Incident!Recorded(lines)) \in Nat
      BY Places, FS_CardinalityType
    <3>. QED BY <1>1, <1>14, <3>2, <3>3, <3>4
  <2>. QED BY <1>14, <2>1, Zenon DEF NoneSkipped
<1>16. Begins(w.expected, lines)
  BY DEF ViewerBound
<1>. QED BY <1>13, <1>15, <1>16, Zenon DEF ViewerBound

LEMMA IncidentStep ==
  ASSUME Incident!ConstantsAssumption, IncidentInv, [Incident!Next]_(Incident!vars)
  PROVE  IncidentInv'
<1> DEFINE lines == incidentFile.lines
<1>1. /\ StoreInv /\ StoreInv' /\ mishaps \subseteq mishaps'
      /\ Grows(lines, lines')
  BY StoreStep DEF IncidentInv
<1>2. /\ lines \in Seq(Incident!Records) /\ LatestExists(lines)
      /\ \A n \in 1..Len(lines) : ReverifiedContinuous(lines[n].report)
  BY <1>1 DEF StoreInv, Incident!TypeOK, Incident!Files
<1>3. SUFFICES ASSUME viewer' # NoViewer
      PROVE  /\ ViewerBound(viewer', lines')
             /\ viewer'.step = "invalid" /\ ~viewer'.during /\ mishaps' = {}
                  => WentBack(lines')
  BY <1>1, Zenon DEF IncidentInv, ViewerBound, Begins, ShownInOrder, NoneSkipped, WentBack,
     ShownOrMoved, Viewers, ReverifiedContinuous, Place, Earlier
<1>4. CASE viewer' = viewer
  <2>1. /\ ViewerBound(viewer, lines)
        /\ viewer.step = "invalid" /\ ~viewer.during /\ mishaps = {} => WentBack(lines)
    BY <1>3, <1>4, Zenon DEF IncidentInv
  <2>2. ViewerBound(viewer, lines') /\ (WentBack(lines) => WentBack(lines'))
    <3> DEFINE more == lines'
    <3>1. Grows(lines, more)
      BY <1>1
    <3> HIDE DEF lines, more
    <3>2. ViewerBound(viewer, more) /\ (WentBack(lines) => WentBack(more))
      BY <1>2, <2>1, <3>1, ViewerKept
    <3>. QED BY <3>2 DEF more
  <2>3. mishaps' = {} => mishaps = {}
    BY <1>1
  <2>. QED BY <1>4, <2>1, <2>2, <2>3, Zenon
<1>5. CASE Incident!StartPaging
  <2> DEFINE v == [step |-> "page", offset |-> 0, shown |-> <<>>, expected |-> lines,
                   during |-> FALSE]
  <2>1. viewer' = v /\ lines' = lines
    BY <1>5, Zenon DEF Incident!StartPaging
  <2>2. \A i : Place(lines, i) \in Nat
    BY <1>2, Places
  <2>3. ViewerBound(v, lines)
    <3> HIDE DEF lines
    <3>1. /\ v \in Viewers /\ v.expected = lines /\ Len(v.shown) = 0 /\ v.step = "page"
          /\ v.offset = 0 /\ Len(lines) \in Nat
      BY <1>2 DEF Viewers
    <3> HIDE DEF v
    <3>2. Begins(v.expected, lines) /\ ShownInOrder(v, lines) /\ NoneSkipped(v, lines)
      BY <2>2, <3>1 DEF Begins, ShownInOrder, NoneSkipped
    <3>. QED BY <3>1, <3>2 DEF ViewerBound
  <2>. QED BY <2>1, <2>3
<1>6. CASE Incident!ReadPage
  <2> DEFINE new == Incident!SetToSeq({Incident!Latest(lines, i).report :
                                         i \in Incident!Page(lines, viewer.offset)})
             rest == viewer.offset + 1 < Incident!Cardinality(Incident!Recorded(lines))
             onward == IF rest THEN "page" ELSE "last"
             busy == reporting # NoWrite
  <2>1. viewer # NoViewer /\ viewer.step = "page" /\ UNCHANGED <<incidentFile, mishaps>>
    BY <1>6, Zenon DEF Incident!ReadPage
  <2>2. ViewerBound(viewer, lines) /\ viewer \in Viewers
    BY <2>1, Zenon DEF IncidentInv, ViewerBound
  <2>3. \/ /\ incidentFile.end = "spoiled" \/ ~Incident!Consolidates(lines)
           /\ viewer' = [viewer EXCEPT !.step = "invalid", !.during = busy]
        \/ viewer' = [viewer EXCEPT !.step = "too_large", !.during = busy]
        \/ /\ Incident!Consolidates(lines)
           /\ viewer' = [viewer EXCEPT !.offset = @ + 1, !.shown = @ \o new, !.step = onward]
    <3> HIDE DEF new
    <3>. QED BY <1>6 DEF Incident!ReadPage, Incident!Failed, new
  <2>4. ASSUME NEW why \in {"invalid", "too_large"},
               viewer' = [viewer EXCEPT !.step = why, !.during = busy]
        PROVE  ViewerBound(viewer', lines) /\ viewer'.step = why /\ viewer'.during = busy
    <3>1. busy \in BOOLEAN
      BY SMT
    <3> HIDE DEF busy, lines
    <3>2. /\ viewer' \in Viewers /\ viewer'.step = why /\ viewer'.during = busy
          /\ viewer'.shown = viewer.shown /\ viewer'.expected = viewer.expected
      BY <2>2, <2>4, <3>1 DEF Viewers
    <3>3. Begins(viewer'.expected, lines) /\ ShownInOrder(viewer', lines)
      BY <2>2, <3>2, Zenon DEF ViewerBound, ShownInOrder
    <3>4. NoneSkipped(viewer', lines)
      BY <3>2 DEF NoneSkipped
    <3>. QED BY <3>2, <3>3, <3>4, Zenon DEF ViewerBound
  <2>5. CASE viewer' = [viewer EXCEPT !.step = "too_large", !.during = busy]
    BY <2>1, <2>4, <2>5
  <2>6. CASE /\ incidentFile.end = "spoiled" \/ ~Incident!Consolidates(lines)
             /\ viewer' = [viewer EXCEPT !.step = "invalid", !.during = busy]
    <3>1. ViewerBound(viewer', lines) /\ viewer'.during = busy
      BY <2>4, <2>6, Zenon
    <3>2. ~busy /\ mishaps = {} => WentBack(lines)
      BY <1>1, <2>6, StatusWentBack DEF StoreInv, InOrder
    <3>. QED BY <2>1, <3>1, <3>2, Zenon
  <2>7. CASE /\ Incident!Consolidates(lines)
             /\ viewer' = [viewer EXCEPT !.offset = @ + 1, !.shown = @ \o new, !.step = onward]
    <3>1. viewer.shown \o new \in Seq(Incidents)
      <4>1. new \in Seq(Incidents)
        BY <1>2, <2>7, PageReports
      <4> HIDE DEF new
      <4>2. viewer.shown \in Seq(Incidents)
        BY <2>2 DEF Viewers
      <4>. QED BY <4>1, <4>2
    <3>2. onward \in {"page", "last"}
      OBVIOUS
    <3>3. rest <=> viewer.offset + 1 < Cardinality(Incident!Recorded(lines))
      BY SameCount, Zenon
    <3>4. onward = IF viewer.offset + 1 < Cardinality(Incident!Recorded(lines)) THEN "page"
                 ELSE "last"
      BY <3>3
    <3> DEFINE shown == viewer.shown \o new
    <3> HIDE DEF new, onward, lines, shown
    <3>5. /\ viewer' \in Viewers /\ viewer'.offset = viewer.offset + 1
          /\ viewer'.expected = viewer.expected /\ viewer'.shown = shown
          /\ viewer'.step = onward
      <4>1. viewer' = [viewer EXCEPT !.offset = viewer.offset + 1, !.shown = shown, !.step = onward]
        BY <2>7, Zenon DEF shown
      <4>2. viewer.offset + 1 \in Nat /\ shown \in Seq(Incidents)
        BY <2>2, <3>1 DEF Viewers, shown
      <4>. QED BY <2>2, <3>2, <4>1, <4>2 DEF Viewers
    <3>6. ViewerBound(viewer', lines)
      BY <1>2, <2>1, <2>2, <2>7, <3>4, <3>5, PageRead DEF new, shown
    <3>7. viewer'.step # "invalid"
      BY <3>2, <3>5
    <3>8. lines' = lines
      BY <2>1 DEF lines
    <3>. QED BY <3>6, <3>7, <3>8, Zenon
  <2>. QED BY <2>3, <2>5, <2>6, <2>7, Zenon
<1>. QED
  BY <1>3, <1>4, <1>5, <1>6, Zenon DEF Incident!Next, Incident!vars, Incident!StartAppend,
     Incident!EndAppend, Incident!CutAppend, Incident!SetClock, Incident!LeavePages

LEMMA IncidentInvariance ==
  ASSUME Incident!ConstantsAssumption
  PROVE  Incident!Spec => []IncidentInv
<1>1. Incident!Init => IncidentInv
  BY IncidentInit, Zenon DEF IncidentInv, Incident!Init
<1>. QED BY <1>1, IncidentStep, PTL DEF Incident!Spec

\* A viewer that has come to the last page has been shown every incident that
\* was there when it began, but for those that were reported on meanwhile.
THEOREM NoIncidentSkipped ==
  ASSUME Incident!ConstantsAssumption
  PROVE  Incident!Spec => []PagesComplete
<1>1. ASSUME IncidentInv PROVE PagesComplete
  <2> DEFINE lines == incidentFile.lines
             v == viewer
  <2>1. SUFFICES ASSUME v # NoViewer, v.step = "last",
                        NEW i \in Incident!Recorded(v.expected)
        PROVE  \/ Incident!ShownOf(i) # {}
               \/ Incident!Of(lines, i) # Incident!Of(v.expected, i)
    BY DEF PagesComplete, Incident!PagesComplete
  <2>2. ShownOrMoved(v, lines, i) /\ v \in Viewers
    BY <1>1, <2>1, Zenon DEF IncidentInv, ViewerBound, NoneSkipped
  <2>3. lines \in Seq(Incident!Records)
    BY <1>1 DEF IncidentInv, StoreInv, Incident!TypeOK, Incident!Files
  <2>4. /\ DOMAIN lines = 1..Len(lines) /\ Len(v.expected) \in Nat
        /\ DOMAIN v.expected = 1..Len(v.expected) /\ DOMAIN v.shown = 1..Len(v.shown)
    BY <2>2, <2>3 DEF Viewers
  <2>5. ASSUME NEW n \in 1..Len(v.shown), v.shown[n].incident = i
        PROVE  n \in Incident!ShownOf(i)
    BY <2>4, <2>5 DEF Incident!ShownOf
  <2>6. ASSUME NEW n \in 1..Len(lines), n > Len(v.expected), lines[n].report.incident = i
        PROVE  n \in Incident!Of(lines, i) /\ n \notin Incident!Of(v.expected, i)
    BY <2>4, <2>6 DEF Incident!Of
  <2>. QED BY <2>2, <2>5, <2>6 DEF ShownOrMoved
<1>. QED BY IncidentInvariance, <1>1, PTL

\* What a viewer is shown of an incident is never behind what it was shown, or
\* what had been recorded when it began; what is shown as reverified is
\* continuous; and a page is refused for a write that was cut or is under way,
\* for a clock that was set back, or for a status that went back.
THEOREM NoPageGoesBack ==
  ASSUME Incident!ConstantsAssumption
  PROVE  Incident!Spec => []PagesOrderly
<1>1. ASSUME IncidentInv PROVE PagesOrderly
  <2> DEFINE lines == incidentFile.lines
             v == viewer
  <2>1. SUFFICES ASSUME v # NoViewer PROVE Incident!PagesOrderly
    BY DEF PagesOrderly, Incident!PagesOrderly
  <2>2. /\ ShownInOrder(v, lines) /\ v \in Viewers
        /\ v.step = "invalid" /\ ~v.during /\ mishaps = {} => WentBack(lines)
    BY <1>1, <2>1, Zenon DEF IncidentInv, ViewerBound
  <2>3. lines \in Seq(Incident!Records)
    BY <1>1 DEF IncidentInv, StoreInv, Incident!TypeOK, Incident!Files
  <2>4. /\ DOMAIN lines = 1..Len(lines) /\ DOMAIN v.expected = 1..Len(v.expected)
        /\ DOMAIN v.shown = 1..Len(v.shown)
    BY <2>2, <2>3 DEF Viewers
  <2>5. \A m, n \in DOMAIN v.shown :
          (m < n /\ v.shown[m].incident = v.shown[n].incident) =>
             Incident!Rank[v.shown[m].status] <= Incident!Rank[v.shown[n].status]
    BY <2>2, <2>4, Zenon DEF ShownInOrder
  <2>6. \A n \in DOMAIN v.shown :
          /\ \A k \in Incident!Of(v.expected, v.shown[n].incident) :
               Incident!Rank[v.expected[k].report.status] <= Incident!Rank[v.shown[n].status]
          /\ v.shown[n].status = "reverified" => Incident!Continuous(v.shown[n])
    BY <2>2, <2>4 DEF ShownInOrder, Incident!Of, ReverifiedContinuous
  <2>7. WentBack(lines) =>
          \E i \in Incident!Recorded(lines) : \E m, n \in Incident!Of(lines, i) :
            m < n /\ Incident!Rank[lines[m].report.status]
                       > Incident!Rank[lines[n].report.status]
    <3>1. SUFFICES ASSUME NEW m \in 1..Len(lines), NEW n \in 1..Len(lines),
                          lines[m].report.incident = lines[n].report.incident
          PROVE  \E i \in Incident!Recorded(lines) :
                   m \in Incident!Of(lines, i) /\ n \in Incident!Of(lines, i)
      BY Zenon DEF WentBack
    <3>. QED BY <2>4, <3>1 DEF Incident!Recorded, Incident!Of
  <2>. QED BY <2>2, <2>5, <2>6, <2>7, Zenon DEF Incident!PagesOrderly
<1>. QED BY IncidentInvariance, <1>1, PTL

-----------------------------------------------------------------------------
(* The attestation trust page.                                             *)

ProvedView == INSTANCE TrustedAttestations_proofs
  WITH Keys <- TrustKeys, history <- states, job <- signing, interruptions <- trustCuts,
       NoJob <- NoSigning, Configurations <- Shown, MaxInterruptions <- MaxTrustCuts

LEMMA SameView ==
  /\ Viewing!Init /\ Viewing!ViewInit <=> ProvedView!Init /\ ProvedView!ViewInit
  /\ [Viewing!ViewNext]_(Viewing!viewVars) <=> [ProvedView!ViewNext]_(ProvedView!viewVars)
<1>1. Viewing!Init /\ Viewing!ViewInit <=> ProvedView!Init /\ ProvedView!ViewInit
  BY Zenon DEF Viewing!Init, ProvedView!Init, Viewing!ViewInit, ProvedView!ViewInit,
     Viewing!TrustInit, ProvedView!TrustInit, Viewing!EmptyFile, ProvedView!EmptyFile
<1>2. [Viewing!ViewNext]_(Viewing!viewVars) <=> [ProvedView!ViewNext]_(ProvedView!viewVars)
  BY Zenon DEF
     Viewing!ViewNext, ProvedView!ViewNext, Viewing!viewVars, ProvedView!viewVars,
     Viewing!Meanwhile, ProvedView!Meanwhile, Viewing!Begin, ProvedView!Begin,
     Viewing!Skip, ProvedView!Skip, Viewing!ReadAttestations,
     ProvedView!ReadAttestations, Viewing!ReadState, ProvedView!ReadState,
     Viewing!ReadHistory, ProvedView!ReadHistory, Viewing!AttestationsChange,
     ProvedView!AttestationsChange, Viewing!Project, ProvedView!Project, Viewing!Leave,
     ProvedView!Leave, Viewing!vars, ProvedView!vars, Viewing!Next, ProvedView!Next,
     Viewing!trustVars, ProvedView!trustVars, Viewing!Unsettled, ProvedView!Unsettled,
     Viewing!Reading, ProvedView!Reading, Viewing!LedgerReads, ProvedView!LedgerReads,
     Viewing!Refuse, ProvedView!Refuse, Viewing!Readable, ProvedView!Readable,
     Viewing!Record, ProvedView!Record, Viewing!Order, ProvedView!Order,
     Viewing!Aligned, ProvedView!Aligned, Viewing!BindingsHold,
     ProvedView!BindingsHold, Viewing!StateShown, ProvedView!StateShown, Viewing!Row,
     ProvedView!Row, Viewing!ViewedOutcomes, ProvedView!ViewedOutcomes,
     Viewing!Answered, ProvedView!Answered, Viewing!Refused, ProvedView!Refused,
     Viewing!Publish, ProvedView!Publish, Viewing!ledgerVars, ProvedView!ledgerVars,
     Viewing!StartSigned, ProvedView!StartSigned, Viewing!StartUnsigned,
     ProvedView!StartUnsigned, Viewing!Build, ProvedView!Build,
     Viewing!RecordInterrupted, ProvedView!RecordInterrupted, Viewing!Abandon,
     ProvedView!Abandon, Viewing!ChainAccepted, ProvedView!ChainAccepted,
     Viewing!Linked, ProvedView!Linked, Viewing!KeysStayOut, ProvedView!KeysStayOut,
     Viewing!NewLines, ProvedView!NewLines, Viewing!Extended, ProvedView!Extended,
     Viewing!End, ProvedView!End, Viewing!HistoryTip, ProvedView!HistoryTip,
     Viewing!Authenticated, ProvedView!Authenticated, Viewing!ViewedBindings,
     ProvedView!ViewedBindings, Viewing!KnownStates, ProvedView!KnownStates,
     Viewing!Holds, ProvedView!Holds, Viewing!KeyStatus, ProvedView!KeyStatus,
     Viewing!BindingStatus, ProvedView!BindingStatus, Viewing!EverActive,
     ProvedView!EverActive, Viewing!IsBinding, ProvedView!IsBinding,
     Viewing!AppendState, ProvedView!AppendState, Viewing!ReplayState,
     ProvedView!ReplayState, Viewing!AppendInterrupted, ProvedView!AppendInterrupted,
     Viewing!ReplaceCurrent, ProvedView!ReplaceCurrent, Viewing!LeaveCurrent,
     ProvedView!LeaveCurrent, Viewing!KeyActive, ProvedView!KeyActive, Viewing!Tip,
     ProvedView!Tip, Viewing!Interrupted, ProvedView!Interrupted, Viewing!Admissible,
     ProvedView!Admissible, Viewing!Follows, ProvedView!Follows, Viewing!SameId,
     ProvedView!SameId, Viewing!OutcomeOf, ProvedView!OutcomeOf, Viewing!Appendable,
     ProvedView!Appendable, Viewing!Recorded, ProvedView!Recorded, Viewing!Ends,
     ProvedView!Ends, Viewing!Successor, ProvedView!Successor, Viewing!VersionTaken,
     ProvedView!VersionTaken, Viewing!Cardinality, ProvedView!Cardinality,
     Viewing!Lifecycle!Succeeds, ProvedView!Lifecycle!Succeeds,
     Viewing!Lifecycle!MayFollow, ProvedView!Lifecycle!MayFollow
<1>. QED BY <1>1, <1>2

LEMMA SameViewParameters ==
  ASSUME Viewing!AttestationsAssumption
  PROVE  ProvedView!AttestationsAssumption
  BY Zenon DEF Viewing!AttestationsAssumption, ProvedView!AttestationsAssumption,
     Viewing!ConstantsAssumption, ProvedView!ConstantsAssumption, Viewing!Jobs,
     ProvedView!Jobs, Viewing!WellFormedAnchors, ProvedView!WellFormedAnchors,
     Viewing!Statuses, ProvedView!Statuses

\* The page names what it read while publishers and signers moved the files
\* on; what it says of a signed outcome is so, a refusal has a reason, and a
\* decision that is shown replays from what it records.
THEOREM TrustPagesAnswerSoundly ==
  ASSUME Viewing!AttestationsAssumption, Deciding!ConstantsAssumption
  PROVE  Viewing!ViewSpec /\ Deciding!Spec => []TrustPagesSound
<1>1. ProvedView!ViewSpec => [](ProvedView!PagesSound /\ ProvedView!RefusalsExplained)
  BY SameViewParameters, ProvedView!TrustPageSound
<1>2. /\ Viewing!PagesSound <=> ProvedView!PagesSound
      /\ Viewing!RefusalsExplained <=> ProvedView!RefusalsExplained
  BY Zenon DEF Viewing!PagesSound, ProvedView!PagesSound, Viewing!RefusalsExplained,
     ProvedView!RefusalsExplained, Viewing!Answered, ProvedView!Answered,
     Viewing!BoundLines, ProvedView!BoundLines, Viewing!OutcomeOf,
     ProvedView!OutcomeOf, Viewing!Recorded, ProvedView!Recorded, Viewing!KeyActive,
     ProvedView!KeyActive, Viewing!Refused, ProvedView!Refused,
     Viewing!RemovedKeysStayOut, ProvedView!RemovedKeysStayOut, Viewing!IsBinding,
     ProvedView!IsBinding, Viewing!KeysStayOut, ProvedView!KeysStayOut
<1>3. Deciding!Spec => []Deciding!AssuranceSound
  BY AssuranceInvariance
<1>4. (ProvedView!PagesSound /\ ProvedView!RefusalsExplained) /\ Deciding!AssuranceSound
        => TrustPagesSound
  BY <1>2, Zenon DEF TrustPagesSound
<1>. QED
  BY <1>1, <1>3, <1>4, SameView, PTL DEF Viewing!ViewSpec, ProvedView!ViewSpec

-----------------------------------------------------------------------------
(* Requests that read the evidence workspace.                              *)

ProvedServing == INSTANCE EvidenceWorkspace_proofs
  WITH pc <- step, job <- calling, NoJob <- NoCall, Clients <- Ingesters,
       Reports <- ReportPayloads, Sources <- NamedSources

LEMMA SameServing ==
  /\ Serving!Init /\ Serving!ReaderInit <=> ProvedServing!Init /\ ProvedServing!ReaderInit
  /\ [Serving!ReadersNext]_(Serving!readingVars)
       <=> [ProvedServing!ReadersNext]_(ProvedServing!readingVars)
<1>1. Serving!Init /\ Serving!ReaderInit <=> ProvedServing!Init /\ ProvedServing!ReaderInit
  BY Zenon DEF
     Serving!Init, ProvedServing!Init, Serving!ReaderInit, ProvedServing!ReaderInit,
     Serving!ReceiptIds, ProvedServing!ReceiptIds, Serving!RunIds,
     ProvedServing!RunIds
<1>2. [Serving!ReadersNext]_(Serving!readingVars)
        <=> [ProvedServing!ReadersNext]_(ProvedServing!readingVars)
  BY Zenon DEF
     Serving!ReadersNext, ProvedServing!ReadersNext, Serving!readingVars,
     ProvedServing!readingVars, Serving!Meanwhile, ProvedServing!Meanwhile,
     Serving!BeginCatalog, ProvedServing!BeginCatalog, Serving!BeginQuery,
     ProvedServing!BeginQuery, Serving!BeginVerify, ProvedServing!BeginVerify,
     Serving!BeginSweep, ProvedServing!BeginSweep, Serving!ReceiptIds,
     ProvedServing!ReceiptIds, Serving!BeginTrace, ProvedServing!BeginTrace,
     Serving!ReadClaim, ProvedServing!ReadClaim, Serving!ReadSource,
     ProvedServing!ReadSource, Serving!Hydrate, ProvedServing!Hydrate,
     Serving!VerifyRecord, ProvedServing!VerifyRecord, Serving!ListReceipts,
     ProvedServing!ListReceipts, Serving!AdmitSource, ProvedServing!AdmitSource,
     Serving!SelectRetention, ProvedServing!SelectRetention, Serving!SelectDeletions,
     ProvedServing!SelectDeletions, Serving!Contexts, ProvedServing!Contexts,
     Serving!BeginGovernance, ProvedServing!BeginGovernance, Serving!ReadRecord,
     ProvedServing!ReadRecord, Serving!ReadRetention, ProvedServing!ReadRetention,
     Serving!ReadTombstone, ProvedServing!ReadTombstone, Serving!Artifacts,
     ProvedServing!Artifacts, Serving!FindPayload, ProvedServing!FindPayload,
     Serving!OpenPayload, ProvedServing!OpenPayload, Serving!Answer,
     ProvedServing!Answer, Serving!Leave, ProvedServing!Leave, Serving!vars,
     ProvedServing!vars, Serving!Next, ProvedServing!Next, Serving!IssuesAtOnce,
     ProvedServing!IssuesAtOnce, Serving!Begin, ProvedServing!Begin, Serving!Listed,
     ProvedServing!Listed, Serving!Indexed, ProvedServing!Indexed, Serving!IsReport,
     ProvedServing!IsReport, Serving!Stored, ProvedServing!Stored, Serving!Reading,
     ProvedServing!Reading, Serving!Done, ProvedServing!Done, Serving!Refuse,
     ProvedServing!Refuse, Serving!Go, ProvedServing!Go, Serving!Row,
     ProvedServing!Row, Serving!RecordIssues, ProvedServing!RecordIssues,
     Serving!Selected, ProvedServing!Selected, Serving!Retained,
     ProvedServing!Retained, Serving!Deleted, ProvedServing!Deleted, Serving!Dangling,
     ProvedServing!Dangling, Serving!Retentions, ProvedServing!Retentions,
     Serving!BeginIngest, ProvedServing!BeginIngest, Serving!BeginDirectIngest,
     ProvedServing!BeginDirectIngest, Serving!BeginDelete, ProvedServing!BeginDelete,
     Serving!Advance, ProvedServing!Advance, Serving!Crash, ProvedServing!Crash,
     Serving!ApplyRetention, ProvedServing!ApplyRetention, Serving!Recover,
     ProvedServing!Recover, Serving!Issue, ProvedServing!Issue, Serving!Start,
     ProvedServing!Start, Serving!files, ProvedServing!files, Serving!database,
     ProvedServing!database, Serving!accounts, ProvedServing!accounts,
     Serving!DeletionAllowed, ProvedServing!DeletionAllowed, Serving!FindArtifact,
     ProvedServing!FindArtifact, Serving!StageArtifact, ProvedServing!StageArtifact,
     Serving!LinkArtifact, ProvedServing!LinkArtifact, Serving!CheckArtifact,
     ProvedServing!CheckArtifact, Serving!FindReceipt, ProvedServing!FindReceipt,
     Serving!StageReceipt, ProvedServing!StageReceipt, Serving!LinkReceipt,
     ProvedServing!LinkReceipt, Serving!IndexRecord, ProvedServing!IndexRecord,
     Serving!IngestFails, ProvedServing!IngestFails, Serving!UnlinkArtifact,
     ProvedServing!UnlinkArtifact, Serving!RecordDeletion,
     ProvedServing!RecordDeletion, Serving!Finish, ProvedServing!Finish,
     Serving!Expired, ProvedServing!Expired, Serving!Goto, ProvedServing!Goto,
     Serving!ReceiptOf, ProvedServing!ReceiptOf, Serving!AfterReceipt,
     ProvedServing!AfterReceipt, Serving!RowAdmissible, ProvedServing!RowAdmissible,
     Serving!RunAdmissible, ProvedServing!RunAdmissible, Serving!RowOf,
     ProvedServing!RowOf, Serving!Release, ProvedServing!Release, Serving!Cardinality,
     ProvedServing!Cardinality
<1>. QED BY <1>1, <1>2

LEMMA SameServingParameters ==
  ASSUME Serving!ConstantsAssumption
  PROVE  ProvedServing!ConstantsAssumption
  BY Zenon DEF
     Serving!ConstantsAssumption, ProvedServing!ConstantsAssumption, Serving!Contents,
     ProvedServing!Contents, Serving!ReceiptOf, ProvedServing!ReceiptOf, Serving!Rows,
     ProvedServing!Rows, Serving!Sensitivities, ProvedServing!Sensitivities,
     Serving!Retentions, ProvedServing!Retentions, Serving!Producers,
     ProvedServing!Producers

\* The index is read table by table and the files after it, while evidence is
\* ingested and deleted: what a verification reports was so at an instant of
\* it, and what was so all along is reported.
THEOREM VerificationsReportWhatIs ==
  ASSUME Serving!ConstantsAssumption
  PROVE  Serving!ReadersSpec => []VerificationSound
<1>1. ProvedServing!ReadersSpec => []ProvedServing!VerificationSound
  BY SameServingParameters, ProvedServing!VerificationsHold
<1>2. VerificationSound <=> ProvedServing!VerificationSound
  BY Zenon DEF VerificationSound,
     Serving!VerificationSound, ProvedServing!VerificationSound, Serving!Answered,
     ProvedServing!Answered, Serving!IndexedSince, ProvedServing!IndexedSince,
     Serving!DeletedAgain, ProvedServing!DeletedAgain, Serving!Reading,
     ProvedServing!Reading, Serving!Indexed, ProvedServing!Indexed, Serving!ReceiptIds,
     ProvedServing!ReceiptIds, Serving!Dangling, ProvedServing!Dangling, Serving!Issue,
     ProvedServing!Issue
<1>. QED
  BY <1>1, <1>2, SameServing, PTL DEF Serving!ReadersSpec, ProvedServing!ReadersSpec

\* A catalog, a trace and a sweep fail only for payloads that were deleted, and
\* a query never; a trace shows every source that was there when it was asked
\* for, and no deletion is taken for one before its deadline.
THEOREM PagesFailForDeletions ==
  ASSUME Serving!ConstantsAssumption
  PROVE  Serving!ReadersSpec => []WorkspacePagesSound
<1>1. ProvedServing!ReadersSpec => []ProvedServing!WorkspacePagesSound
  BY SameServingParameters, ProvedServing!WorkspacePagesHold
<1>2. WorkspacePagesSound <=> ProvedServing!WorkspacePagesSound
  BY Zenon DEF WorkspacePagesSound,
     Serving!WorkspacePagesSound, ProvedServing!WorkspacePagesSound, Serving!Refused,
     ProvedServing!Refused, Serving!IsReport, ProvedServing!IsReport, Serving!Removed,
     ProvedServing!Removed, Serving!Answered, ProvedServing!Answered, Serving!Reading,
     ProvedServing!Reading, Serving!Indexed, ProvedServing!Indexed, Serving!Deleted,
     ProvedServing!Deleted, Serving!ReceiptIds, ProvedServing!ReceiptIds
<1>. QED
  BY <1>1, <1>2, SameServing, PTL DEF Serving!ReadersSpec, ProvedServing!ReadersSpec

-----------------------------------------------------------------------------
(* Portable proofs.  The sender reads the directory at several instants.   *)
(* Its invariant keeps what each of these readings has shown of chain and  *)
(* attestation, which stay as they were read once, and no more of the      *)
(* directory than that there was one of which it was so.                   *)

\* NoRef is none of the references.
NoRefIsNone ==
  \A identity, digest : [identity |-> identity, digest |-> digest] # NoRef

ComparisonPlaced(ref) ==
  /\ ref.identity[1] = "comparison"
  /\ ref.digest # NoFile
  /\ \A input \in Proving!InputsOf(ref.digest) : input.source \in Proving!Sources

\* What a chain holds by the way it is built.
ChainOk(chain) ==
  /\ "refs" \in DOMAIN chain
  /\ DOMAIN chain.refs = Proving!Names
  /\ \A n \in Proving!Mandatory : Proving!Has(chain, n)
  /\ Proving!Placed(chain.refs["graph"].digest)
  /\ Proving!Has(chain, "comparison") => ComparisonPlaced(chain.refs["comparison"])
  /\ Proving!Has(chain, "basis") => chain.refs["basis"].identity[1] = "basis"

DraftOk(made) ==
  /\ \E plan \in ProofPlans : made.given = plan.given
  /\ made.refs["evidence"] # NoRef
  /\ "comparison" \in made.given => ComparisonPlaced(made.refs["comparison"])
  /\ "basis" \in made.given => made.refs["basis"].identity[1] = "basis"

\* The history is numbered.
Numbered(lines) ==
  /\ \E S : lines \in Seq(S)
  /\ \A i \in 1..Len(lines) : lines[i].number = i

\* There was a directory of which the outcome, or the lineage, was verified, or
\* that the sources were gathered from.
OutcomeSeen(attestation, chain, lines) ==
  \E files : Proving!OutcomeVerifies(attestation, chain, lines, files)

LineageSeen(chain, closure) ==
  \E files : Proving!LineageHolds(chain, files) /\ closure = Proving!Closure(chain, files)

GatheredFrom(chain, from, files) ==
  LET references == Proving!Referenced(chain, files) IN
  /\ \A r \in references : files[r.source] = r.digest
  /\ Proving!Cardinality(Proving!Keys(references)) = Proving!Cardinality(references)
  /\ from = {[key |-> r.key, source |-> r.source, content |-> files[r.source]] :
              r \in references}

SourcesSeen(chain, from) == \E files : GatheredFrom(chain, from, files)

ContextOk(context, attestation) ==
  context # NoRef => context.attestation = attestation

ArchiveOk(archive) ==
  /\ \E attestation, chain :
       archive.descriptor = [attestation |-> attestation, chain |-> chain]
  /\ ChainOk(archive.descriptor.chain)
  /\ Numbered(archive.lines)
  /\ OutcomeSeen(archive.descriptor.attestation, archive.descriptor.chain, archive.lines)
  /\ LineageSeen(archive.descriptor.chain, archive.closure)
  /\ SourcesSeen(archive.descriptor.chain, archive.sources)
  /\ ContextOk(archive.context, archive.descriptor.attestation)
  /\ archive.extent \in PackageExtents

\* What the sender holds at each step.
SenderOk ==
  /\ sender.pc \in {"resting", "loaded", "verified", "traced", "gathered", "writing"}
  /\ sender.pc \in {"loaded", "verified"} =>
       sender = [pc |-> sender.pc, attestation |-> sender.attestation, chain |-> sender.chain]
  /\ sender.pc \in {"loaded", "verified", "traced", "gathered"} => ChainOk(sender.chain)
  /\ sender.pc \in {"verified", "traced"} =>
       OutcomeSeen(sender.attestation, sender.chain, transitions)
  /\ sender.pc \in {"traced", "gathered"} =>
       /\ LineageSeen(sender.chain, sender.closure)
       /\ ContextOk(sender.context, sender.attestation)
  /\ sender.pc = "gathered" =>
       /\ Numbered(sender.lines)
       /\ OutcomeSeen(sender.attestation, sender.chain, sender.lines)
       /\ SourcesSeen(sender.chain, sender.sources)
  /\ sender.pc = "writing" => ArchiveOk(sender.archive)

ProofsInv ==
  /\ Proving!Written(root)
  /\ draft # NoFile => DraftOk(draft)
  /\ chainFile # NoFile => ChainOk(chainFile)
  /\ Numbered(transitions)
  /\ SenderOk
  /\ Proving!Complete(bundle) => ArchiveOk(bundle)

\* A reference of the chain, as the list of references has it.
RefItem(chain, n) ==
  [key |-> <<n, NoRef>>, identity |-> chain.refs[n].identity,
   digest |-> chain.refs[n].digest, source |-> n]

LEMMA RefItems ==
  ASSUME NEW chain, NEW names, NEW n \in names, Proving!Has(chain, n)
  PROVE  RefItem(chain, n) \in Proving!ReferencesOf(chain, names)
BY DEF Proving!ReferencesOf, RefItem

\* The inputs that are compared depend on the directory only by its comparison.
LEMMA SameInputs ==
  ASSUME NEW chain, NEW files, NEW others,
         Proving!Has(chain, "comparison") => files["comparison"] = others["comparison"]
  PROVE  /\ Proving!ComparedInputs(chain, files) = Proving!ComparedInputs(chain, others)
         /\ Proving!Referenced(chain, files) = Proving!Referenced(chain, others)
         /\ Proving!Material(chain, files) = Proving!Material(chain, others)
<1>1. Proving!ComparedInputs(chain, files) = Proving!ComparedInputs(chain, others)
  <2>1. CASE Proving!Has(chain, "comparison")
    <3>1. files["comparison"] = others["comparison"]
      BY <2>1
    <3>. QED BY <3>1, Zenon DEF Proving!ComparedInputs
  <2>2. CASE ~Proving!Has(chain, "comparison")
    BY <2>2, Zenon DEF Proving!ComparedInputs
  <2>. QED BY <2>1, <2>2
<1>. QED BY <1>1, Zenon DEF Proving!Referenced, Proving!Material

LEMMA ReferencesIn ==
  ASSUME NEW chain, ChainOk(chain), NEW files,
         Proving!Has(chain, "comparison") =>
           files["comparison"] = chain.refs["comparison"].digest,
         NEW r \in Proving!Referenced(chain, files)
  PROVE  r.source \in Proving!Sources
<1>1. CASE r \in Proving!ReferencesOf(chain, Proving!Names)
  BY <1>1 DEF Proving!ReferencesOf, Proving!Sources
<1>2. CASE r \in Proving!ComparedInputs(chain, files)
  <2>1. Proving!Has(chain, "comparison")
    BY <1>2 DEF Proving!ComparedInputs
  <2>2. PICK i \in Proving!InputsOf(files["comparison"]) : r.source = i.source
    BY <1>2, <2>1 DEF Proving!ComparedInputs
  <2>. QED BY <2>1, <2>2 DEF ChainOk, ComparisonPlaced
<1>. QED BY <1>1, <1>2 DEF Proving!Referenced

\* What the receiver unpacks holds every reference as it was gathered.
LEMMA UnpackedHolds ==
  ASSUME NEW archive, NEW chain, ChainOk(chain), NEW files,
         GatheredFrom(chain, archive.sources, files)
  PROVE  /\ \A r \in Proving!Referenced(chain, files) :
              Proving!Unpacked(archive)[r.source] = r.digest
         /\ \A n \in Proving!Names :
              Proving!Has(chain, n) =>
                Proving!Unpacked(archive)[n] = chain.refs[n].digest
         /\ Proving!Referenced(chain, Proving!Unpacked(archive)) =
              Proving!Referenced(chain, files)
         /\ Proving!Material(chain, Proving!Unpacked(archive)) =
              Proving!Material(chain, files)
         /\ Proving!Keys(archive.sources) = Proving!Keys(Proving!Referenced(chain, files))
<1> DEFINE references == Proving!Referenced(chain, files)
           unpacked == Proving!Unpacked(archive)
<1>1. /\ \A r \in references : files[r.source] = r.digest
      /\ archive.sources = {[key |-> r.key, source |-> r.source,
                             content |-> files[r.source]] : r \in references}
  BY DEF GatheredFrom
<1>2. \A n \in Proving!Names : Proving!Has(chain, n) => RefItem(chain, n) \in references
  BY RefItems DEF Proving!Referenced
<1>3. "comparison" \in Proving!Names
  BY DEF Proving!Names
<1>4. Proving!Has(chain, "comparison") => files["comparison"] = chain.refs["comparison"].digest
  BY <1>1, <1>2, <1>3 DEF RefItem
<1>5. \A r \in references : r.source \in Proving!Sources
  BY <1>4, ReferencesIn
<1>. HIDE DEF references
<1>6. \A s \in archive.sources : s.content = files[s.source]
  BY <1>1
<1>7. ASSUME NEW r \in references
      PROVE  unpacked[r.source] = r.digest
  <2>1. \E s \in archive.sources : s.source = r.source
    <3> DEFINE kept == [key |-> r.key, source |-> r.source, content |-> files[r.source]]
    <3>1. kept \in archive.sources /\ kept.source = r.source
      BY <1>1
    <3>. QED BY <3>1
  <2> DEFINE s == CHOOSE s \in archive.sources : s.source = r.source
  <2>2. s \in archive.sources /\ s.source = r.source
    BY <2>1
  <2>3. unpacked[r.source] = s.content
    BY <1>5, <2>1 DEF Proving!Unpacked
  <2>. HIDE DEF s
  <2>4. s.content = r.digest
    BY <1>1, <1>6, <2>2
  <2>. QED BY <2>3, <2>4
<1>8. \A n \in Proving!Names : Proving!Has(chain, n) => unpacked[n] = chain.refs[n].digest
  BY <1>2, <1>7 DEF RefItem
<1>9. Proving!Has(chain, "comparison") => unpacked["comparison"] = files["comparison"]
  BY <1>3, <1>4, <1>8
<1>10. Proving!Keys(archive.sources) = Proving!Keys(references)
  <2> DEFINE kept(r) == [key |-> r.key, source |-> r.source, content |-> files[r.source]]
  <2>1. archive.sources = {kept(r) : r \in references}
    BY <1>1
  <2>2. \A r : kept(r).key = r.key
    OBVIOUS
  <2>. HIDE DEF kept
  <2>. QED BY <2>1, <2>2 DEF Proving!Keys
<1>. HIDE DEF unpacked
<1>11. /\ Proving!Referenced(chain, unpacked) = Proving!Referenced(chain, files)
       /\ Proving!Material(chain, unpacked) = Proving!Material(chain, files)
  BY <1>9, SameInputs
<1>. QED BY <1>7, <1>8, <1>10, <1>11 DEF references, unpacked

\* What a chain verifies against one directory it verifies against another that
\* holds all its references.
LEMMA ChainVerifiesThere ==
  ASSUME NEW chain, ChainOk(chain), NEW seen, Proving!ChainVerifies(chain, seen),
         NEW files,
         \A n \in Proving!Names : Proving!Has(chain, n) => files[n] = chain.refs[n].digest,
         \A r \in Proving!Referenced(chain, files) : files[r.source] = r.digest
  PROVE  Proving!ChainVerifies(chain, files)
<1>1. Proving!SourcesMatch(chain, files)
  BY DEF Proving!SourcesMatch, Proving!Direct
<1>2. Proving!Has(chain, "evidence") /\ "evidence" \in Proving!Direct
  BY DEF ChainOk, Proving!Mandatory, Proving!Direct, Proving!Names
<1>3. ASSUME Proving!Has(chain, "receipt")
      PROVE  Proving!ReceiptVerifies(chain, files)
  <2>1. Proving!ReceiptVerifies(chain, seen)
    BY <1>3 DEF Proving!ChainVerifies
  <2>2. files["receipt"] = seen["receipt"]
    BY <1>3, <2>1 DEF Proving!ReceiptVerifies, Proving!Names
  <2>3. files["evidence"] = seen["receipt"].artifact
    BY <1>2, <2>1 DEF Proving!ReceiptVerifies, Proving!Direct
  <2>. QED BY <2>1, <2>2, <2>3, Zenon DEF Proving!ReceiptVerifies
<1>4. ASSUME Proving!Has(chain, "comparison")
      PROVE  Proving!ComparisonVerifies(chain, files)
  <2>1. Proving!ComparisonVerifies(chain, seen)
    BY <1>4 DEF Proving!ChainVerifies
  <2>2. "comparison" \in Proving!Direct
    BY DEF Proving!Direct, Proving!Names
  <2>3. /\ files["comparison"] = chain.refs["comparison"].digest
        /\ seen["comparison"] = chain.refs["comparison"].digest
    BY <1>4, <2>2 DEF Proving!ChainVerifies, Proving!SourcesMatch, Proving!Direct
  <2>4. files["comparison"] # NoFile
    BY <1>4, <2>3 DEF ChainOk, ComparisonPlaced
  <2>5. ASSUME NEW i \in Proving!InputsOf(files["comparison"])
        PROVE  files[i.source] = i.digest
    <3> DEFINE item == [key |-> <<"input", i.digest>>,
                        identity |-> Proving!Identity("state", i.digest),
                        digest |-> i.digest, source |-> i.source]
    <3>1. item \in Proving!ComparedInputs(chain, files)
      BY <1>4, <2>4 DEF Proving!ComparedInputs
    <3>. QED BY <3>1 DEF Proving!Referenced
  <2>. QED BY <2>1, <2>3, <2>5 DEF Proving!ComparisonVerifies
<1>5. ASSUME Proving!Has(chain, "binding")
      PROVE  Proving!BindingVerifies(chain, files)
  <2>1. Proving!BindingVerifies(chain, seen)
    BY <1>5 DEF Proving!ChainVerifies
  <2>2. /\ Proving!Has(chain, "comparison") /\ Proving!Has(chain, "reconciliation")
        /\ {"comparison", "reconciliation"} \subseteq Proving!Direct
        /\ {"comparison", "reconciliation", "binding"} \subseteq Proving!Names
    BY <2>1 DEF Proving!BindingVerifies, Proving!Direct, Proving!Names
  <2>3. /\ files["comparison"] = seen["comparison"]
        /\ files["reconciliation"] = seen["reconciliation"]
        /\ files["binding"] = seen["binding"]
    BY <1>5, <2>1, <2>2 DEF Proving!ChainVerifies, Proving!SourcesMatch,
       Proving!BindingVerifies
  <2>. QED BY <2>1, <2>3, Zenon DEF Proving!BindingVerifies
<1>6. ASSUME Proving!Has(chain, "basis")
      PROVE  Proving!BasisVerifies(chain, files)
  <2>1. Proving!BasisVerifies(chain, seen)
    BY <1>6 DEF Proving!ChainVerifies
  <2>2. files["basis"] = seen["basis"]
    BY <1>6, <2>1 DEF Proving!BasisVerifies, Proving!Names
  <2>. QED BY <2>1, <2>2, Zenon DEF Proving!BasisVerifies
<1>. QED BY <1>1, <1>3, <1>4, <1>5, <1>6 DEF Proving!ChainVerifies

LEMMA OutcomeVerifiesThere ==
  ASSUME NEW attestation, NEW chain, ChainOk(chain), NEW lines,
         OutcomeSeen(attestation, chain, lines), NEW files,
         \A n \in Proving!Names : Proving!Has(chain, n) => files[n] = chain.refs[n].digest,
         \A r \in Proving!Referenced(chain, files) : files[r.source] = r.digest
  PROVE  Proving!OutcomeVerifies(attestation, chain, lines, files)
<1> PICK seen : Proving!OutcomeVerifies(attestation, chain, lines, seen)
  BY DEF OutcomeSeen
<1>1. Proving!ChainVerifies(chain, files)
  BY ChainVerifiesThere DEF Proving!OutcomeVerifies
<1>2. ASSUME chain.outcome.state = "recovered"
      PROVE  Proving!RecoveryVerifies(chain, files)
  <2>1. Proving!RecoveryVerifies(chain, seen)
    BY <1>2 DEF Proving!OutcomeVerifies
  <2>2. /\ files["recovery"] = seen["recovery"]
        /\ files["reconciliation"] = seen["reconciliation"]
    BY <2>1 DEF Proving!RecoveryVerifies, Proving!Names
  <2>. QED BY <2>1, <2>2, Zenon DEF Proving!RecoveryVerifies
<1>. QED BY <1>1, <1>2 DEF Proving!OutcomeVerifies

\* Where lineage was verified, comparison and basis were those of the chain: its
\* graph has a node for each of them, at its path and with its digest.
LEMMA LineagePins ==
  ASSUME Proving!ConstantsAssumption, NEW chain, ChainOk(chain), NEW seen,
         Proving!LineageHolds(chain, seen), NEW n \in {"comparison", "basis"},
         Proving!Has(chain, n)
  PROVE  seen[n] = chain.refs[n].digest
<1> DEFINE graph == seen["graph"]
           item == RefItem(chain, n)
<1>1. item \in Proving!Material(chain, seen)
  BY RefItems DEF Proving!Material
<1>2. Proving!Cardinality(Proving!NodesFor(graph, item)) = 1
  BY <1>1 DEF Proving!LineageHolds
<1>3. Proving!NodesFor(graph, item) # {}
  <2>1. Cardinality(Proving!NodesFor(graph, item)) = 1
    BY <1>2 DEF Proving!Cardinality, Cardinality
  <2>. QED BY <2>1, FS_EmptySet
<1>4. PICK node \in graph.nodes : node.identity = item.identity /\ node.digest = item.digest
  BY <1>3 DEF Proving!NodesFor
<1>5. item.identity[1] = n /\ item.digest = chain.refs[n].digest
  BY DEF RefItem, ChainOk, ComparisonPlaced
<1>6. graph = chain.refs["graph"].digest
  BY DEF Proving!LineageHolds
<1>7. node.path = n
  BY <1>4, <1>5, <1>6 DEF ChainOk, Proving!Placed
<1>8. n # NoRef
  BY DEF Proving!ConstantsAssumption, Proving!Sources, Proving!Names
<1>9. seen[node.path] = node.digest
  BY <1>7, <1>8 DEF Proving!LineageHolds, Proving!GraphVerifies
<1>. QED BY <1>4, <1>5, <1>7, <1>9

LEMMA LineageHoldsThere ==
  ASSUME Proving!ConstantsAssumption, NEW chain, ChainOk(chain), NEW closure,
         LineageSeen(chain, closure), NEW files,
         \A n \in Proving!Names : Proving!Has(chain, n) => files[n] = chain.refs[n].digest,
         \A node \in closure.graph.nodes : node.path # NoRef => files[node.path] = node.digest
  PROVE  Proving!LineageHolds(chain, files) /\ closure = Proving!Closure(chain, files)
<1> PICK seen : /\ Proving!LineageHolds(chain, seen)
                /\ closure = Proving!Closure(chain, seen)
  BY DEF LineageSeen
<1>1. {"comparison", "basis", "graph"} \subseteq Proving!Names
  BY DEF Proving!Names
<1>2. /\ seen["graph"] = chain.refs["graph"].digest
      /\ files["graph"] = chain.refs["graph"].digest
  BY <1>1 DEF Proving!LineageHolds, ChainOk, Proving!Mandatory
<1>3. Proving!Has(chain, "comparison") => seen["comparison"] = files["comparison"]
  BY <1>1, LineagePins
<1>4. Proving!Has(chain, "basis") => seen["basis"] = files["basis"]
  BY <1>1, LineagePins
<1>5. Proving!Material(chain, seen) = Proving!Material(chain, files)
  BY <1>3, SameInputs
<1>6. closure = Proving!Closure(chain, files)
  <2> DEFINE witness(graph, material) ==
               [graph |-> graph,
                nodes |-> {<<item.key, Proving!NodeOf(graph, item).id>> : item \in material}]
  <2>1. /\ closure = witness(seen["graph"], Proving!Material(chain, seen))
        /\ Proving!Closure(chain, files) =
             witness(files["graph"], Proving!Material(chain, files))
    BY DEF Proving!Closure
  <2>. HIDE DEF witness
  <2>. QED BY <1>2, <1>5, <2>1
<1>7. closure.graph = seen["graph"]
  BY DEF Proving!Closure
<1>8. Proving!GraphVerifies(files["graph"], files)
  <2>1. Proving!GraphVerifies(seen["graph"], seen)
    BY DEF Proving!LineageHolds
  <2>2. \A node \in seen["graph"].nodes :
          node.path # NoRef => files[node.path] = node.digest
    BY <1>7
  <2>3. files["graph"] = seen["graph"]
    BY <1>2
  <2>. QED BY <2>1, <2>2, <2>3, Zenon DEF Proving!GraphVerifies
<1>9. Proving!Has(chain, "basis") => Proving!BasisDerives(chain, files)
  <2>1. Proving!Has(chain, "basis") => Proving!BasisDerives(chain, seen)
    BY Zenon DEF Proving!LineageHolds
  <2>2. ASSUME Proving!Has(chain, "basis"), Proving!BasisDerives(chain, seen)
        PROVE  Proving!BasisDerives(chain, files)
    <3>1. seen["basis"] = files["basis"] /\ seen["graph"] = files["graph"]
      BY <1>2, <1>4, <2>2
    <3>. QED BY <1>5, <2>2, <3>1, Zenon DEF Proving!BasisDerives
  <2>. QED BY <2>1, <2>2
<1>10. Proving!LineageHolds(chain, files)
  <2>1. seen["graph"] = files["graph"]
    BY <1>2
  <2>. QED BY <1>5, <1>8, <1>9, <2>1, Zenon DEF Proving!LineageHolds
<1>. QED BY <1>6, <1>10

\* The receiver accepts an archive that describes what is in it.
LEMMA ReceiverAccepts ==
  ASSUME Proving!ConstantsAssumption, NEW archive, ArchiveOk(archive),
         Proving!Described(archive), Proving!SelfContained(archive),
         Proving!Within(archive, LibraryLimits)
  PROVE  Proving!LibraryAccepts(archive)
<1> DEFINE chain == archive.chain
           files == Proving!Unpacked(archive)
<1>1. archive.descriptor.attestation = archive.attestation
      /\ archive.descriptor.chain = chain
  BY DEF Proving!Described
<1>2. ChainOk(chain)
  BY <1>1 DEF ArchiveOk
<1>3. PICK there : GatheredFrom(chain, archive.sources, there)
  BY <1>1 DEF ArchiveOk, SourcesSeen
<1>. HIDE DEF chain
<1>4. /\ \A r \in Proving!Referenced(chain, there) : files[r.source] = r.digest
      /\ \A n \in Proving!Names : Proving!Has(chain, n) => files[n] = chain.refs[n].digest
      /\ Proving!Referenced(chain, files) = Proving!Referenced(chain, there)
      /\ Proving!Keys(archive.sources) = Proving!Keys(Proving!Referenced(chain, there))
  BY <1>2, <1>3, UnpackedHolds
<1>. HIDE DEF files
<1>5. Proving!OutcomeVerifies(archive.attestation, chain, archive.lines, files)
  <2>1. OutcomeSeen(archive.attestation, chain, archive.lines)
    BY <1>1 DEF ArchiveOk
  <2>2. \A r \in Proving!Referenced(chain, files) : files[r.source] = r.digest
    BY <1>4
  <2>. QED BY <1>2, <1>4, <2>1, <2>2, OutcomeVerifiesThere
<1>6. /\ Proving!LineageHolds(chain, files)
      /\ archive.closure = Proving!Closure(chain, files)
  <2>1. LineageSeen(chain, archive.closure)
    BY <1>1 DEF ArchiveOk
  <2>2. \A node \in archive.closure.graph.nodes :
          node.path # NoRef => files[node.path] = node.digest
    BY <1>4 DEF Proving!SelfContained, chain, files
  <2>. QED BY <1>2, <1>4, <2>1, <2>2, LineageHoldsThere
<1>7. Proving!SourcesComplete(archive, files)
  BY <1>4 DEF Proving!SourcesComplete, chain
<1>. QED BY <1>5, <1>6, <1>7, Zenon DEF Proving!LibraryAccepts, chain, files

\* What is within the script's limits is within those of the library.
LEMMA ScriptIsStricter ==
  ASSUME Proving!ConstantsAssumption, NEW archive, archive.extent \in PackageExtents,
         Proving!Within(archive, ScriptLimits)
  PROVE  Proving!Within(archive, LibraryLimits)
<1> SUFFICES ASSUME NEW m \in DOMAIN LibraryLimits
             PROVE  archive.extent[m] <= LibraryLimits[m]
  BY DEF Proving!Within
<1>1. /\ m \in DOMAIN ScriptLimits
      /\ ScriptLimits[m] <= LibraryLimits[m]
      /\ archive.extent[m] \in Nat /\ ScriptLimits[m] \in Nat /\ LibraryLimits[m] \in Nat
  BY DEF Proving!ConstantsAssumption
<1>2. archive.extent[m] <= ScriptLimits[m]
  BY <1>1 DEF Proving!Within
<1>. QED BY <1>1, <1>2

-----------------------------------------------------------------------------
(* What the two verifiers see alike.                                       *)

LEMMA PairFinite ==
  ASSUME NEW a, NEW b
  PROVE  IsFiniteSet({a, b})
<1>1. IsFiniteSet({a}) /\ {a, b} = {a} \union {b}
  BY FS_Singleton
<1>. QED BY <1>1, FS_AddElement

LEMMA NamesFinite == IsFiniteSet(Proving!Names)
<1> DEFINE first == {"run", "state"} \union {"evidence", "receipt"}
           second == {"graph", "integrity"} \union {"attestation", "comparison"}
           third == {"reconciliation", "binding"} \union {"recovery", "basis"}
<1>1. IsFiniteSet(first) /\ IsFiniteSet(second) /\ IsFiniteSet(third)
  BY PairFinite, FS_Union
<1>2. IsFiniteSet((first \union second) \union third)
  <2>. HIDE DEF first, second, third
  <2>. QED BY <1>1, FS_Union
<1>3. Proving!Names = (first \union second) \union third
  BY DEF Proving!Names
<1>. QED BY <1>2, <1>3

\* A chain has finitely many references.
LEMMA ReferencesFinite ==
  ASSUME NEW chain, NEW files
  PROVE  IsFiniteSet(Proving!Referenced(chain, files))
<1>1. IsFiniteSet(Proving!ReferencesOf(chain, Proving!Names))
  <2> DEFINE present == {n \in Proving!Names : Proving!Has(chain, n)}
             item(n) == [key |-> <<n, NoRef>>, identity |-> chain.refs[n].identity,
                         digest |-> chain.refs[n].digest, source |-> n]
  <2>1. IsFiniteSet(present)
    BY NamesFinite, FS_Subset
  <2>2. Proving!ReferencesOf(chain, Proving!Names) = {item(n) : n \in present}
    BY DEF Proving!ReferencesOf
  <2>. HIDE DEF item, present
  <2> DEFINE f == [n \in present |-> item(n)]
             S == {item(n) : n \in present}
  <2>3. f \in Surjection(present, S)
    BY DEF Surjection
  <2>4. IsFiniteSet(S)
    BY <2>1, <2>3, FS_Surjection
  <2>. QED BY <2>2, <2>4
<1>2. IsFiniteSet(Proving!ComparedInputs(chain, files))
  <2>1. CASE ~(Proving!Has(chain, "comparison") /\ files["comparison"] # NoFile)
    <3>1. Proving!ComparedInputs(chain, files) = {}
      BY <2>1 DEF Proving!ComparedInputs
    <3>. QED BY <3>1, FS_EmptySet
  <2>2. CASE Proving!Has(chain, "comparison") /\ files["comparison"] # NoFile
    <3> DEFINE item(i) == [key |-> <<"input", i.digest>>,
                           identity |-> Proving!Identity("state", i.digest),
                           digest |-> i.digest, source |-> i.source]
               before == files["comparison"].before
               after == files["comparison"].after
    <3>1. Proving!ComparedInputs(chain, files) = {item(before), item(after)}
      BY <2>2 DEF Proving!ComparedInputs, Proving!InputsOf
    <3>. HIDE DEF item, before, after
    <3>. QED BY <3>1, PairFinite
  <2>. QED BY <2>1, <2>2
<1>. QED BY <1>1, <1>2, FS_Union DEF Proving!Referenced

\* Under one key one source is packaged.
LEMMA SourcesKeyed ==
  ASSUME NEW chain, NEW files, NEW sources, GatheredFrom(chain, sources, files)
  PROVE  Proving!Cardinality(Proving!Keys(sources)) = Proving!Cardinality(sources)
<1> DEFINE references == Proving!Referenced(chain, files)
           keys == Proving!Keys(references)
           kept(r) == [key |-> r.key, source |-> r.source, content |-> files[r.source]]
           f == [r \in references |-> r.key]
           g == [r \in references |-> kept(r)]
<1>1. IsFiniteSet(references)
  BY ReferencesFinite
<1>2. /\ Cardinality(keys) = Cardinality(references)
      /\ sources = {kept(r) : r \in references}
  BY DEF GatheredFrom, Proving!Cardinality, Cardinality
<1>3. \A r : kept(r).key = r.key
  OBVIOUS
<1>. HIDE DEF references, kept
<1>4. f \in Surjection(references, keys)
  BY DEF Surjection, Proving!Keys
<1>5. f \in Injection(references, keys)
  <2>1. IsFiniteSet(keys)
    BY <1>1, <1>4, FS_Surjection
  <2>. QED BY <1>1, <1>2, <1>4, <2>1, FS_SurjSameCardinalityImpliesInj
<1>6. g \in Bijection(references, sources)
  <2>1. g \in Surjection(references, sources)
    BY <1>2 DEF Surjection
  <2>2. ASSUME NEW q \in references, NEW r \in references, g[q] = g[r]
        PROVE  q = r
    <3>1. f[q] = f[r]
      BY <1>3, <2>2
    <3>. QED BY <1>5, <3>1 DEF Injection, IsInjective
  <2>. QED BY <2>1, <2>2 DEF Bijection, Injection, Surjection, IsInjective
<1>7. Cardinality(sources) = Cardinality(references)
  BY <1>1, <1>6, FS_Bijection DEF ExistsBijection
<1>8. Proving!Keys(sources) = keys
  BY <1>2, <1>3 DEF Proving!Keys
<1>9. Cardinality(Proving!Keys(sources)) = Cardinality(sources)
  BY <1>2, <1>7, <1>8
<1>. QED BY <1>9 DEF Proving!Cardinality, Cardinality

\* In a numbered history a transition is found by its number.
LEMMA FoundByNumber ==
  ASSUME NEW lines, Numbered(lines), NEW transition \in Proving!Range(lines)
  PROVE  Proving!Cardinality({i \in 1..Len(lines) :
                                lines[i].number = transition.number}) = 1
<1>1. PICK i \in 1..Len(lines) : transition = lines[i]
  BY DEF Numbered, Proving!Range
<1>2. {j \in 1..Len(lines) : lines[j].number = transition.number} = {i}
  BY <1>1 DEF Numbered
<1>3. Cardinality({i}) = 1
  BY FS_Singleton
<1>. QED BY <1>2, <1>3 DEF Proving!Cardinality, Cardinality

\* The script accepts what the library accepts, unless the history is torn.
LEMMA ScriptFollows ==
  ASSUME NEW archive, ArchiveOk(archive), ~archive.cut, Proving!Described(archive),
         Proving!Within(archive, ScriptLimits)
  PROVE  Proving!ScriptAccepts(archive)
<1> DEFINE attestation == archive.attestation
           chain == archive.chain
<1>1. archive.descriptor.attestation = attestation /\ archive.descriptor.chain = chain
  BY DEF Proving!Described
<1>2. PICK there : GatheredFrom(chain, archive.sources, there)
  BY <1>1 DEF ArchiveOk, SourcesSeen
<1>3. PICK seen : Proving!OutcomeVerifies(attestation, chain, archive.lines, seen)
  BY <1>1 DEF ArchiveOk, OutcomeSeen
<1>4. Proving!DescriptorHolds(archive)
  BY <1>1, <1>2, SourcesKeyed DEF Proving!DescriptorHolds
<1>5. Proving!TransitionFound(archive)
  <2>1. Numbered(archive.lines) /\ attestation.transition \in Proving!Range(archive.lines)
    BY <1>3 DEF ArchiveOk, Proving!OutcomeVerifies
  <2>2. Proving!Cardinality({i \in 1..Len(archive.lines) :
            archive.lines[i].number = attestation.transition.number}) = 1
    BY <2>1, FoundByNumber
  <2>. QED BY <1>1, <1>3, <2>1, <2>2 DEF Proving!TransitionFound, Proving!OutcomeVerifies
<1>6. Proving!AttestationHolds(archive)
  BY <1>1 DEF ArchiveOk, ContextOk, Proving!AttestationHolds
<1>. QED BY <1>1, <1>3, <1>4, <1>5, <1>6 DEF Proving!ScriptAccepts, Proving!OutcomeVerifies

LEMMA ArchiveAccepted ==
  ASSUME Proving!ConstantsAssumption, NEW archive, ArchiveOk(archive)
  PROVE  /\ \/ Proving!LibraryAccepts(archive)
            \/ archive.descriptor #
                 [attestation |-> archive.attestation, chain |-> archive.chain]
            \/ ~Proving!SelfContained(archive)
            \/ ~Proving!Within(archive, LibraryLimits)
         /\ ~archive.cut /\ Proving!SelfContained(archive) =>
              /\ Proving!ScriptAccepts(archive) => Proving!LibraryAccepts(archive)
              /\ Proving!LibraryAccepts(archive) =>
                   Proving!ScriptAccepts(archive) \/ ~Proving!Within(archive, ScriptLimits)
<1>1. /\ Proving!Described(archive) /\ Proving!SelfContained(archive)
      /\ Proving!Within(archive, LibraryLimits)
      => Proving!LibraryAccepts(archive)
  BY ReceiverAccepts
<1>2. Proving!LibraryAccepts(archive) => Proving!Described(archive)
  BY DEF Proving!LibraryAccepts
<1>3. Proving!ScriptAccepts(archive) =>
        Proving!Described(archive) /\ Proving!Within(archive, ScriptLimits)
  <2>1. PICK attestation, chain :
          archive.descriptor = [attestation |-> attestation, chain |-> chain]
    BY DEF ArchiveOk
  <2>2. archive.descriptor.attestation = attestation /\ archive.descriptor.chain = chain
    BY <2>1
  <2>. QED BY <2>1, <2>2
       DEF Proving!ScriptAccepts, Proving!DescriptorHolds, Proving!Described
<1>4. ~archive.cut /\ Proving!Described(archive) /\ Proving!Within(archive, ScriptLimits)
      => Proving!ScriptAccepts(archive)
  BY ScriptFollows
<1>5. Proving!Described(archive) <=>
        archive.descriptor = [attestation |-> archive.attestation, chain |-> archive.chain]
  BY DEF Proving!Described
<1>6. Proving!Within(archive, ScriptLimits) => Proving!Within(archive, LibraryLimits)
  BY ScriptIsStricter DEF ArchiveOk
<1>. QED BY <1>1, <1>2, <1>3, <1>4, <1>5, <1>6

-----------------------------------------------------------------------------
(* The files, and the chains that are built over them.                     *)

\* The kind of an identity is the name of its file, or that of a state.
LEMMA IdentityKind ==
  ASSUME NEW name, NEW content
  PROVE  Proving!Identity(name, content)[1] =
           IF name \in {"before", "after"} THEN "state" ELSE name
<1>1. CASE name \in {"receipt", "recovery"}
  BY <1>1 DEF Proving!Identity
<1>2. CASE name = "reconciliation"
  BY <1>2 DEF Proving!Identity
<1>3. CASE name \in {"state", "before", "after"}
  BY <1>3 DEF Proving!Identity
<1>4. CASE name \in {"comparison", "binding"}
  BY <1>4 DEF Proving!Identity
<1>5. CASE name \notin {"receipt", "recovery", "reconciliation", "state", "before", "after",
                        "comparison", "binding"}
  BY <1>5 DEF Proving!Identity
<1>. QED BY <1>1, <1>2, <1>3, <1>4, <1>5

LEMMA GraphPlaced ==
  ASSUME NEW files, NEW names
  PROVE  Proving!Placed(Proving!GraphOver(files, names))
<1>1. ASSUME NEW node \in Proving!GraphOver(files, names).nodes,
             node.identity[1] \in {"comparison", "basis"}
      PROVE  node.path = node.identity[1]
  <2>1. \/ node.identity = Proving!Identity("receipt", files["receipt"])
        \/ node.identity = Proving!Identity(node.path, files[node.path])
    BY DEF Proving!GraphOver
  <2>2. node.identity # Proving!Identity("receipt", files["receipt"])
    BY <1>1, IdentityKind
  <2>3. node.identity[1] = IF node.path \in {"before", "after"} THEN "state" ELSE node.path
    BY <2>1, <2>2, IdentityKind
  <2>. QED BY <1>1, <2>3
<1>. QED BY <1>1 DEF Proving!Placed

LEMMA StillWritten ==
  ASSUME Proving!Written(root), NEW name, NEW content,
         name = "comparison" /\ content # NoFile =>
           \A input \in Proving!InputsOf(content) : input.source \in Proving!Sources,
         name = "graph" /\ content # NoFile => Proving!Placed(content)
  PROVE  Proving!Written([root EXCEPT ![name] = content])
<1> DEFINE files == [root EXCEPT ![name] = content]
<1>1. /\ DOMAIN files = Proving!Sources
      /\ \A n \in Proving!Sources : files[n] = IF n = name THEN content ELSE root[n]
  BY DEF Proving!Written
<1>2. {"comparison", "graph"} \subseteq Proving!Sources
  BY DEF Proving!Sources, Proving!Names
<1>. HIDE DEF files
<1>3. files["comparison"] # NoFile =>
        \A input \in Proving!InputsOf(files["comparison"]) : input.source \in Proving!Sources
  BY <1>1, <1>2 DEF Proving!Written
<1>4. files["graph"] # NoFile => Proving!Placed(files["graph"])
  BY <1>1, <1>2 DEF Proving!Written
<1>5. Proving!Written(files)
  BY <1>1, <1>3, <1>4 DEF Proving!Written
<1>. QED BY <1>5 DEF files

LEMMA AnewWritten ==
  ASSUME Proving!Written(root), NEW name, NEW content \in Proving!Anew(name)
  PROVE  Proving!Written([root EXCEPT ![name] = content])
<1>1. ASSUME name = "comparison"
      PROVE  \A input \in Proving!InputsOf(content) : input.source \in Proving!Sources
  <2>1. content = Proving!Compared(root, "before", "after")
    BY <1>1 DEF Proving!Anew
  <2>. QED BY <2>1 DEF Proving!Compared, Proving!InputsOf, Proving!Sources
<1>2. ASSUME name = "graph"
      PROVE  Proving!Placed(content)
  <2> DEFINE over(plan, extra) == Proving!GraphOver(root, plan.given \union extra)
  <2>1. content \in {over(plan, extra) : plan \in ProofPlans, extra \in SUBSET {"notes"}}
    BY <1>2 DEF Proving!Anew
  <2>2. PICK plan, extra : content = over(plan, extra)
    <3>. HIDE DEF over
    <3>. QED BY <2>1
  <2>. QED BY <2>2, GraphPlaced
<1>. QED BY <1>1, <1>2, StillWritten

LEMMA DraftMade ==
  ASSUME Proving!ConstantsAssumption, NoRefIsNone, Proving!Written(root),
         NEW plan \in ProofPlans, Proving!DraftAccepted(root, plan.given, plan.outcome)
  PROVE  DraftOk(Proving!Draft(root, plan.given, plan.outcome))
<1> DEFINE given == plan.given
           made == Proving!Draft(root, given, plan.outcome)
<1>1. /\ Proving!Mandatory \subseteq given
      /\ {"evidence", "comparison", "basis"} \subseteq Proving!Early
      /\ Proving!Early \subseteq Proving!Identified
      /\ "evidence" \in Proving!Mandatory
  BY DEF Proving!ConstantsAssumption, Proving!Early, Proving!Identified, Proving!Mandatory
<1>2. /\ made.given = given
      /\ \A n \in (given \intersect Proving!Early) \ {"evidence"} :
           made.refs[n] = Proving!Ref(root, n)
  BY DEF Proving!Draft
<1>3. \E identity, digest : made.refs["evidence"] = [identity |-> identity, digest |-> digest]
  <2>1. \/ made.refs["evidence"] = Proving!Ref(root, "evidence")
        \/ made.refs["evidence"] =
             [Proving!Ref(root, "evidence")
                EXCEPT !.identity = Proving!Identity("receipt", root["receipt"])]
    BY <1>1 DEF Proving!Draft
  <2>. QED BY <2>1 DEF Proving!Ref
<1>4. made.refs["evidence"] # NoRef
  BY <1>3 DEF NoRefIsNone
<1>5. ASSUME "comparison" \in given
      PROVE  ComparisonPlaced(made.refs["comparison"])
  <2>1. made.refs["comparison"] = Proving!Ref(root, "comparison")
    BY <1>1, <1>2, <1>5
  <2>2. root["comparison"] # NoFile
    BY <1>1, <1>5 DEF Proving!DraftAccepted
  <2>3. made.refs["comparison"].identity[1] = "comparison"
    BY <2>1, IdentityKind DEF Proving!Ref
  <2>. QED BY <2>1, <2>2, <2>3 DEF ComparisonPlaced, Proving!Written, Proving!Ref
<1>6. ASSUME "basis" \in given
      PROVE  made.refs["basis"].identity[1] = "basis"
  <2>1. made.refs["basis"] = Proving!Ref(root, "basis")
    BY <1>1, <1>2, <1>6
  <2>. QED BY <2>1, IdentityKind DEF Proving!Ref
<1>. HIDE DEF made
<1>7. DraftOk(made)
  BY <1>2, <1>4, <1>5, <1>6 DEF DraftOk
<1>. QED BY <1>7 DEF made

LEMMA ChainMade ==
  ASSUME Proving!ConstantsAssumption, NoRefIsNone, Proving!Written(root),
         NEW made, DraftOk(made),
         \A n \in made.given \ Proving!Early : root[n] # NoFile
  PROVE  ChainOk(Proving!Chain(made, root))
<1> DEFINE chain == Proving!Chain(made, root)
<1> PICK plan \in ProofPlans : made.given = plan.given
  BY DEF DraftOk
<1>1. /\ "refs" \in DOMAIN chain
      /\ DOMAIN chain.refs = Proving!Names
      /\ \A n \in Proving!Names :
           chain.refs[n] = IF n \notin made.given THEN NoRef
                           ELSE IF n \in Proving!Early THEN made.refs[n]
                           ELSE Proving!Ref(root, n)
  BY DEF Proving!Chain
<1>2. Proving!Mandatory \subseteq made.given /\ made.given \subseteq Proving!Names
  BY DEF Proving!ConstantsAssumption
<1>3. /\ "graph" \in Proving!Mandatory \ Proving!Early
      /\ {"comparison", "basis", "graph"} \subseteq Proving!Names
      /\ {"comparison", "basis"} \subseteq Proving!Early
      /\ \A n \in Proving!Mandatory : n \in Proving!Early => n = "evidence"
  BY DEF Proving!Mandatory, Proving!Early, Proving!Names
<1>. HIDE DEF chain
<1>4. \A n : Proving!Ref(root, n) # NoRef
  BY DEF NoRefIsNone, Proving!Ref
<1>5. \A n \in Proving!Mandatory : Proving!Has(chain, n)
  BY <1>1, <1>2, <1>3, <1>4 DEF DraftOk, Proving!Has
<1>6. Proving!Placed(chain.refs["graph"].digest)
  <2>1. chain.refs["graph"] = Proving!Ref(root, "graph") /\ root["graph"] # NoFile
    BY <1>1, <1>2, <1>3
  <2>. QED BY <2>1 DEF Proving!Ref, Proving!Written
<1>7. \A n \in {"comparison", "basis"} :
        Proving!Has(chain, n) => n \in made.given /\ chain.refs[n] = made.refs[n]
  BY <1>1, <1>3 DEF Proving!Has
<1>8. ChainOk(chain)
  BY <1>1, <1>5, <1>6, <1>7 DEF ChainOk, DraftOk
<1>. QED BY <1>8 DEF chain

LEMMA BasisBound ==
  ASSUME NEW chain, ChainOk(chain), NEW basis
  PROVE  ChainOk(Proving!WithBasis(chain, basis))
<1> DEFINE bound == Proving!WithBasis(chain, basis)
<1>1. /\ "refs" \in DOMAIN bound
      /\ DOMAIN bound.refs = Proving!Names
      /\ \A n \in Proving!Names \ {"basis"} : bound.refs[n] = chain.refs[n]
      /\ bound.refs["basis"].identity = Proving!Identity("basis", basis)
  BY DEF ChainOk, Proving!WithBasis, Proving!Names
<1>2. bound.refs["basis"].identity[1] = "basis"
  BY <1>1, IdentityKind
<1>3. Proving!Mandatory \union {"graph", "comparison"} \subseteq Proving!Names \ {"basis"}
  BY DEF Proving!Mandatory, Proving!Names
<1>. HIDE DEF bound
<1>4. ChainOk(bound)
  BY <1>1, <1>2, <1>3 DEF ChainOk, Proving!Has
<1>. QED BY <1>4 DEF bound

-----------------------------------------------------------------------------
(* Every step keeps the invariant.                                         *)

LEMMA NumberedAppend ==
  ASSUME NEW lines, Numbered(lines), NEW line, line.number = Len(lines) + 1
  PROVE  /\ Numbered(Append(lines, line))
         /\ Proving!Range(lines) \subseteq Proving!Range(Append(lines, line))
<1> PICK S : lines \in Seq(S)
  BY DEF Numbered
<1> DEFINE T == S \union {line}
           longer == Append(lines, line)
<1>1. lines \in Seq(T)
  OBVIOUS
<1>2. /\ longer \in Seq(T)
      /\ Len(lines) \in Nat
      /\ Len(longer) = Len(lines) + 1
      /\ \A i \in 1..Len(longer) :
           longer[i] = IF i = Len(lines) + 1 THEN line ELSE lines[i]
  BY <1>1
<1>. HIDE DEF longer, T
<1>3. Numbered(longer)
  BY <1>2 DEF Numbered
<1>4. Proving!Range(lines) \subseteq Proving!Range(longer)
  BY <1>1, <1>2 DEF Proving!Range
<1>. QED BY <1>3, <1>4 DEF longer

\* The chain, and the history, when the sender does nothing.
LEMMA SenderWaits ==
  ASSUME SenderOk, UNCHANGED sender, Proving!Range(transitions) \subseteq
                                       Proving!Range(transitions')
  PROVE  SenderOk'
<1>1. ASSUME NEW attestation, NEW chain, OutcomeSeen(attestation, chain, transitions)
      PROVE  OutcomeSeen(attestation, chain, transitions')
  BY <1>1 DEF OutcomeSeen, Proving!OutcomeVerifies
<1>. QED BY <1>1 DEF SenderOk

LEMMA FilesStep ==
  ASSUME Proving!ConstantsAssumption, NoRefIsNone, ProofsInv,
         NEW name \in RewritableFiles, Proving!Rewrite(name) \/ Proving!Withdraw(name)
  PROVE  ProofsInv'
<1>1. Proving!Written(root')
  <2>1. CASE Proving!Rewrite(name)
    BY <2>1, AnewWritten DEF ProofsInv, Proving!Rewrite
  <2>2. CASE Proving!Withdraw(name)
    <3>1. Proving!Written([root EXCEPT ![name] = NoFile])
      BY StillWritten DEF ProofsInv
    <3>. QED BY <2>2, <3>1 DEF Proving!Withdraw
  <2>. QED BY <2>1, <2>2
<1>2. UNCHANGED <<draft, chainFile, transitions, sender, bundle>>
  BY DEF Proving!Rewrite, Proving!Withdraw, Proving!historyVars, Proving!producerVars,
     Proving!packagingVars
<1>3. SenderOk'
  BY <1>2, SenderWaits DEF ProofsInv
<1>. QED BY <1>1, <1>2, <1>3 DEF ProofsInv

LEMMA ProducerStep ==
  ASSUME Proving!ConstantsAssumption, NoRefIsNone, ProofsInv,
         \/ \E plan \in ProofPlans : Proving!StartChain(plan)
         \/ Proving!FinishChain
         \/ Proving!PrepareBasis
  PROVE  ProofsInv'
<1>1. UNCHANGED <<transitions, sender, bundle>>
  BY DEF Proving!StartChain, Proving!FinishChain, Proving!PrepareBasis,
     Proving!historyVars, Proving!packagingVars
<1>2. SenderOk'
  BY <1>1, SenderWaits DEF ProofsInv
<1>3. ASSUME NEW plan \in ProofPlans, Proving!StartChain(plan)
      PROVE  ProofsInv'
  <2>1. UNCHANGED <<root, chainFile>>
    BY <1>3 DEF Proving!StartChain, Proving!evidenceVars
  <2>2. DraftOk(draft')
    BY <1>3, DraftMade DEF Proving!StartChain, ProofsInv
  <2>. QED BY <1>1, <1>2, <2>1, <2>2 DEF ProofsInv
<1>4. CASE Proving!FinishChain
  <2>1. UNCHANGED root /\ draft' = NoFile
    BY <1>4 DEF Proving!FinishChain, Proving!evidenceVars
  <2>2. chainFile' # NoFile => ChainOk(chainFile')
    <3>1. CASE \A n \in draft.given \ Proving!Early : root[n] # NoFile
      <4>1. ChainOk(Proving!Chain(draft, root))
        BY <1>4, <3>1, ChainMade DEF Proving!FinishChain, ProofsInv
      <4>. QED BY <1>4, <4>1 DEF Proving!FinishChain, ProofsInv
    <3>2. CASE ~\A n \in draft.given \ Proving!Early : root[n] # NoFile
      BY <1>4, <3>2 DEF Proving!FinishChain, ProofsInv
    <3>. QED BY <3>1, <3>2
  <2>. QED BY <1>1, <1>2, <2>1, <2>2 DEF ProofsInv
<1>5. CASE Proving!PrepareBasis
  <2>1. UNCHANGED draft
    BY <1>5 DEF Proving!PrepareBasis
  <2>2. ChainOk(chainFile')
    BY <1>5, BasisBound DEF Proving!PrepareBasis, ProofsInv
  <2>3. Proving!Written(root')
    <3>1. Proving!Written([root EXCEPT !["basis"] = Proving!BasisFor(chainFile)])
      BY StillWritten DEF ProofsInv
    <3>. QED BY <1>5, <3>1 DEF Proving!PrepareBasis
  <2>. QED BY <1>1, <1>2, <2>1, <2>2, <2>3 DEF ProofsInv
<1>. QED BY <1>3, <1>4, <1>5

LEMMA HistoryStep ==
  ASSUME ProofsInv,
         \/ Proving!Transit
         \/ Proving!Revoke
         \/ Proving!Tear
         \/ \E keyed \in BOOLEAN : Proving!Attest(keyed)
  PROVE  ProofsInv'
<1>1. UNCHANGED <<root, draft, chainFile, sender, bundle>>
  BY DEF Proving!Transit, Proving!Revoke, Proving!Tear, Proving!Attest,
     Proving!evidenceVars, Proving!producerVars, Proving!packagingVars
<1>2. /\ Numbered(transitions')
      /\ Proving!Range(transitions) \subseteq Proving!Range(transitions')
  <2>1. CASE Proving!Transit
    <3> DEFINE line == [number |-> Len(transitions) + 1, chain |-> chainFile]
    <3>1. transitions' = Append(transitions, line)
      BY <2>1 DEF Proving!Transit
    <3>2. line.number = Len(transitions) + 1
      OBVIOUS
    <3>. HIDE DEF line
    <3>. QED BY <3>1, <3>2, NumberedAppend DEF ProofsInv
  <2>2. CASE ~Proving!Transit
    <3>1. UNCHANGED transitions
      BY <2>2 DEF Proving!Revoke, Proving!Tear, Proving!Attest, Proving!historyVars
    <3>. QED BY <3>1 DEF ProofsInv
  <2>. QED BY <2>1, <2>2
<1>3. SenderOk'
  BY <1>1, <1>2, SenderWaits DEF ProofsInv
<1>. QED BY <1>1, <1>2, <1>3 DEF ProofsInv

\* The sources of a reading are those of its references.
LEMMA GatheredThere ==
  ASSUME NEW chain, NEW files,
         \A r \in Proving!Referenced(chain, files) : files[r.source] = r.digest,
         Proving!Cardinality(Proving!Keys(Proving!Referenced(chain, files))) =
           Proving!Cardinality(Proving!Referenced(chain, files))
  PROVE  SourcesSeen(chain, {[key |-> r.key, source |-> r.source,
                              content |-> files[r.source]] :
                               r \in Proving!Referenced(chain, files)})
BY DEF SourcesSeen, GatheredFrom

\* Sources that are as they were gathered are read again as they were.
LEMMA ReadAgain ==
  ASSUME NEW chain, NEW sources, SourcesSeen(chain, sources), NEW files,
         \A s \in sources : files[s.source] = s.content
  PROVE  {[s EXCEPT !.content = files[s.source]] : s \in sources} = sources
<1>1. PICK there : GatheredFrom(chain, sources, there)
  BY DEF SourcesSeen
<1>2. ASSUME NEW s \in sources
      PROVE  [s EXCEPT !.content = files[s.source]] = s
  <2>1. PICK r : s = [key |-> r.key, source |-> r.source, content |-> there[r.source]]
    BY <1>1 DEF GatheredFrom
  <2>2. files[s.source] = s.content
    OBVIOUS
  <2>. QED BY <2>1, <2>2
<1>. QED BY <1>2

LEMMA SenderStep ==
  ASSUME ProofsInv,
         \/ Proving!Load
         \/ Proving!Verify
         \/ Proving!Trace
         \/ Proving!Gather
         \/ Proving!Package
         \/ Proving!Hand
         \/ Proving!Stop
  PROVE  ProofsInv'
<1>1. UNCHANGED <<root, draft, chainFile, transitions>>
  BY DEF Proving!Load, Proving!Verify, Proving!Trace, Proving!Gather, Proving!Package,
     Proving!Hand, Proving!Stop, Proving!Sending, Proving!evidenceVars,
     Proving!producerVars
<1>2. Proving!GiveUp => SenderOk'
  BY DEF Proving!GiveUp, Proving!Resting, SenderOk
<1>3. SenderOk'
  <2>1. CASE Proving!Load
    <3>1. sender' = [pc |-> "loaded", attestation |-> attestationFile, chain |-> chainFile]
          /\ ChainOk(chainFile)
      BY <2>1 DEF Proving!Load, ProofsInv
    <3>. QED BY <3>1 DEF SenderOk
  <2>2. CASE Proving!Verify
    <3>1. CASE Proving!OutcomeVerifies(sender.attestation, sender.chain, transitions, root)
      <4>1. sender.pc = "loaded" /\ sender' = [sender EXCEPT !.pc = "verified"]
        BY <2>2, <3>1 DEF Proving!Verify, Proving!Sending
      <4>2. sender' = [pc |-> "verified", attestation |-> sender.attestation,
                       chain |-> sender.chain] /\ ChainOk(sender.chain)
        BY <4>1 DEF ProofsInv, SenderOk
      <4>3. OutcomeSeen(sender.attestation, sender.chain, transitions)
        BY <3>1 DEF OutcomeSeen
      <4>. QED BY <1>1, <4>2, <4>3 DEF SenderOk
    <3>2. CASE ~Proving!OutcomeVerifies(sender.attestation, sender.chain, transitions, root)
      BY <1>2, <2>2, <3>2 DEF Proving!Verify
    <3>. QED BY <3>1, <3>2
  <2>3. CASE Proving!Trace
    <3>1. CASE Proving!LineageHolds(sender.chain, root)
      <4> PICK retained \in BOOLEAN : \E context \in Proving!Contexts(retained) :
              sender' = [pc |-> "traced", attestation |-> sender.attestation,
                         chain |-> sender.chain, context |-> context,
                         closure |-> Proving!Closure(sender.chain, root)]
        BY <2>3, <3>1 DEF Proving!Trace
      <4>1. PICK context \in Proving!Contexts(retained) :
              sender' = [pc |-> "traced", attestation |-> sender.attestation,
                         chain |-> sender.chain, context |-> context,
                         closure |-> Proving!Closure(sender.chain, root)]
        OBVIOUS
      <4>2. ContextOk(context, sender.attestation)
        BY DEF ContextOk, Proving!Contexts
      <4>3. LineageSeen(sender.chain, Proving!Closure(sender.chain, root))
        BY <3>1 DEF LineageSeen
      <4>4. ChainOk(sender.chain)
            /\ OutcomeSeen(sender.attestation, sender.chain, transitions)
        BY <2>3 DEF Proving!Trace, Proving!Sending, ProofsInv, SenderOk
      <4>. QED BY <1>1, <4>1, <4>2, <4>3, <4>4 DEF SenderOk
    <3>2. CASE ~Proving!LineageHolds(sender.chain, root)
      BY <1>2, <2>3, <3>2 DEF Proving!Trace
    <3>. QED BY <3>1, <3>2
  <2>4. CASE Proving!Gather
    <3> DEFINE references == Proving!Referenced(sender.chain, root)
    <3>1. CASE Proving!SourcesGathered(references)
      <4>1. sender' = [pc |-> "gathered", attestation |-> sender.attestation,
                       chain |-> sender.chain, context |-> sender.context,
                       closure |-> sender.closure, lines |-> transitions, cut |-> cut,
                       sources |-> {[key |-> r.key, source |-> r.source,
                                     content |-> root[r.source]] : r \in references}]
        BY <2>4, <3>1 DEF Proving!Gather
      <4>2. SourcesSeen(sender.chain, {[key |-> r.key, source |-> r.source,
                                        content |-> root[r.source]] : r \in references})
        BY <3>1, GatheredThere DEF Proving!SourcesGathered
      <4>3. /\ ChainOk(sender.chain)
            /\ OutcomeSeen(sender.attestation, sender.chain, transitions)
            /\ LineageSeen(sender.chain, sender.closure)
            /\ ContextOk(sender.context, sender.attestation)
            /\ Numbered(transitions)
        BY <2>4 DEF Proving!Gather, Proving!Sending, ProofsInv, SenderOk
      <4>. HIDE DEF references
      <4>. QED BY <4>1, <4>2, <4>3 DEF SenderOk
    <3>2. CASE ~Proving!SourcesGathered(references)
      BY <1>2, <2>4, <3>2 DEF Proving!Gather
    <3>. QED BY <3>1, <3>2
  <2>5. CASE Proving!Package
    <3> DEFINE read == {[s EXCEPT !.content = root[s.source]] : s \in sender.sources}
               archive(extent) ==
                 [attestation |-> attestationFile, chain |-> chainFile,
                  descriptor |-> [attestation |-> sender.attestation,
                                  chain |-> sender.chain],
                  lines |-> sender.lines, cut |-> sender.cut,
                  sources |-> read, closure |-> sender.closure,
                  context |-> sender.context, extent |-> extent]
    <3>1. \/ Proving!GiveUp
          \/ /\ \E extent \in PackageExtents :
                  sender' = [pc |-> "writing", archive |-> archive(extent)]
             /\ Proving!SourcesUnchanged
      BY <2>5 DEF Proving!Package
    <3>2. ASSUME NEW extent \in PackageExtents,
                 sender' = [pc |-> "writing", archive |-> archive(extent)],
                 Proving!SourcesUnchanged
          PROVE  SenderOk'
      <4>1. /\ ChainOk(sender.chain)
            /\ Numbered(sender.lines)
            /\ OutcomeSeen(sender.attestation, sender.chain, sender.lines)
            /\ LineageSeen(sender.chain, sender.closure)
            /\ SourcesSeen(sender.chain, sender.sources)
            /\ ContextOk(sender.context, sender.attestation)
        BY <2>5 DEF Proving!Package, Proving!Sending, ProofsInv, SenderOk
      <4>2. read = sender.sources
        BY <3>2, <4>1, ReadAgain DEF Proving!SourcesUnchanged
      <4>. HIDE DEF read
      <4>3. ArchiveOk(archive(extent))
        BY <4>1, <4>2 DEF ArchiveOk
      <4>. HIDE DEF archive
      <4>. QED BY <3>2, <4>3 DEF SenderOk
    <3>. QED BY <1>2, <3>1, <3>2
  <2>6. CASE Proving!Hand \/ Proving!Stop
    BY <1>2, <2>6 DEF Proving!Hand, Proving!Stop
  <2>. QED BY <2>1, <2>2, <2>3, <2>4, <2>5, <2>6
<1>4. Proving!Complete(bundle') => ArchiveOk(bundle')
  <2>1. CASE Proving!Hand
    BY <2>1 DEF Proving!Hand, Proving!Sending, ProofsInv, SenderOk
  <2>2. CASE Proving!Package
    BY <2>2 DEF Proving!Package, ProofsInv, Proving!Complete
  <2>3. CASE ~Proving!Hand /\ ~Proving!Package
    <3>1. UNCHANGED bundle
      BY <2>3 DEF Proving!Load, Proving!Verify, Proving!Trace, Proving!Gather, Proving!Stop
    <3>. QED BY <3>1 DEF ProofsInv
  <2>. QED BY <2>1, <2>2, <2>3
<1>. QED BY <1>1, <1>3, <1>4 DEF ProofsInv

\* The invariant holds of every behaviour.
THEOREM ProofsSound ==
  ASSUME Proving!ConstantsAssumption, NoRefIsNone
  PROVE  Proving!Spec => []ProofsInv
<1>1. Proving!Init => ProofsInv
  <2> SUFFICES ASSUME Proving!Init PROVE ProofsInv
    OBVIOUS
  <2>1. Proving!Written(root)
    BY DEF Proving!Init, Proving!ConstantsAssumption
  <2>2. Numbered(transitions)
    BY DEF Proving!Init, Proving!ConstantsAssumption, Numbered
  <2>3. SenderOk
    BY DEF Proving!Init, Proving!Resting, SenderOk
  <2>4. draft = NoFile /\ chainFile = NoFile /\ ~Proving!Complete(bundle)
    BY DEF Proving!Init, Proving!Complete
  <2>. QED BY <2>1, <2>2, <2>3, <2>4 DEF ProofsInv
<1>2. ProofsInv /\ [Proving!Next]_Proving!vars => ProofsInv'
  <2> SUFFICES ASSUME ProofsInv, [Proving!Next]_Proving!vars PROVE ProofsInv'
    OBVIOUS
  <2>1. CASE UNCHANGED Proving!vars
    <3>1. UNCHANGED <<root, draft, chainFile, transitions, sender, bundle>>
      BY <2>1 DEF Proving!vars
    <3>2. SenderOk'
      BY <3>1, SenderWaits DEF ProofsInv
    <3>. QED BY <3>1, <3>2 DEF ProofsInv
  <2>2. CASE Proving!Next
    BY <2>2, FilesStep, ProducerStep, HistoryStep, SenderStep DEF Proving!Next
  <2>. QED BY <2>1, <2>2
<1>. QED BY <1>1, <1>2, PTL DEF Proving!Spec

\* What the sender of a reliability proof hands over after it has verified it
\* (build_reliability_proof_bundle) its receiver accepts
\* (verify_reliability_proof_bundle), whatever was rewritten, withdrawn,
\* attested or interrupted while the sender read: with the exceptions that
\* HandedProofsHold names, and no other.
THEOREM HandedProofsAccepted ==
  ASSUME Proving!ConstantsAssumption, NoRefIsNone
  PROVE  Proving!Spec => []HandedProofsHold
<1>1. ProofsInv => HandedProofsHold
  BY ArchiveAccepted DEF ProofsInv, HandedProofsHold, Proving!HandedProofsHold
<1>. QED BY <1>1, ProofsSound, PTL

\* On every bundle that is handed over, the library's verifier and the script
\* that does not import it (verify_package) answer alike, unless its history
\* is torn or its provenance graph names files that are not in it as it says.
THEOREM VerifiersAnswerAlike ==
  ASSUME Proving!ConstantsAssumption, NoRefIsNone
  PROVE  Proving!Spec => []VerifiersAgree
<1>1. ProofsInv => VerifiersAgree
  BY ArchiveAccepted DEF ProofsInv, VerifiersAgree, Proving!VerifiersAgree
<1>. QED BY <1>1, ProofsSound, PTL
=============================================================================
