-------------------------- MODULE ReviewService_proofs --------------------------
(***************************************************************************)
(* Proofs about ReviewService for any workers, keys, authors, reports and  *)
(* bounds.  Neither property is inductive: a statement is audited because  *)
(* every request that is being served is (Serves), and an answer names its *)
(* statement because the answer that is on its way does.  Both files only  *)
(* grow, also when an append is interrupted.                               *)
(***************************************************************************)
EXTENDS ReviewService, LineFile_proofs

Logged(record) == \E j \in 1..Len(audit.lines) : audit.lines[j] = record
Names(at, post) == at \in 1..Len(reviews.lines) /\ reviews.lines[at].post = post

Serves(w) ==
  serving[w] # NoRequest =>
    /\ Logged(Record("request_admitted", serving[w].operation, serving[w].number))
    /\ serving[w].step = "answer" => Names(serving[w].at, serving[w].post)

IInv ==
  /\ TypeOK
  /\ StatementsAudited
  /\ AnswersAgree
  /\ \A w \in Workers : Serves(w)

LEMMA InitIInv ==
  ASSUME ConstantsAssumption, Init
  PROVE  IInv
<1>1. EmptyFile \in Files(AuditRecords) /\ EmptyFile \in Files(Statements)
  BY DEF EmptyFile, Files, Ends
<1>2. Len(EmptyFile.lines) = 0
  BY DEF EmptyFile
<1>. QED
  BY <1>1, <1>2 DEF ConstantsAssumption, Init, IInv, TypeOK, StatementsAudited, AnswersAgree,
                    Serves

-----------------------------------------------------------------------------
(* The two files.                                                          *)

LEMMA AuditGrows ==
  ASSUME audit \in Files(AuditRecords), NEW r \in AuditRecords,
         \/ audit' = Extended(audit, <<r>>)
         \/ audit' \in Interrupted(audit, <<r>>)
  PROVE  /\ audit' \in Files(AuditRecords)
         /\ \A record : Logged(record) => Logged(record)'
         /\ audit' = Extended(audit, <<r>>) => Logged(r)'
<1>1. audit.lines \in Seq(AuditRecords)
  BY DEF Files
<1>2. /\ audit' \in Files(AuditRecords)
      /\ audit'.lines \in {audit.lines, Append(audit.lines, r)}
      /\ audit' = Extended(audit, <<r>>) => audit'.lines = Append(audit.lines, r)
  BY ExtendedOne, InterruptedOne
<1>3. /\ Len(Append(audit.lines, r)) = Len(audit.lines) + 1
      /\ \A i \in 1..Len(audit.lines) : Append(audit.lines, r)[i] = audit.lines[i]
      /\ Append(audit.lines, r)[Len(audit.lines) + 1] = r
      /\ Len(audit.lines) \in Nat
  BY <1>1, AppendedLines
<1>4. ASSUME NEW record, Logged(record) PROVE Logged(record)'
  BY <1>2, <1>3, <1>4 DEF Logged
<1>5. ASSUME audit' = Extended(audit, <<r>>) PROVE Logged(r)'
  BY <1>2, <1>3, <1>5 DEF Logged
<1>. QED BY <1>2, <1>4, <1>5

LEMMA ReviewsGrow ==
  ASSUME reviews \in Files(Statements), NEW s \in Statements,
         \/ reviews' = Extended(reviews, <<s>>)
         \/ reviews' \in Interrupted(reviews, <<s>>)
  PROVE  /\ reviews' \in Files(Statements)
         /\ reviews'.lines \in {reviews.lines, Append(reviews.lines, s)}
         /\ reviews' = Extended(reviews, <<s>>) => reviews'.lines = Append(reviews.lines, s)
         /\ Len(reviews.lines) <= Len(reviews'.lines)
         /\ \A i \in 1..Len(reviews.lines) : reviews'.lines[i] = reviews.lines[i]
<1>1. reviews.lines \in Seq(Statements)
  BY DEF Files
<1>2. /\ reviews' \in Files(Statements)
      /\ reviews'.lines \in {reviews.lines, Append(reviews.lines, s)}
      /\ reviews' = Extended(reviews, <<s>>) => reviews'.lines = Append(reviews.lines, s)
  BY ExtendedOne, InterruptedOne
<1>3. /\ Len(Append(reviews.lines, s)) = Len(reviews.lines) + 1
      /\ \A i \in 1..Len(reviews.lines) : Append(reviews.lines, s)[i] = reviews.lines[i]
      /\ Len(reviews.lines) \in Nat
  BY <1>1, AppendedLines
<1>. QED BY <1>2, <1>3

-----------------------------------------------------------------------------
(* The request that a worker serves.                                       *)

\* A request goes on to another step.
LEMMA GotoFields ==
  ASSUME TypeOK, NEW w \in Workers, serving[w] # NoRequest,
         NEW step \in {"serve", "reject", "answer"}, NEW at \in Nat,
         Goto(w, step, at), ConstantsAssumption
  PROVE  /\ serving' \in [Workers -> Requests \union {NoRequest}]
         /\ \A v \in Workers \ {w} : serving'[v] = serving[v]
         /\ serving'[w] # NoRequest
         /\ serving'[w].step = step /\ serving'[w].at = at
         /\ serving'[w].post = serving[w].post
         /\ serving'[w].operation = serving[w].operation
         /\ serving'[w].number = serving[w].number
<1>1. serving \in [Workers -> Requests \union {NoRequest}] /\ serving[w] \in Requests
  BY DEF TypeOK
<1> DEFINE r == [serving[w] EXCEPT !.step = step, !.at = at]
<1>2. r \in Requests
  BY <1>1, Zenon DEF Requests
<1>3. /\ r.step = step /\ r.at = at /\ r.post = serving[w].post
      /\ r.operation = serving[w].operation /\ r.number = serving[w].number
  BY <1>1, SMT DEF Requests
<1>4. serving' = [serving EXCEPT ![w] = r]
  BY DEF Goto
<1>5. NoRequest \notin Requests
  BY DEF ConstantsAssumption
<1> HIDE DEF r
<1>. QED BY <1>1, <1>2, <1>3, <1>4, <1>5

-----------------------------------------------------------------------------
(* The steps that write an audit record.                                   *)

LEMMA RecordTyped ==
  ASSUME NEW event \in Events, NEW operation \in Operations, NEW number \in 1..MaxRequests
  PROVE  Record(event, operation, number) \in AuditRecords
  BY DEF Record, AuditRecords

\* What an audit record that is added leaves true.
LEMMA AuditKeeps ==
  ASSUME IInv, \A record : Logged(record) => Logged(record)',
         reviews' = reviews, answers' = answers
  PROVE  /\ StatementsAudited' /\ AnswersAgree'
         /\ \A v \in Workers : serving'[v] = serving[v] => Serves(v)'
<1>1. StatementsAudited'
  BY DEF IInv, StatementsAudited, Logged
<1>2. AnswersAgree'
  BY DEF IInv, AnswersAgree
<1>3. ASSUME NEW v \in Workers, serving'[v] = serving[v] PROVE Serves(v)'
  BY <1>3 DEF IInv, Serves, Names
<1>. QED BY <1>1, <1>2, <1>3

LEMMA RefuseKeepsIInv ==
  ASSUME ConstantsAssumption, IInv, NEW w \in Workers, NEW operation \in Operations,
         Refuse(w, operation)
  PROVE  IInv'
<1> DEFINE r == Record("request_refused", operation, received + 1)
<1>1. received + 1 \in 1..MaxRequests /\ received' = received + 1
  BY DEF IInv, TypeOK, Refuse, Receive, ConstantsAssumption
<1>2. r \in AuditRecords
  BY <1>1, RecordTyped DEF Events
<1>3. audit' = Extended(audit, <<r>>) \/ audit' \in Interrupted(audit, <<r>>)
  BY DEF Refuse, Log, LogCut
<1>4. audit' \in Files(AuditRecords) /\ \A record : Logged(record) => Logged(record)'
  BY <1>2, <1>3, AuditGrows DEF IInv, TypeOK
<1>5. UNCHANGED <<reviews, serving, answers>> /\ auditCuts' \in 0..MaxCuts
  BY DEF Refuse, LogCut, IInv, TypeOK, ConstantsAssumption
<1>6. TypeOK'
  BY <1>1, <1>4, <1>5 DEF IInv, TypeOK
<1>. QED BY <1>4, <1>5, <1>6, AuditKeeps DEF IInv

LEMMA AdmitKeepsIInv ==
  ASSUME ConstantsAssumption, IInv, NEW w \in Workers, NEW operation \in Operations,
         Admit(w, operation)
  PROVE  IInv'
<1>1. PICK number \in 1..MaxRequests : number = received + 1 /\ received' = number
  BY DEF IInv, TypeOK, Admit, Receive, ConstantsAssumption
<1> DEFINE r == Record("request_admitted", operation, number)
<1>2. r \in AuditRecords
  BY <1>1, RecordTyped DEF Events
<1>3. audit' = Extended(audit, <<r>>)
  BY <1>1 DEF Admit, Log
<1>4. /\ audit' \in Files(AuditRecords)
      /\ \A record : Logged(record) => Logged(record)'
      /\ Logged(r)'
  BY <1>2, <1>3, AuditGrows DEF IInv, TypeOK
<1>5. PICK post \in PostsFor(operation) :
        serving' = [serving EXCEPT ![w] =
                      [number |-> number, operation |-> operation, post |-> post,
                       step |-> "serve", at |-> 0]]
  BY <1>1 DEF Admit, Begin
<1> DEFINE q == [number |-> number, operation |-> operation, post |-> post,
                 step |-> "serve", at |-> 0]
<1>6. q \in Requests /\ q.post \in PostsFor(q.operation) /\ q.operation = operation
      /\ q.number = number /\ q.step = "serve"
  BY <1>1 DEF Requests, PostsFor
<1> HIDE DEF q
<1>7. /\ serving' \in [Workers -> Requests \union {NoRequest}]
      /\ serving'[w] = q
      /\ \A v \in Workers \ {w} : serving'[v] = serving[v]
  BY <1>5, <1>6 DEF q, IInv, TypeOK
<1>8. UNCHANGED <<reviews, answers, auditCuts>>
  BY DEF Admit
<1>9. TypeOK'
  <2>1. ASSUME NEW v \in Workers, serving'[v] # NoRequest
        PROVE  serving'[v].post \in PostsFor(serving'[v].operation)
    <3>1. CASE v = w
      BY <1>6, <1>7, <3>1
    <3>2. CASE v # w
      BY <1>7, <2>1, <3>2 DEF IInv, TypeOK
    <3>. QED BY <3>1, <3>2
  <2>. QED BY <1>1, <1>4, <1>7, <1>8, <2>1 DEF IInv, TypeOK
<1>10. Serves(w)'
  BY <1>4, <1>6, <1>7 DEF Serves
<1>. QED BY <1>4, <1>7, <1>8, <1>9, <1>10, AuditKeeps DEF IInv

LEMMA AdmitFailsKeepsIInv ==
  ASSUME ConstantsAssumption, IInv, NEW w \in Workers, NEW operation \in Operations,
         AdmitFails(w, operation)
  PROVE  IInv'
<1> DEFINE r == Record("request_admitted", operation, received + 1)
<1>1. received + 1 \in 1..MaxRequests /\ received' = received + 1
  BY DEF IInv, TypeOK, AdmitFails, Receive, ConstantsAssumption
<1>2. r \in AuditRecords
  BY <1>1, RecordTyped DEF Events
<1>0. audit' \in Interrupted(audit, <<r>>)
  BY DEF AdmitFails, LogCut
<1>3. audit' \in Files(AuditRecords) /\ \A record : Logged(record) => Logged(record)'
  BY <1>0, <1>2, AuditGrows DEF IInv, TypeOK
<1>4. UNCHANGED <<reviews, serving, answers>> /\ auditCuts' \in 0..MaxCuts
  BY DEF AdmitFails, LogCut, IInv, TypeOK, ConstantsAssumption
<1>5. TypeOK'
  BY <1>1, <1>3, <1>4 DEF IInv, TypeOK
<1>. QED BY <1>3, <1>4, <1>5, AuditKeeps DEF IInv

LEMMA EmitRejectionKeepsIInv ==
  ASSUME ConstantsAssumption, IInv, NEW w \in Workers, EmitRejection(w)
  PROVE  IInv'
<1> DEFINE r == Record("request_rejected", serving[w].operation, serving[w].number)
<1>1. serving[w] \in Requests
  BY DEF EmitRejection, At, IInv, TypeOK
<1>2. r \in AuditRecords
  BY <1>1, RecordTyped DEF Events, Requests
<1>3. audit' = Extended(audit, <<r>>) \/ audit' \in Interrupted(audit, <<r>>)
  BY DEF EmitRejection, Log, LogCut
<1>4. audit' \in Files(AuditRecords) /\ \A record : Logged(record) => Logged(record)'
  BY <1>2, <1>3, AuditGrows DEF IInv, TypeOK
<1>5. UNCHANGED <<reviews, answers, received>> /\ auditCuts' \in 0..MaxCuts
  BY DEF EmitRejection, LogCut, IInv, TypeOK, ConstantsAssumption
<1>6. /\ serving' \in [Workers -> Requests \union {NoRequest}]
      /\ serving'[w] = NoRequest
      /\ \A v \in Workers \ {w} : serving'[v] = serving[v]
  BY DEF EmitRejection, End, IInv, TypeOK
<1>7. TypeOK'
  BY <1>4, <1>5, <1>6 DEF IInv, TypeOK
<1>8. Serves(w)'
  BY <1>6 DEF Serves
<1>. QED BY <1>4, <1>5, <1>6, <1>7, <1>8, AuditKeeps DEF IInv

-----------------------------------------------------------------------------
(* The steps that only move a request on.                                  *)

\* Such a step goes wrong only where it sends an answer to the client, or
\* gets one ready.
LEMMA ServingKeeps ==
  ASSUME IInv, NEW w \in Workers, UNCHANGED <<audit, reviews, received, auditCuts>>,
         serving' \in [Workers -> Requests \union {NoRequest}],
         \A v \in Workers \ {w} : serving'[v] = serving[v],
         \/ serving'[w] = NoRequest
         \/ /\ serving[w] # NoRequest
            /\ serving'[w].post = serving[w].post
            /\ serving'[w].operation = serving[w].operation
            /\ serving'[w].number = serving[w].number
            /\ serving'[w].step = "answer" => Names(serving'[w].at, serving'[w].post),
         answers' \subseteq Answers, AnswersAgree'
  PROVE  IInv'
<1>1. StatementsAudited'
  BY DEF IInv, StatementsAudited
<1>2. ASSUME NEW v \in Workers PROVE Serves(v)'
  <2>1. CASE v = w
    BY <2>1 DEF IInv, Serves, Logged, Names
  <2>2. CASE v # w
    BY <2>2 DEF IInv, Serves, Logged, Names
  <2>. QED BY <2>1, <2>2
<1>3. ASSUME NEW v \in Workers, serving'[v] # NoRequest
      PROVE  serving'[v].post \in PostsFor(serving'[v].operation)
  <2>1. CASE v = w
    BY <1>3, <2>1 DEF IInv, TypeOK
  <2>2. CASE v # w
    BY <1>3, <2>2 DEF IInv, TypeOK
  <2>. QED BY <2>1, <2>2
<1>4. TypeOK'
  BY <1>3 DEF IInv, TypeOK
<1>. QED BY <1>1, <1>2, <1>4 DEF IInv

LEMMA EndFields ==
  ASSUME TypeOK, NEW w \in Workers, End(w)
  PROVE  /\ serving' \in [Workers -> Requests \union {NoRequest}]
         /\ serving'[w] = NoRequest
         /\ \A v \in Workers \ {w} : serving'[v] = serving[v]
  BY DEF TypeOK, End

LEMMA FinishKeepsIInv ==
  ASSUME ConstantsAssumption, IInv, NEW w \in Workers, Finish(w)
  PROVE  IInv'
<1>1. AnswersAgree' /\ answers' \subseteq Answers
  BY DEF Finish, IInv, TypeOK, AnswersAgree
<1>2. /\ serving' \in [Workers -> Requests \union {NoRequest}]
      /\ serving'[w] = NoRequest
      /\ \A v \in Workers \ {w} : serving'[v] = serving[v]
  BY EndFields DEF Finish, IInv
<1>3. UNCHANGED <<audit, reviews, received, auditCuts>>
  BY DEF Finish
<1>. QED BY <1>1, <1>2, <1>3, ServingKeeps

\* A request is turned down, or its statement is found.
LEMMA GoesOnKeepsIInv ==
  ASSUME ConstantsAssumption, IInv, NEW w \in Workers, serving[w] # NoRequest,
         NEW step \in {"reject", "answer"}, NEW at \in Nat, Goto(w, step, at),
         step = "answer" => Names(at, serving[w].post),
         UNCHANGED <<audit, reviews, answers, received, auditCuts>>
  PROVE  IInv'
<1>1. AnswersAgree' /\ answers' \subseteq Answers
  BY DEF IInv, TypeOK, AnswersAgree
<1>2. /\ serving' \in [Workers -> Requests \union {NoRequest}]
      /\ \A v \in Workers \ {w} : serving'[v] = serving[v]
      /\ serving'[w].step = step /\ serving'[w].at = at
      /\ serving'[w].post = serving[w].post
      /\ serving'[w].operation = serving[w].operation
      /\ serving'[w].number = serving[w].number
  BY GotoFields DEF IInv
<1>. QED BY <1>1, <1>2, ServingKeeps

LEMMA ReplayKeepsIInv ==
  ASSUME ConstantsAssumption, IInv, NEW w \in Workers,
         FindRejected(w) \/ Replay(w) \/ RejectCorrection(w)
  PROVE  IInv'
<1>1. serving[w] # NoRequest /\ UNCHANGED <<audit, reviews, answers, received, auditCuts>>
  BY DEF FindRejected, Replay, RejectCorrection, Writing, At
<1>2. CASE Goto(w, "reject", 0)
  BY <1>1, <1>2, GoesOnKeepsIInv
<1>3. CASE ~Goto(w, "reject", 0)
  <2>1. PICK i \in WithKey(serving[w].post.key) :
          reviews.lines[i].post = serving[w].post /\ Goto(w, "answer", i)
    BY <1>3 DEF FindRejected, Replay, RejectCorrection
  <2>2. i \in Nat /\ Names(i, serving[w].post)
    BY <2>1 DEF WithKey, Names
  <2>. QED BY <1>1, <2>1, <2>2, GoesOnKeepsIInv
<1>. QED BY <1>2, <1>3

-----------------------------------------------------------------------------
(* The steps that write a statement, or the answer.                        *)

\* The statement is new to the store, and the audit journal shows its
\* request.
LEMMA AppendKeeps ==
  ASSUME ConstantsAssumption, IInv, NEW w \in Workers, AppendReaches(w),
         UNCHANGED <<audit, answers, received>>,
         \/ reviews' = Extended(reviews, <<StatementOf(serving[w])>>)
         \/ reviews' \in Interrupted(reviews, <<StatementOf(serving[w])>>)
  PROVE  /\ reviews' \in Files(Statements)
         /\ reviews' = Extended(reviews, <<StatementOf(serving[w])>>) =>
              /\ Len(reviews'.lines) = Len(reviews.lines) + 1
              /\ reviews'.lines[Len(reviews.lines) + 1].post = serving[w].post
         /\ StatementsAudited' /\ AnswersAgree'
         /\ \A v \in Workers : serving'[v] = serving[v] => Serves(v)'
<1>1. /\ serving[w] \in Requests /\ serving[w] # NoRequest
      /\ serving[w].operation = "review:write" /\ serving[w].post \in Posts
  BY DEF AppendReaches, Writing, At, IInv, TypeOK, PostsFor
<1>2. /\ reviews \in Files(Statements) /\ reviews.lines \in Seq(Statements)
      /\ Len(reviews.lines) \in Nat
  BY DEF IInv, TypeOK, Files
<1>3. PICK s \in Statements :
        /\ s = StatementOf(serving[w])
        /\ s.post = serving[w].post /\ s.request = serving[w].number
  BY <1>1, <1>2 DEF StatementOf, Statements, Requests
<1>4. /\ reviews' \in Files(Statements)
      /\ reviews'.lines \in {reviews.lines, Append(reviews.lines, s)}
      /\ reviews' = Extended(reviews, <<s>>) => reviews'.lines = Append(reviews.lines, s)
      /\ Len(reviews.lines) <= Len(reviews'.lines)
      /\ \A i \in 1..Len(reviews.lines) : reviews'.lines[i] = reviews.lines[i]
  BY <1>2, <1>3, ReviewsGrow
<1>5. /\ Len(Append(reviews.lines, s)) = Len(reviews.lines) + 1
      /\ Append(reviews.lines, s)[Len(reviews.lines) + 1] = s
  BY <1>2, AppendedLines
<1>6. ASSUME NEW i \in 1..Len(reviews'.lines)
      PROVE  \/ i \in 1..Len(reviews.lines)
             \/ i = Len(reviews.lines) + 1 /\ reviews'.lines[i] = s
  BY <1>2, <1>4, <1>5
<1>7. Logged(Record("request_admitted", "review:write", s.request))
  BY <1>1, <1>3 DEF IInv, Serves
<1>8. StatementsAudited'
  <2>1. ASSUME NEW i \in 1..Len(reviews'.lines)
        PROVE  Logged(Record("request_admitted", "review:write", reviews'.lines[i].request))
    BY <1>4, <1>6, <1>7 DEF IInv, StatementsAudited, Logged
  <2>. QED BY <2>1 DEF StatementsAudited, Logged
<1>9. AnswersAgree'
  <2>1. \A i \in 1..Len(reviews.lines) : reviews.lines[i].post.key # s.post.key
    BY <1>3 DEF AppendReaches, WithKey
  <2>2. ASSUME NEW i \in 1..Len(reviews'.lines), NEW j \in 1..Len(reviews'.lines),
               reviews'.lines[i].post.key = reviews'.lines[j].post.key
        PROVE  i = j
    BY <1>4, <1>6, <2>1, <2>2 DEF IInv, AnswersAgree
  <2>3. ASSUME NEW answer \in answers
        PROVE  /\ answer.at \in 1..Len(reviews'.lines)
               /\ reviews'.lines[answer.at].post = answer.post
    <3>1. answer.at \in 1..Len(reviews.lines) /\ reviews.lines[answer.at].post = answer.post
      BY DEF IInv, AnswersAgree
    <3>2. Len(reviews'.lines) \in Nat
      BY <1>4 DEF Files
    <3>. QED BY <1>2, <1>4, <3>1, <3>2
  <2>. QED BY <2>2, <2>3 DEF AnswersAgree
<1>10. ASSUME NEW v \in Workers, serving'[v] = serving[v] PROVE Serves(v)'
  <2>1. ASSUME NEW at, NEW post, Names(at, post) PROVE Names(at, post)'
    <3>1. Len(reviews'.lines) \in Nat
      BY <1>4 DEF Files
    <3>. QED BY <1>2, <1>4, <2>1, <3>1 DEF Names
  <2>. QED BY <1>10, <2>1 DEF IInv, Serves, Logged
<1>. QED BY <1>3, <1>4, <1>5, <1>8, <1>9, <1>10

LEMMA AppendStatementKeepsIInv ==
  ASSUME ConstantsAssumption, IInv, NEW w \in Workers, AppendStatement(w)
  PROVE  IInv'
<1>1. /\ reviews' \in Files(Statements)
      /\ Len(reviews'.lines) = Len(reviews.lines) + 1
      /\ reviews'.lines[Len(reviews.lines) + 1].post = serving[w].post
      /\ StatementsAudited' /\ AnswersAgree'
      /\ \A v \in Workers : serving'[v] = serving[v] => Serves(v)'
  BY AppendKeeps DEF AppendStatement
<1>2. Len(reviews.lines) + 1 \in Nat /\ serving[w] # NoRequest
  BY DEF AppendStatement, AppendReaches, Writing, At, IInv, TypeOK, Files
<1>3. PICK at \in Nat : at = Len(reviews.lines) + 1
  BY <1>2
<1>4. /\ serving' \in [Workers -> Requests \union {NoRequest}]
      /\ \A v \in Workers \ {w} : serving'[v] = serving[v]
      /\ serving'[w].step = "answer" /\ serving'[w].at = at
      /\ serving'[w].post = serving[w].post
      /\ serving'[w].operation = serving[w].operation
      /\ serving'[w].number = serving[w].number
  BY <1>2, <1>3, GotoFields DEF AppendStatement, IInv
<1>5. UNCHANGED <<audit, answers, received, auditCuts>>
  BY DEF AppendStatement
<1>6. Serves(w)'
  <2>1. /\ serving'[w].at \in 1..Len(reviews'.lines)
        /\ reviews'.lines[serving'[w].at].post = serving'[w].post
    <3>1. at \in 1..Len(reviews'.lines)
      BY <1>1, <1>3
    <3>. QED BY <1>1, <1>3, <1>4, <3>1
  <2>. QED BY <1>2, <1>4, <1>5, <2>1 DEF IInv, Serves, Logged, Names
<1>7. ASSUME NEW v \in Workers, serving'[v] # NoRequest
      PROVE  serving'[v].post \in PostsFor(serving'[v].operation)
  <2>1. CASE v = w
    BY <1>2, <1>4, <2>1 DEF IInv, TypeOK
  <2>2. CASE v # w
    BY <1>4, <1>7, <2>2 DEF IInv, TypeOK
  <2>. QED BY <2>1, <2>2
<1>8. TypeOK'
  BY <1>1, <1>4, <1>5, <1>7 DEF IInv, TypeOK
<1>. QED BY <1>1, <1>4, <1>6, <1>8 DEF IInv

LEMMA AppendFailsKeepsIInv ==
  ASSUME ConstantsAssumption, IInv, NEW w \in Workers, AppendFails(w)
  PROVE  IInv'
<1>1. /\ reviews' \in Files(Statements)
      /\ StatementsAudited' /\ AnswersAgree'
      /\ \A v \in Workers : serving'[v] = serving[v] => Serves(v)'
  BY AppendKeeps DEF AppendFails
<1>2. /\ serving' \in [Workers -> Requests \union {NoRequest}]
      /\ serving'[w] = NoRequest
      /\ \A v \in Workers \ {w} : serving'[v] = serving[v]
  BY EndFields DEF AppendFails, IInv
<1>3. UNCHANGED <<audit, answers, received>> /\ auditCuts' \in 0..MaxCuts
  BY DEF AppendFails, IInv, TypeOK, ConstantsAssumption
<1>4. TypeOK'
  BY <1>1, <1>2, <1>3 DEF IInv, TypeOK
<1>5. Serves(w)'
  BY <1>2 DEF Serves
<1>. QED BY <1>1, <1>2, <1>4, <1>5 DEF IInv

LEMMA AnswerKeepsIInv ==
  ASSUME ConstantsAssumption, IInv, NEW w \in Workers, Answer(w)
  PROVE  IInv'
<1>1. /\ serving' \in [Workers -> Requests \union {NoRequest}]
      /\ serving'[w] = NoRequest
      /\ \A v \in Workers \ {w} : serving'[v] = serving[v]
  BY EndFields DEF Answer, IInv
<1>2. serving[w] \in Requests /\ Names(serving[w].at, serving[w].post)
  BY DEF Answer, At, IInv, TypeOK, Serves
<1>3. serving[w].post \in Posts
  <2>1. reviews.lines \in Seq(Statements)
    BY DEF IInv, TypeOK, Files
  <2>2. reviews.lines[serving[w].at] \in Statements
    BY <1>2, <2>1 DEF Names
  <2>. QED BY <1>2, <2>2 DEF Names, Statements
<1>4. UNCHANGED <<audit, reviews, received, auditCuts>>
  BY DEF Answer
<1>5. answers' = answers \union {[post |-> serving[w].post, at |-> serving[w].at]}
  BY DEF Answer
<1>6. answers' \subseteq Answers
  BY <1>2, <1>3, <1>5 DEF IInv, TypeOK, Answers, Requests
<1>7. AnswersAgree'
  BY <1>2, <1>4, <1>5 DEF IInv, AnswersAgree, Names
<1>. QED BY <1>1, <1>4, <1>6, <1>7, ServingKeeps

-----------------------------------------------------------------------------

LEMMA StepIInv ==
  ASSUME ConstantsAssumption, IInv, [Next]_serviceVars
  PROVE  IInv'
<1>1. CASE Next
  BY <1>1, RefuseKeepsIInv, AdmitKeepsIInv, AdmitFailsKeepsIInv, EmitRejectionKeepsIInv,
     FinishKeepsIInv, ReplayKeepsIInv, AppendStatementKeepsIInv, AppendFailsKeepsIInv,
     AnswerKeepsIInv DEF Next
<1>2. CASE UNCHANGED serviceVars
  BY <1>2 DEF serviceVars, IInv, TypeOK, StatementsAudited, AnswersAgree, Serves, Logged,
              Names
<1>. QED BY <1>1, <1>2

LEMMA Invariance ==
  ASSUME ConstantsAssumption
  PROVE  Spec => []IInv
  BY InitIInv, StepIInv, PTL DEF Spec

\* Every reachable state is well typed; in particular a review request keeps
\* the contents it came with.
THEOREM TypeCorrect ==
  ASSUME ConstantsAssumption
  PROVE  Spec => []TypeOK
<1>1. IInv => TypeOK
  BY DEF IInv
<1>. QED BY Invariance, <1>1, PTL

\* The deployment boundary audits what it admits before the application can
\* write anything: no statement is without its audit record, whatever is
\* interrupted.
THEOREM EveryStatementAudited ==
  ASSUME ConstantsAssumption
  PROVE  Spec => []StatementsAudited
<1>1. IInv => StatementsAudited
  BY DEF IInv
<1>. QED BY Invariance, <1>1, PTL

\* A client may repeat its request after a lost answer or a failed write: a
\* key never names two statements, and an answer never another statement.
THEOREM RetriesAgree ==
  ASSUME ConstantsAssumption
  PROVE  Spec => []AnswersAgree
<1>1. IInv => AnswersAgree
  BY DEF IInv
<1>. QED BY Invariance, <1>1, PTL
=============================================================================
