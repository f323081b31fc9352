----------------------------- MODULE ReviewService -----------------------------
(***************************************************************************)
(* The authenticated review service.  The deployment boundary writes a     *)
(* security audit record for each request before the application sees it;  *)
(* the application appends review statements, answers a repeated request   *)
(* with the statement it wrote before, and has some of its rejections      *)
(* audited as well.  Requests are served side by side; the audit journal   *)
(* and the statement store each have a lock, which is held for one append. *)
(*                                                                         *)
(* The digests that chain both files are abstracted to positions: complete *)
(* lines are never removed or changed.  The approval store behind the      *)
(* approval operations is HumanApproval; here they only leave their audit  *)
(* records.                                                                *)
(***************************************************************************)
EXTENDS LineFile

CONSTANTS
  Workers,         \* threads or processes that serve requests
  Keys,            \* Idempotency-Key headers
  Authors,         \* actor_identity_ref
  Reports,         \* report digests
  NoRequest,
  NoPost,
  MaxStatements,   \* bound: statements
  MaxRequests,     \* bound: requests
  MaxCuts          \* bound: appends that are interrupted

Operations == {"review:read", "review:write", "approval:read", "approval:write",
               "approval:revoke", "approval:supersede"}
Events == {"request_admitted", "request_refused", "request_rejected"}

\* The operations that a persisted audit record may name.
Vocabulary == {"review:read", "review:write", "approval:read", "approval:write"}

\* A review request: its key, and what its fingerprint covers, the author,
\* the basis, and the statement it corrects, by position (0: none).
Posts == [key : Keys, author : Authors, report : Reports, corrects : 0..MaxStatements]

\* `request` numbers the requests for the properties.
Statements == [post : Posts, sequence : Nat, request : 1..MaxRequests]
AuditRecords == [event : Events, operation : Operations, request : 1..MaxRequests]

\* Only a review request has a post that matters here.
Requests == [number : 1..MaxRequests, operation : Operations,
             post : Posts \union {NoPost}, step : {"serve", "reject", "answer"}, at : Nat]
Answers == [post : Posts, at : Nat]
PostsFor(operation) == IF operation = "review:write" THEN Posts ELSE {NoPost}

ConstantsAssumption ==
  /\ MaxStatements \in Nat
  /\ MaxRequests \in Nat
  /\ MaxCuts \in Nat
  /\ NoRequest \notin Requests
  /\ NoPost \notin Posts

VARIABLES
  audit,      \* the audit journal
  reviews,    \* the statement store
  serving,    \* the request of each worker, once it is admitted
  answers,    \* the answers that clients have received
  received,   \* requests so far
  auditCuts

serviceVars == <<audit, reviews, serving, answers, received, auditCuts>>

TypeOK ==
  /\ audit \in Files(AuditRecords)
  /\ reviews \in Files(Statements)
  /\ serving \in [Workers -> Requests \union {NoRequest}]
  /\ \A w \in Workers :
       serving[w] # NoRequest => serving[w].post \in PostsFor(serving[w].operation)
  /\ answers \subseteq Answers
  /\ received \in 0..MaxRequests
  /\ auditCuts \in 0..MaxCuts

Init ==
  /\ audit = EmptyFile
  /\ reviews = EmptyFile
  /\ serving = [w \in Workers |-> NoRequest]
  /\ answers = {}
  /\ received = 0
  /\ auditCuts = 0

-----------------------------------------------------------------------------
(* The deployment boundary and its audit journal.                          *)

\* _parse_security_audit_lines, which also every append begins with.
AuditReads ==
  /\ audit.end # "spoiled"
  /\ \A i \in 1..Len(audit.lines) : audit.lines[i].operation \in Vocabulary

Record(event, operation, number) ==
  [event |-> event, operation |-> operation, request |-> number]

Log(event, operation, number) ==
  audit' = Extended(audit, <<Record(event, operation, number)>>)

\* The append stops half-way.
LogCut(event, operation, number) ==
  /\ auditCuts < MaxCuts
  /\ auditCuts' = auditCuts + 1
  /\ audit' \in Interrupted(audit, <<Record(event, operation, number)>>)

Receive(w) ==
  /\ serving[w] = NoRequest
  /\ received < MaxRequests
  /\ received' = received + 1

\* No https, no authentication, no authorization, or no admission.
Refuse(w, operation) ==
  /\ Receive(w)
  /\ AuditReads
  /\ \/ Log("request_refused", operation, received + 1) /\ UNCHANGED auditCuts
     \/ LogCut("request_refused", operation, received + 1)
  /\ UNCHANGED <<reviews, serving, answers>>

Begin(w, operation) ==
  \E post \in PostsFor(operation) :
    serving' = [serving EXCEPT ![w] =
                  [number |-> received + 1, operation |-> operation, post |-> post,
                   step |-> "serve", at |-> 0]]

\* Mutation: an audit journal that cannot be read keeps nobody out.
AdmitUnaudited(w, operation) ==
  /\ Receive(w)
  /\ IF AuditReads THEN Log("request_admitted", operation, received + 1)
     ELSE UNCHANGED audit
  /\ Begin(w, operation)
  /\ UNCHANGED <<reviews, answers, auditCuts>>

\* The record is written before the application is called.
Admit(w, operation) ==
  /\ Receive(w)
  /\ AuditReads
  /\ Log("request_admitted", operation, received + 1)
  /\ Begin(w, operation)
  /\ UNCHANGED <<reviews, answers, auditCuts>>

\* The append fails, and the request with it.
AdmitFails(w, operation) ==
  /\ Receive(w)
  /\ AuditReads
  /\ LogCut("request_admitted", operation, received + 1)
  /\ UNCHANGED <<reviews, serving, answers>>

-----------------------------------------------------------------------------
(* The application.                                                        *)

At(w, step) == serving[w] # NoRequest /\ serving[w].step = step
Goto(w, step, at) == serving' = [serving EXCEPT ![w] = [@ EXCEPT !.step = step, !.at = at]]
End(w) == serving' = [serving EXCEPT ![w] = NoRequest]

\* Reads, approval operations, and every error that is not audited; or the
\* answer is lost, or the process stops.
Finish(w) ==
  /\ serving[w] # NoRequest
  /\ End(w)
  /\ UNCHANGED <<audit, reviews, answers, received, auditCuts>>

\* A write whose basis is stale; an approval lifecycle conflict.
FindRejected(w) ==
  /\ At(w, "serve")
  /\ serving[w].operation \notin {"review:read", "approval:read"}
  /\ Goto(w, "reject", 0)
  /\ UNCHANGED <<audit, reviews, answers, received, auditCuts>>

\* _emit_rejection, outside of the application's error handling.
EmitRejection(w) ==
  /\ At(w, "reject")
  /\ AuditReads
  /\ LET operation == serving[w].operation
         number == serving[w].number
     IN  \/ Log("request_rejected", operation, number) /\ UNCHANGED auditCuts
         \/ LogCut("request_rejected", operation, number)
  /\ End(w)
  /\ UNCHANGED <<reviews, answers, received>>

-----------------------------------------------------------------------------
(* JsonlReviewStatementStore.append, under the store's lock.               *)

ReviewsRead ==
  /\ reviews.end # "spoiled"
  /\ \A i \in 1..Len(reviews.lines) : reviews.lines[i].sequence = i - 1

WithKey(key) == {i \in 1..Len(reviews.lines) : reviews.lines[i].post.key = key}

\* A correction names a statement of the same author on the same report.
Correctable(post) ==
  post.corrects # 0 =>
    /\ post.corrects <= Len(reviews.lines)
    /\ LET old == reviews.lines[post.corrects].post
       IN  old.author = post.author /\ old.report = post.report

Writing(w) ==
  /\ At(w, "serve")
  /\ serving[w].operation = "review:write"
  /\ ReviewsRead

\* Mutation: the key alone decides.
ReplayByKey(w) ==
  /\ Writing(w)
  /\ \E i \in WithKey(serving[w].post.key) : Goto(w, "answer", i)
  /\ UNCHANGED <<audit, reviews, answers, received, auditCuts>>

\* The request was served before: the statement of its key is returned, if
\* the fingerprints agree, and IdempotencyConflictError raised otherwise.
Replay(w) ==
  /\ Writing(w)
  /\ \E i \in WithKey(serving[w].post.key) :
       IF reviews.lines[i].post = serving[w].post
       THEN Goto(w, "answer", i)
       ELSE Goto(w, "reject", 0)
  /\ UNCHANGED <<audit, reviews, answers, received, auditCuts>>

\* ReviewSupersessionError
RejectCorrection(w) ==
  /\ Writing(w)
  /\ WithKey(serving[w].post.key) = {}
  /\ ~Correctable(serving[w].post)
  /\ Goto(w, "reject", 0)
  /\ UNCHANGED <<audit, reviews, answers, received, auditCuts>>

StatementOf(request) ==
  [post |-> request.post, sequence |-> Len(reviews.lines), request |-> request.number]

AppendReaches(w) ==
  /\ Writing(w)
  /\ WithKey(serving[w].post.key) = {}
  /\ Correctable(serving[w].post)
  /\ Len(reviews.lines) < MaxStatements

AppendStatement(w) ==
  /\ AppendReaches(w)
  /\ reviews' = Extended(reviews, <<StatementOf(serving[w])>>)
  /\ Goto(w, "answer", Len(reviews.lines) + 1)
  /\ UNCHANGED <<audit, answers, received, auditCuts>>

\* The write fails or the process stops; the statement may be there.
AppendFails(w) ==
  /\ AppendReaches(w)
  /\ auditCuts < MaxCuts
  /\ auditCuts' = auditCuts + 1
  /\ reviews' \in Interrupted(reviews, <<StatementOf(serving[w])>>)
  /\ End(w)
  /\ UNCHANGED <<audit, answers, received>>

\* 201 or 200, with the statement.
Answer(w) ==
  /\ At(w, "answer")
  /\ answers' = answers \union {[post |-> serving[w].post, at |-> serving[w].at]}
  /\ End(w)
  /\ UNCHANGED <<audit, reviews, received, auditCuts>>

Next ==
  \E w \in Workers :
    \/ \E operation \in Operations :
         Refuse(w, operation) \/ Admit(w, operation) \/ AdmitFails(w, operation)
    \/ Finish(w) \/ FindRejected(w) \/ EmitRejection(w)
    \/ Replay(w) \/ RejectCorrection(w)
    \/ AppendStatement(w) \/ AppendFails(w) \/ Answer(w)

Spec == Init /\ [][Next]_serviceVars
-----------------------------------------------------------------------------
(* Properties.                                                             *)

\* "Persisted events remain ordered and hash-linked": what the sink has
\* accepted, and wrote completely, can be read back.
AuditReadable == auditCuts = 0 => AuditReads

\* Every statement was written for a request that the audit journal shows
\* as admitted, wherever an append of either file was interrupted.
StatementsAudited ==
  \A i \in 1..Len(reviews.lines) :
    \E j \in 1..Len(audit.lines) :
      audit.lines[j] = Record("request_admitted", "review:write", reviews.lines[i].request)

\* A key names one statement, however often its request is repeated and
\* wherever an answer or a write was lost; and every answer that a client
\* received names that statement, with exactly the contents it had sent.
AnswersAgree ==
  /\ \A i, j \in 1..Len(reviews.lines) :
       reviews.lines[i].post.key = reviews.lines[j].post.key => i = j
  /\ \A answer \in answers :
       /\ answer.at \in 1..Len(reviews.lines)
       /\ reviews.lines[answer.at].post = answer.post
=============================================================================
