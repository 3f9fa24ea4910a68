---------------------------- MODULE PaymentAPI_proofs ----------------------------
(***************************************************************************)
(* Theorems about the requests of PaymentAPI, for any number of them:      *)
(* behind its handlers the workflows behave as PaymentWorkflow says, and   *)
(* what a client is told stays true of the workflow, the row and the log.  *)
(***************************************************************************)
EXTENDS PaymentAPI, PaymentWorkflow_proofs, FiniteSetTheorems

USE RequestsAssumption, ConstantsAssumption

(***************************************************************************)
(* The requests: what each of them is about and what it may still answer.  *)
(***************************************************************************)

Returns == [code : RCodes \cup {NoCode}, cents : Nat]

Fresh == { "idle", "insert", "start", "roundtrip", "signal", "row", "log" }

RequestType ==
  /\ handler \in [Requests -> Fresh \cup { "answered" }]
  /\ kind \in [Requests -> { "none", "create", "return", "status", "audit" }]
  /\ about \in [Requests -> Payments \cup {NoPayment}]
  /\ argument \in [Requests -> Returns]
  /\ answer \in [Requests -> { 0, 200, 201, 404, 500 }]
  /\ DOMAIN seen = Requests
  /\ DOMAIN logged = Requests

\* A request answers once, as its endpoint does, and is about one payment.
CallAt(r) ==
  /\ handler[r] # "idle" => about[r] \in Payments
  /\ handler[r] # "answered" => answer[r] = 0
  /\ handler[r] \in { "insert", "start" } => kind[r] = "create"
  /\ handler[r] \in { "roundtrip", "signal" } =>
       kind[r] = "return" /\ argument[r].code \in RCodes
  /\ handler[r] = "row" => kind[r] \in { "status", "audit" }
  /\ handler[r] = "log" => kind[r] = "audit"

CallInv == RequestType /\ \A r \in Requests : CallAt(r)

\* What a step does not touch of a request.
SameRequest(s) ==
  /\ handler'[s] = handler[s] /\ kind'[s] = kind[s] /\ about'[s] = about[s]
  /\ argument'[s] = argument[s] /\ answer'[s] = answer[s]
  /\ seen'[s] = seen[s] /\ logged'[s] = logged[s]

LEMMA CallInit == AInit => CallInv
BY DEF AInit, CallInv, RequestType, CallAt, Fresh, Returns, NoArgument

\* The calls of the handlers, one request at a time.
Receives(r) ==
  \E p \in Payments :
    \/ ReceiveCreate(r, p)
    \/ \E code \in RCodes, cents \in ReturnCents :
         ReceiveReturnRequest(r, p, code, cents)
    \/ \E k \in {"status", "audit"} : ReceiveGet(r, p, k)

LEMMA ReceiveStep ==
  ASSUME CallInv, NEW r \in Requests, Receives(r)
  PROVE  /\ CallInv'
         /\ handler[r] = "idle" /\ answer' = answer
         /\ UNCHANGED << vars, seen, logged >>
         /\ \A s \in Requests \ {r} : SameRequest(s)
         /\ handler'[r] \notin { "signal", "log" }
<1>1. PICK p \in Payments, arg \in Returns,
           k \in { "create", "return", "status", "audit" },
           call \in { "insert", "roundtrip", "row" } :
        /\ Accept(r, k, p, arg, call)
        /\ call = "insert" => k = "create"
        /\ call = "roundtrip" => k = "return" /\ arg.code \in RCodes
        /\ call = "row" => k \in {"status", "audit"}
  <2>1. ASSUME NEW p \in Payments, ReceiveCreate(r, p)
        PROVE  Accept(r, "create", p, NoArgument, "insert")
    BY <2>1 DEF ReceiveCreate
  <2>2. ASSUME NEW p \in Payments, NEW code \in RCodes, NEW cents \in ReturnCents,
               ReceiveReturnRequest(r, p, code, cents)
        PROVE  /\ Accept(r, "return", p, [code |-> code, cents |-> cents],
                         "roundtrip")
               /\ [code |-> code, cents |-> cents] \in Returns
    BY <2>2 DEF ReceiveReturnRequest, Returns
  <2>3. ASSUME NEW p \in Payments, NEW k \in {"status", "audit"},
               ReceiveGet(r, p, k)
        PROVE  Accept(r, k, p, NoArgument, "row")
    BY <2>3 DEF ReceiveGet
  <2>4. NoArgument \in Returns BY DEF NoArgument, Returns
  <2> QED BY <2>1, <2>2, <2>3, <2>4 DEF Receives
<1>2. /\ handler[r] = "idle" /\ answer' = answer
      /\ UNCHANGED << vars, seen, logged >>
  BY <1>1 DEF Accept
<1>3. \A s \in Requests \ {r} : SameRequest(s)
  BY <1>1 DEF Accept, SameRequest, CallInv, RequestType
<1>4. RequestType'
  BY <1>1, <1>2 DEF Accept, CallInv, RequestType, Fresh
<1>5. /\ handler'[r] = call /\ kind'[r] = k /\ about'[r] = p
      /\ argument'[r] = arg /\ answer'[r] = 0
  BY <1>1, <1>2 DEF Accept, CallInv, RequestType, CallAt
<1>6. CallAt(r)' BY <1>1, <1>5 DEF CallAt
<1>7. \A s \in Requests \ {r} : CallAt(s)'
  BY <1>3 DEF CallInv, CallAt, SameRequest
<1>8. CallInv' BY <1>4, <1>6, <1>7 DEF CallInv
<1> QED BY <1>2, <1>3, <1>5, <1>8

\* What a call of request r does: to the payment one thing its endpoint is
\* there for or nothing, and to the request what its answer tells.
Calls(r) ==
  \/ UNCHANGED vars
  \/ handler[r] = "insert" /\ CreatePayment(about[r])
  \/ handler[r] = "start" /\ ExecuteWorkflow(about[r])
  \/ handler[r] = "signal" /\ PostReturn(about[r], argument[r].code)

Tells(r) ==
  /\ answer'[r] = 201 =>
       handler[r] = "start" /\ ExecuteWorkflow(about[r])
  /\ handler'[r] = "signal" =>
       /\ handler[r] = "roundtrip"
       /\ argument[r].cents % FieldLimit = argument[r].cents
  /\ answer'[r] = 200 /\ kind[r] = "return" =>
       handler[r] = "signal" /\ PostReturn(about[r], argument[r].code)
  /\ handler'[r] = "log" \/ (answer'[r] = 200 /\ kind[r] = "status") =>
       /\ UNCHANGED vars
       /\ row[about[r]] # NoRow
       /\ seen'[r] = row[about[r]].state
  /\ answer'[r] = 200 /\ kind[r] = "audit" =>
       handler[r] = "log" /\ ReadLog(r)

LEMMA HandleStep ==
  ASSUME CallInv, NEW r \in Requests, Handle(r)
  PROVE  /\ RequestType' /\ CallAt(r)'
         /\ handler[r] \notin { "idle", "answered" }
         /\ UNCHANGED << kind, about, argument >>
         /\ \A s \in Requests \ {r} : SameRequest(s)
         /\ Calls(r) /\ Tells(r)
<1> DEFINE Goal ==
      /\ RequestType' /\ CallAt(r)'
      /\ handler[r] \notin { "idle", "answered" }
      /\ UNCHANGED << kind, about, argument >>
      /\ \A s \in Requests \ {r} : SameRequest(s)
      /\ Calls(r) /\ Tells(r)
<1> USE DEF Calls, Tells, CallAt, CallInv
<1>1. ASSUME CallFails(r) PROVE Goal
  <2>1. RequestType' /\ \A s \in Requests \ {r} : SameRequest(s)
    BY <1>1 DEF CallFails, Answer, RequestType, SameRequest
  <2>2. handler'[r] = "answered" /\ answer'[r] = 500
    BY <1>1 DEF CallFails, Answer, RequestType
  <2> QED BY <1>1, <2>1, <2>2 DEF CallFails
<1>2. ASSUME InsertPayment(r) PROVE Goal
  <2>1. RequestType' /\ \A s \in Requests \ {r} : SameRequest(s)
    BY <1>2 DEF InsertPayment, Answer, RequestType, SameRequest, Fresh
  <2>2. \/ handler'[r] = "start" /\ answer'[r] = 0
        \/ handler'[r] = "answered" /\ answer'[r] = 500
    BY <1>2 DEF InsertPayment, Answer, RequestType
  <2> QED BY <1>2, <2>1, <2>2 DEF InsertPayment
<1>3. ASSUME StartWorkflow(r) PROVE Goal
  <2>1. RequestType' /\ \A s \in Requests \ {r} : SameRequest(s)
    BY <1>3 DEF StartWorkflow, Answer, RequestType, SameRequest
  <2>2. handler'[r] = "answered" /\ answer'[r] \in { 201, 500 }
    BY <1>3 DEF StartWorkflow, Answer, RequestType
  <2> QED BY <1>3, <2>1, <2>2 DEF StartWorkflow
<1>4. ASSUME RoundTrip(r) PROVE Goal
  <2>1. RequestType' /\ \A s \in Requests \ {r} : SameRequest(s)
    BY <1>4 DEF RoundTrip, Answer, RequestType, SameRequest, Fresh
  <2>2. \/ /\ handler'[r] = "signal" /\ answer'[r] = 0
           /\ argument[r].cents % FieldLimit = argument[r].cents
        \/ handler'[r] = "answered" /\ answer'[r] = 500
    BY <1>4 DEF RoundTrip, Answer, RequestType
  <2> QED BY <1>4, <2>1, <2>2 DEF RoundTrip
<1>5. ASSUME SignalWorkflow(r) PROVE Goal
  <2>1. RequestType' /\ \A s \in Requests \ {r} : SameRequest(s)
    BY <1>5 DEF SignalWorkflow, Answer, RequestType, SameRequest
  <2>2. /\ handler'[r] = "answered" /\ answer'[r] \in { 200, 500 }
        /\ answer'[r] = 200 => PostReturn(about[r], argument[r].code)
    BY <1>5 DEF SignalWorkflow, Answer, RequestType
  <2>3. PostReturn(about[r], argument[r].code) \/ UNCHANGED vars
    BY <1>5 DEF SignalWorkflow
  <2> QED BY <1>5, <2>1, <2>2, <2>3 DEF SignalWorkflow
<1>6. ASSUME ReadRow(r) PROVE Goal
  <2>1. \/ row[about[r]] = NoRow /\ Answer(r, 404)
        \/ /\ row[about[r]] # NoRow /\ kind[r] = "status" /\ Answer(r, 200)
        \/ /\ row[about[r]] # NoRow /\ kind[r] # "status"
           /\ handler' = [handler EXCEPT ![r] = "log"] /\ UNCHANGED answer
    BY <1>6 DEF ReadRow
  <2>2. RequestType' /\ \A s \in Requests \ {r} : SameRequest(s)
    BY <1>6, <2>1 DEF ReadRow, Answer, RequestType, SameRequest, Fresh
  <2>3. \/ handler'[r] = "answered" /\ answer'[r] = 404
        \/ /\ handler'[r] = "answered" /\ answer'[r] = 200
           /\ row[about[r]] # NoRow /\ kind[r] = "status"
        \/ /\ handler'[r] = "log" /\ answer'[r] = 0
           /\ row[about[r]] # NoRow /\ kind[r] = "audit"
    BY <1>6, <2>1 DEF ReadRow, Answer, RequestType
  <2>4. seen'[r] = row[about[r]].state
    BY <1>6 DEF ReadRow, RequestType
  <2>5. /\ handler[r] = "row"
        /\ UNCHANGED << vars, kind, about, argument >>
    BY <1>6 DEF ReadRow
  <2> QED BY <2>2, <2>3, <2>4, <2>5
<1>7. ASSUME ReadLog(r) PROVE Goal
  <2>1. handler[r] = "log" /\ Answer(r, 200)
        /\ UNCHANGED << vars, kind, about, argument, seen >>
    BY <1>7 DEF ReadLog
  <2>2. logged' = [logged EXCEPT ![r] = Entries(about[r])]
    BY <1>7 DEF ReadLog
  <2>3. RequestType' /\ \A s \in Requests \ {r} : SameRequest(s)
    BY <2>1, <2>2 DEF Answer, RequestType, SameRequest
  <2>4. handler'[r] = "answered" /\ answer'[r] = 200
    BY <2>1 DEF Answer, RequestType
  <2> QED BY <1>7, <2>1, <2>3, <2>4
<1> QED
  BY <1>1, <1>2, <1>3, <1>4, <1>5, <1>6, <1>7 DEF Handle

LEMMA OthersKept ==
  ASSUME CallInv, NEW r \in Requests, RequestType', CallAt(r)',
         \A s \in Requests \ {r} : SameRequest(s)
  PROVE  CallInv'
BY DEF CallInv, CallAt, SameRequest

\* The steps of ANext, for the proofs to come.
LEMMA RequestSteps ==
  ASSUME [ANext]_apivars
  PROVE  \/ \E r \in Requests : Receives(r)
         \/ \E r \in Requests : Handle(r)
         \/ \E p \in Payments :
              (WorkflowStep(p) \/ LateStep(p)) /\ UNCHANGED requests
         \/ UNCHANGED apivars
BY DEF ANext, Receives

LEMMA CallStep == CallInv /\ [ANext]_apivars => CallInv'
<1> SUFFICES ASSUME CallInv, [ANext]_apivars PROVE CallInv'
  OBVIOUS
<1>1. ASSUME NEW r \in Requests, Receives(r) PROVE CallInv'
  BY <1>1, ReceiveStep
<1>2. ASSUME NEW r \in Requests, Handle(r) PROVE CallInv'
  BY <1>2, HandleStep, OthersKept
<1>3. ASSUME UNCHANGED requests PROVE CallInv'
  BY <1>3 DEF requests, CallInv, RequestType, CallAt
<1> QED
  BY <1>1, <1>2, <1>3, RequestSteps DEF apivars

(***************************************************************************)
(* The refinement: every call a handler makes is a step of PaymentWorkflow *)
(* or none, so what PaymentWorkflow_proofs shows holds behind the API.     *)
(***************************************************************************)

LEMMA RequestsAct == CallInv /\ [ANext]_apivars => [Next]_vars
<1> SUFFICES ASSUME CallInv, [ANext]_apivars PROVE [Next]_vars
  OBVIOUS
<1>1. ASSUME NEW r \in Requests, Receives(r) PROVE UNCHANGED vars
  BY <1>1, ReceiveStep
<1>2. ASSUME NEW r \in Requests, Handle(r) PROVE [Next]_vars
  <2>1. Calls(r) /\ handler[r] # "idle" BY <1>2, HandleStep
  <2>2. about[r] \in Payments BY <2>1 DEF CallInv, CallAt
  <2>3. handler[r] = "signal" => argument[r].code \in RCodes
    BY DEF CallInv, CallAt
  <2> QED BY <2>1, <2>2, <2>3 DEF Calls, Next
<1>3. ASSUME NEW p \in Payments, WorkflowStep(p) \/ LateStep(p) PROVE Next
  BY <1>3 DEF Next
<1> QED
  BY <1>1, <1>2, <1>3, RequestSteps DEF apivars

\* The requests add no behaviour to the workflows: hiding them, PaymentAPI
\* implements PaymentWorkflow.
THEOREM RequestsImplementWorkflow == ASpec => Spec
<1>1. AInit => Init BY DEF AInit
<1> QED BY <1>1, CallInit, CallStep, RequestsAct, PTL DEF ASpec, Spec

(***************************************************************************)
(* What is told stays true: a started workflow is never not started, and   *)
(* the count of accepted signals never falls.                              *)
(***************************************************************************)

NotStarted == { "absent", "created" }

\* Where an activity of the workflow leaves it.
LEMMA ActivityPcs ==
  ASSUME TypeOK, NEW p \in Payments
  PROVE  /\ \A point \in Points \ NotStarted :
              Return(p, point) =>
                \A q \in Payments : pc'[q] \in NotStarted => pc[q] \in NotStarted
         /\ Retry(p) =>
              \A q \in Payments : pc'[q] \in NotStarted => pc[q] \in NotStarted
<1>1. pc \in [Payments -> Points] BY DEF TypeOK
<1>2. ASSUME Retry(p), NEW q \in Payments, pc'[q] \in NotStarted
      PROVE  pc[q] \in NotStarted
  <2>1. pc' = pc \/ pc' = [pc EXCEPT ![p] = "failed"] BY <1>2 DEF Retry
  <2> QED BY <1>1, <1>2, <2>1 DEF NotStarted
<1>3. ASSUME NEW point \in Points \ NotStarted, Return(p, point)
      PROVE  \A q \in Payments : pc'[q] \in NotStarted => pc[q] \in NotStarted
  BY <1>1, <1>3 DEF Return
<1> QED BY <1>2, <1>3

LEMMA StartedStays ==
  ASSUME TypeOK, [Next]_vars, NEW q \in Payments
  PROVE  /\ pc'[q] \in NotStarted => pc[q] \in NotStarted
         /\ accepted'[q] >= accepted[q]
<1> DEFINE Goal == /\ pc'[q] \in NotStarted => pc[q] \in NotStarted
                   /\ accepted'[q] >= accepted[q]
<1>1. pc \in [Payments -> Points] BY DEF TypeOK
<1>2. accepted \in [Payments -> Nat] BY DEF TypeOK
<1>3. ASSUME UNCHANGED accepted, pc'[q] \in NotStarted => pc[q] \in NotStarted
      PROVE  Goal
  BY <1>2, <1>3
<1>4. ASSUME NEW p \in Payments,
             CreatePayment(p) \/ ExecuteWorkflow(p)
      PROVE  Goal
  <2>1. UNCHANGED accepted
    BY <1>4 DEF CreatePayment, ExecuteWorkflow, signals
  <2>2. \/ pc[p] = "absent" /\ pc' = [pc EXCEPT ![p] = "created"]
        \/ pc' = [pc EXCEPT ![p] = "pending"]
    BY <1>4 DEF CreatePayment, ExecuteWorkflow
  <2> QED BY <1>1, <1>3, <2>1, <2>2 DEF NotStarted
<1>5. ASSUME NEW p \in Payments, NEW code \in RCodes, PostReturn(p, code)
      PROVE  Goal
  <2>1. UNCHANGED pc /\ accepted' = [accepted EXCEPT ![p] = @ + 1]
    BY <1>5 DEF PostReturn
  <2> QED BY <1>2, <2>1
<1>6. ASSUME NEW p \in Payments, WorkflowStep(p) PROVE Goal
  <2>1. UNCHANGED accepted
    BY <1>6 DEF WorkflowStep, PersistRead, PersistCommit, FailAttempt,
                GenerateTraceNumber, CheckIdempotency, StoreTraceNumber,
                SubmitToACH, ReceiveReturn, SettlementTimer, WakeUp, signals
  <2>2. AfterPersist(p) \in Points \ NotStarted
    BY DEF AfterPersist, Points, Running, ActivityPoints, PersistPoints, NotStarted
  <2>3. AfterCheck(p) \in Points \ NotStarted
    BY DEF AfterCheck, Points, Running, ActivityPoints, NotStarted
  <2>4. { "submitted", "wait" } \subseteq Points \ NotStarted
    BY DEF Points, Running, ActivityPoints, PersistPoints, NotStarted
  <2>5. \/ \E point \in Points \ NotStarted : Return(p, point)
        \/ Retry(p)
        \/ UNCHANGED pc
        \/ \E point \in { "check", "returned", "settled", "round" } :
             pc' = [pc EXCEPT ![p] = point]
    <3>1. PersistRead(p) => Transitioned(p) \/ Retry(p) \/ UNCHANGED pc
      BY DEF PersistRead
    <3>2. PersistCommit(p) => Transitioned(p) \/ Retry(p)
      BY DEF PersistCommit
    <3>3. Transitioned(p) => Return(p, AfterPersist(p))
      BY DEF Transitioned
    <3>4. FailAttempt(p) => Retry(p) BY DEF FailAttempt
    <3>5. CheckIdempotency(p) => Return(p, AfterCheck(p))
      BY DEF CheckIdempotency
    <3>6. StoreTraceNumber(p) => Return(p, "submitted") \/ Retry(p)
      BY DEF StoreTraceNumber
    <3>7. SubmitToACH(p) => Return(p, "wait") \/ Retry(p)
      BY DEF SubmitToACH
    <3>8. GenerateTraceNumber(p) => pc' = [pc EXCEPT ![p] = "check"]
      BY DEF GenerateTraceNumber
    <3>9. ReceiveReturn(p) => pc' = [pc EXCEPT ![p] = "returned"]
      BY DEF ReceiveReturn
    <3>10. SettlementTimer(p) => pc' = [pc EXCEPT ![p] = "settled"]
      BY DEF SettlementTimer
    <3>11. WakeUp(p) => pc' = [pc EXCEPT ![p] = "round"]
      BY DEF WakeUp
    <3> QED
      BY <1>6, <2>2, <2>3, <2>4, <3>1, <3>2, <3>3, <3>4, <3>5, <3>6, <3>7,
         <3>8, <3>9, <3>10, <3>11 DEF WorkflowStep
  <2>6. pc'[q] \in NotStarted => pc[q] \in NotStarted
    BY <1>1, <2>5, ActivityPcs DEF NotStarted
  <2> QED BY <1>3, <2>1, <2>6
<1>7. ASSUME NEW p \in Payments, LateStep(p) PROVE Goal
  BY <1>3, <1>7 DEF LateStep, LateCommit, LateSubmit, signals
<1>8. ASSUME UNCHANGED vars PROVE Goal
  BY <1>3, <1>8 DEF vars, signals
<1> QED BY <1>4, <1>5, <1>6, <1>7, <1>8 DEF Next

\* CreatedMeansStarted, for every request by itself.
ToldCreated(r) == answer[r] = 201 => pc[about[r]] \notin NotStarted

APIInv == TypeInv /\ CallInv

LEMMA APIInvariant == ASpec => []APIInv
<1>1. AInit => APIInv BY CallInit, TypeInit DEF AInit, APIInv
<1>2. APIInv /\ [ANext]_apivars => APIInv'
  BY CallStep, RequestsAct, TypeStep DEF APIInv
<1> QED BY <1>1, <1>2, PTL DEF ASpec

LEMMA ToldCreatedStep ==
  APIInv /\ (\A r \in Requests : ToldCreated(r)) /\ [ANext]_apivars
    => (\A r \in Requests : ToldCreated(r))'
<1> SUFFICES ASSUME APIInv, \A r \in Requests : ToldCreated(r),
                    [ANext]_apivars, NEW r \in Requests, answer'[r] = 201
             PROVE  pc'[about'[r]] \notin NotStarted
  BY DEF ToldCreated
<1> USE DEF APIInv
<1>1. [Next]_vars BY RequestsAct
<1>2. ASSUME answer[r] = 201, about'[r] = about[r], about[r] \in Payments
      PROVE  pc'[about'[r]] \notin NotStarted
  BY <1>1, <1>2, StartedStays DEF ToldCreated, TypeInv
<1>3. answer[r] = 201 => about[r] \in Payments
  BY DEF CallInv, CallAt
<1>4. ASSUME NEW s \in Requests, Receives(s)
      PROVE  pc'[about'[r]] \notin NotStarted
  <2>1. CASE r # s
    BY <1>2, <1>3, <1>4, <2>1, ReceiveStep DEF SameRequest
  <2>2. CASE r = s
    <3>1. answer'[r] = answer[r] /\ handler[r] = "idle"
      BY <1>4, <2>2, ReceiveStep
    <3> QED BY <3>1 DEF CallInv, CallAt
  <2> QED BY <2>1, <2>2
<1>5. ASSUME NEW s \in Requests, Handle(s)
      PROVE  pc'[about'[r]] \notin NotStarted
  <2>1. CASE r # s
    BY <1>2, <1>3, <1>5, <2>1, HandleStep DEF SameRequest
  <2>2. CASE r = s
    <3>1. about'[r] = about[r] /\ ExecuteWorkflow(about[r])
      BY <1>5, <2>2, HandleStep DEF Tells
    <3>2. about[r] \in Payments
      BY <1>5, <2>2, HandleStep DEF CallInv, CallAt
    <3>3. pc'[about[r]] = "pending"
      BY <3>1, <3>2 DEF ExecuteWorkflow, TypeInv, TypeOK
    <3> QED BY <3>1, <3>3 DEF NotStarted
  <2> QED BY <2>1, <2>2
<1>6. ASSUME UNCHANGED requests
      PROVE  pc'[about'[r]] \notin NotStarted
  BY <1>2, <1>3, <1>6 DEF requests
<1> QED BY <1>4, <1>5, <1>6, RequestSteps DEF apivars

\* handlers.go 201-227: a client that was told 201 has a payment whose
\* workflow was started, whatever failed around it.
THEOREM CreatedIsStarted == ASpec => []CreatedMeansStarted
<1> DEFINE Inv == \A r \in Requests : ToldCreated(r)
<1>1. AInit => Inv BY DEF AInit, ToldCreated
<1>2. APIInv /\ Inv /\ [ANext]_apivars => Inv' BY ToldCreatedStep
<1>3. Inv => CreatedMeansStarted
  BY DEF CreatedMeansStarted, Answered, ToldCreated, NotStarted
<1> HIDE DEF Inv
<1> QED BY <1>1, <1>2, <1>3, APIInvariant, PTL DEF ASpec

(***************************************************************************)
(* Every return answered 200 has a signal of its own: the request that is  *)
(* answered joins the answered ones in the step that accepts its signal.   *)
(***************************************************************************)

Told(p) == Answered("return", 200, p)

ToldReturns(p) ==
  /\ IsFiniteSet(Told(p))
  /\ Cardinality(Told(p)) <= accepted[p]

CameBack(r) ==
  handler[r] = "signal" \/ (kind[r] = "return" /\ answer[r] = 200) =>
    argument[r].cents < FieldLimit

ReturnsInv ==
  /\ \A p \in Payments : ToldReturns(p)
  /\ \A r \in Requests : CameBack(r)

LEMMA ToldKept ==
  ASSUME APIInv, [Next]_vars, NEW p \in Payments, ToldReturns(p), Told(p)' = Told(p)
  PROVE  ToldReturns(p)'
<1>1. accepted'[p] >= accepted[p] BY StartedStays DEF APIInv, TypeInv
<1>2. accepted[p] \in Nat /\ accepted'[p] \in Nat
  BY TypeStep DEF APIInv, TypeInv, TypeOK
<1>3. Cardinality(Told(p)) \in Nat BY FS_CardinalityType DEF ToldReturns
<1> QED BY <1>1, <1>2, <1>3 DEF ToldReturns

LEMMA ReturnsStep == APIInv /\ ReturnsInv /\ [ANext]_apivars => ReturnsInv'
<1> SUFFICES ASSUME APIInv, ReturnsInv, [ANext]_apivars
             PROVE  ReturnsInv'
  OBVIOUS
<1>1. [Next]_vars BY RequestsAct DEF APIInv
<1> USE DEF APIInv
<1>2. ASSUME NEW s \in Requests, Receives(s) PROVE ReturnsInv'
  <2>1. answer'[s] # 200 /\ answer[s] # 200
    BY <1>2, ReceiveStep DEF CallInv, CallAt
  <2>2. ASSUME NEW p \in Payments PROVE Told(p)' = Told(p)
    BY <1>2, <2>1, ReceiveStep DEF Told, Answered, SameRequest
  <2>3. \A r \in Requests : CameBack(r)'
    BY <1>2, <2>1, ReceiveStep DEF ReturnsInv, CameBack, SameRequest
  <2> QED BY <1>1, <2>2, <2>3, ToldKept DEF ReturnsInv
<1>3. ASSUME NEW s \in Requests, Handle(s) PROVE ReturnsInv'
  <2>1. /\ handler[s] \notin { "idle", "answered" }
        /\ UNCHANGED << kind, about, argument >>
        /\ \A r \in Requests \ {s} : SameRequest(r)
        /\ Tells(s) /\ Calls(s)
    BY <1>3, HandleStep
  <2>2. answer[s] = 0 /\ about[s] \in Payments BY <2>1 DEF CallInv, CallAt
  <2>3. \A r \in Requests \ {s} : answer'[r] = answer[r] /\ handler'[r] = handler[r]
    BY <2>1 DEF SameRequest
  <2>4. \A r \in Requests : CameBack(r)'
    <3>1. \A r \in Requests \ {s} : CameBack(r)'
      BY <2>1, <2>3 DEF ReturnsInv, CameBack
    <3>2. handler'[s] = "signal" => argument[s].cents < FieldLimit
      <4>1. argument[s].cents \in Nat BY DEF CallInv, RequestType, Returns
      <4>2. argument[s].cents % FieldLimit < FieldLimit
        BY <4>1
      <4> QED BY <2>1, <4>2 DEF Tells
    <3>3. kind[s] = "return" /\ answer'[s] = 200 => handler[s] = "signal"
      BY <2>1 DEF Tells
    <3>4. CameBack(s)'
      BY <2>1, <3>2, <3>3 DEF ReturnsInv, CameBack
    <3> QED BY <3>1, <3>4
  <2>5. CASE kind[s] = "return" /\ answer'[s] = 200
    <3>1. PostReturn(about[s], argument[s].code) BY <2>1, <2>5 DEF Tells
    <3>2. ASSUME NEW p \in Payments, p # about[s] PROVE Told(p)' = Told(p)
      BY <2>1, <2>3, <3>2 DEF Told, Answered
    <3>3. /\ Told(about[s])' = Told(about[s]) \cup {s}
          /\ s \notin Told(about[s])
      BY <2>1, <2>2, <2>3, <2>5 DEF Told, Answered
    <3>4. accepted'[about[s]] = accepted[about[s]] + 1
      BY <2>2, <3>1 DEF PostReturn, TypeInv, TypeOK
    <3>5. ToldReturns(about[s]) BY <2>2 DEF ReturnsInv
    <3>6. /\ IsFiniteSet(Told(about[s]) \cup {s})
          /\ Cardinality(Told(about[s]) \cup {s})
               = Cardinality(Told(about[s])) + 1
      BY <3>3, <3>5, FS_AddElement DEF ToldReturns
    <3>7. accepted[about[s]] \in Nat BY <2>2 DEF TypeInv, TypeOK
    <3>8. Cardinality(Told(about[s])) \in Nat
      BY <3>5, FS_CardinalityType DEF ToldReturns
    <3>9. ToldReturns(about[s])'
      <4>1. about'[s] = about[s] BY <2>1
      <4>2. /\ IsFiniteSet(Told(about[s]))'
            /\ Cardinality(Told(about[s]))' <= accepted'[about[s]]
        BY <3>3, <3>4, <3>5, <3>6, <3>7, <3>8, <4>1 DEF ToldReturns
      <4> QED BY <4>1, <4>2 DEF ToldReturns
    <3> QED BY <1>1, <2>1, <2>4, <3>2, <3>9, ToldKept DEF ReturnsInv
  <2>6. CASE ~ (kind[s] = "return" /\ answer'[s] = 200)
    <3>1. ASSUME NEW p \in Payments PROVE Told(p)' = Told(p)
      BY <2>1, <2>2, <2>3, <2>6 DEF Told, Answered
    <3> QED BY <1>1, <2>4, <3>1, ToldKept DEF ReturnsInv
  <2> QED BY <2>5, <2>6
<1>4. ASSUME UNCHANGED requests PROVE ReturnsInv'
  <2>1. ASSUME NEW p \in Payments PROVE Told(p)' = Told(p)
    BY <1>4 DEF requests, Told, Answered
  <2>2. \A r \in Requests : CameBack(r)'
    BY <1>4 DEF requests, ReturnsInv, CameBack
  <2> QED BY <1>1, <2>1, <2>2, ToldKept DEF ReturnsInv
<1> QED BY <1>2, <1>3, <1>4, RequestSteps DEF apivars

LEMMA ReturnsInit == AInit => ReturnsInv
<1> SUFFICES ASSUME AInit PROVE ReturnsInv
  OBVIOUS
<1>1. ASSUME NEW p \in Payments PROVE ToldReturns(p)
  <2>1. Told(p) = {} BY DEF AInit, Told, Answered
  <2>2. accepted[p] = 0 BY DEF AInit, Init
  <2> QED BY <2>1, <2>2, FS_EmptySet DEF ToldReturns
<1>2. \A r \in Requests : CameBack(r) BY DEF AInit, CameBack
<1> QED BY <1>1, <1>2 DEF ReturnsInv

\* handlers.go 291-307: as many signals were accepted for a payment as
\* returns were answered 200, each for an amount the file brought back.
THEOREM ReturnsAreAccepted == ASpec => []AnsweredReturnsAccepted
<1>1. ReturnsInv => AnsweredReturnsAccepted
  <2> SUFFICES ASSUME ReturnsInv, NEW p \in Payments
               PROVE  /\ Cardinality(Told(p)) <= accepted[p]
                      /\ \A r \in Told(p) : argument[r].cents < FieldLimit
    BY DEF AnsweredReturnsAccepted, Told
  <2>1. \A r \in Told(p) : argument[r].cents < FieldLimit
    BY DEF ReturnsInv, CameBack, Told, Answered
  <2> QED BY <2>1 DEF ReturnsInv, ToldReturns
<1> QED BY <1>1, ReturnsInit, ReturnsStep, APIInvariant, PTL DEF ASpec

(***************************************************************************)
(* What a reader is told.  The log is only appended to, and every entry    *)
(* begins in a state the row had when the attempt read it, INITIATED or    *)
(* the end of an earlier entry, however late the attempt writes.           *)
(***************************************************************************)

\* What is known of a payment: its log explains the state of the row, the
\* state the running attempt read and those the abandoned ones read.
KnownAt(p) ==
  /\ row[p].state = NoState => row[p] = NoRow
  /\ row[p].state # NoState => Explained(row[p].state, Entries(p))
  /\ snapshot[p] # NoState => Explained(snapshot[p], Entries(p))
  /\ \A write \in late[p] : Explained(write.from, Entries(p))
  /\ \A entry \in Entries(p) : Explained(entry.from, Entries(p))

KnownInv == \A p \in Payments : KnownAt(p)

\* An explanation stays one when the log grows.
LEMMA ExplainedStays ==
  ASSUME NEW state, NEW log, NEW longer, log \subseteq longer,
         Explained(state, log)
  PROVE  Explained(state, longer)
BY DEF Explained

\* The transaction adds its entry to the log of its payment.
LEMMA EntryWritten ==
  ASSUME TypeOK, NEW p \in Payments, NEW from, NEW to, WriteState(p, from, to)
  PROVE  /\ Entries(p)' = Entries(p) \cup { [from |-> from, to |-> to] }
         /\ \A q \in Payments \ {p} : row'[q] = row[q] /\ audit'[q] = audit[q]
<1>1. audit'[p] = Append(audit[p], [from |-> from, to |-> to])
  BY DEF WriteState, TypeOK
<1>2. PICK n \in Nat : n = Len(audit[p]) /\ DOMAIN audit[p] = 1 .. n
  BY DEF TypeOK
<1>3. /\ DOMAIN audit'[p] = 1 .. n + 1
      /\ audit'[p][n + 1] = [from |-> from, to |-> to]
      /\ \A i \in 1 .. n : audit'[p][i] = audit[p][i]
  BY <1>1, <1>2 DEF TypeOK
<1>4. 1 .. n + 1 = (1 .. n) \cup {n + 1} BY <1>2
<1>5. /\ Entries(p) = { audit[p][i] : i \in 1 .. n }
      /\ Entries(p)' = { audit'[p][i] : i \in 1 .. n + 1 }
  BY <1>2, <1>3 DEF Entries
<1>6. ASSUME NEW entry
      PROVE  entry \in Entries(p)' <=>
               entry \in Entries(p) \/ entry = [from |-> from, to |-> to]
  <2>1. \A i \in 1 .. n + 1 : i \in 1 .. n \/ i = n + 1 BY <1>4
  <2>2. \A i \in 1 .. n : i \in 1 .. n + 1 BY <1>4
  <2>3. n + 1 \in 1 .. n + 1 BY <1>4
  <2> QED BY <1>3, <1>5, <2>1, <2>2, <2>3
<1>7. Entries(p)' = Entries(p) \cup { [from |-> from, to |-> to] }
  BY <1>6
<1> QED BY <1>7 DEF WriteState, TypeOK

\* A step that leaves the row and its log alone; the state an attempt has
\* read, or had when it was given up, is one the row has or had.
LEMMA KnownKept ==
  ASSUME NEW p \in Payments, KnownAt(p),
         row'[p] = row[p], audit'[p] = audit[p],
         snapshot'[p] \in { NoState, snapshot[p], row[p].state },
         \A write \in late'[p] :
           write \in late[p] \/ (snapshot[p] # NoState /\ write.from = snapshot[p])
  PROVE  KnownAt(p)'
<1>1. Entries(p)' = Entries(p) BY DEF Entries
<1> QED BY <1>1 DEF KnownAt

LEMMA KnownWritten ==
  ASSUME TypeOK, NEW p \in Payments, KnownAt(p), NEW from, NEW to,
         WriteState(p, from, to), to # NoState, Explained(from, Entries(p)),
         snapshot'[p] \in { NoState, snapshot[p] }, late'[p] \subseteq late[p]
  PROVE  KnownAt(p)'
<1> DEFINE written == [from |-> from, to |-> to]
<1>1. Entries(p)' = Entries(p) \cup {written} BY EntryWritten
<1>2. Entries(p) \subseteq Entries(p)' /\ written \in Entries(p)' BY <1>1
<1>3. row'[p].state = to BY DEF WriteState, Updated, TypeOK
<1>4. Explained(to, Entries(p)')
  <2>1. written.to = to OBVIOUS
  <2> QED BY <1>2, <2>1 DEF Explained
<1>5. \A state : Explained(state, Entries(p)) => Explained(state, Entries(p)')
  BY <1>2, ExplainedStays
<1>6. ASSUME NEW entry \in Entries(p)'
      PROVE  Explained(entry.from, Entries(p)')
  <2>1. CASE entry = written BY <1>5, <2>1
  <2>2. CASE entry \in Entries(p) BY <1>5, <2>2 DEF KnownAt
  <2> QED BY <1>1, <2>1, <2>2
<1>7. snapshot'[p] # NoState => Explained(snapshot'[p], Entries(p)')
  BY <1>5 DEF KnownAt
<1>8. \A write \in late'[p] : Explained(write.from, Entries(p)')
  BY <1>5 DEF KnownAt
<1> HIDE DEF written
<1> QED BY <1>3, <1>4, <1>6, <1>7, <1>8 DEF KnownAt

LEMMA KnownInit == Init => KnownInv
BY DEF Init, KnownInv, KnownAt, Entries, NoRow

LEMMA KnownStep == TypeInv /\ KnownInv /\ [Next]_vars => KnownInv'
<1> SUFFICES ASSUME TypeInv, KnownInv, [Next]_vars PROVE KnownInv'
  OBVIOUS
<1> TypeOK BY DEF TypeInv
<1> USE DEF KnownInv
<1>1. ASSUME UNCHANGED << row, audit >>,
             \A q \in Payments :
               /\ snapshot'[q] \in { NoState, snapshot[q], row[q].state }
               /\ \A write \in late'[q] :
                    \/ write \in late[q]
                    \/ snapshot[q] # NoState /\ write.from = snapshot[q]
      PROVE  KnownInv'
  BY <1>1, KnownKept
<1>2. ASSUME NEW p \in Payments, Retry(p) \/ \E point : Return(p, point)
      PROVE  \A q \in Payments : snapshot'[q] \in { NoState, snapshot[q] }
  BY <1>2 DEF Retry, Return, TypeOK
<1>3. ASSUME NEW p \in Payments, Transitioned(p)
      PROVE  \E point : Return(p, point)
  BY <1>3 DEF Transitioned
<1>4. ASSUME NEW p \in Payments, CreatePayment(p) PROVE KnownInv'
  <2>1. /\ row'[p].state = "INITIATED"
        /\ \A q \in Payments \ {p} : row'[q] = row[q]
        /\ UNCHANGED << audit, snapshot, late >>
    BY <1>4 DEF CreatePayment, TypeOK, exec
  <2>2. \A q \in Payments : Entries(q)' = Entries(q) BY <2>1 DEF Entries
  <2> QED BY <2>1, <2>2 DEF KnownAt, Explained, NoState
<1>5. ASSUME NEW p \in Payments,
             ExecuteWorkflow(p) \/ (\E code \in RCodes : PostReturn(p, code))
      PROVE  KnownInv'
  BY <1>1, <1>5 DEF ExecuteWorkflow, PostReturn, db, exec
<1>6. ASSUME NEW p \in Payments, PersistRead(p) PROVE KnownInv'
  <2>1. UNCHANGED << row, audit, late >> BY <1>6 DEF PersistRead, db
  <2>2. \A q \in Payments :
          snapshot'[q] \in { NoState, snapshot[q], row[q].state }
    <3>1. CASE snapshot' = [snapshot EXCEPT ![p] = row[p].state]
      BY <3>1 DEF TypeOK
    <3> QED BY <1>2, <1>3, <1>6, <3>1 DEF PersistRead
  <2> QED BY <1>1, <2>1, <2>2
<1>7. ASSUME NEW p \in Payments, PersistCommit(p) PROVE KnownInv'
  <2>1. /\ WriteState(p, snapshot[p], Target(p)) /\ late' = late
        /\ snapshot[p] # NoState
    BY <1>7 DEF PersistCommit
  <2>2. \A q \in Payments : snapshot'[q] \in { NoState, snapshot[q] }
    BY <1>2, <1>3, <1>7 DEF PersistCommit
  <2>3. Target(p) # NoState BY TargetIsState, EdgesJoinStates
  <2>4. KnownAt(p)' BY <2>1, <2>2, <2>3, KnownWritten DEF KnownAt
  <2>5. \A q \in Payments \ {p} : KnownAt(q)'
    BY <2>1, <2>2, EntryWritten, KnownKept
  <2> QED BY <2>4, <2>5
<1>8. ASSUME NEW p \in Payments, FailAttempt(p) PROVE KnownInv'
  <2>1. UNCHANGED << row, audit >> /\ Retry(p)
    BY <1>8 DEF FailAttempt, db
  <2>2. \A write \in AbandonedWrite(p) :
          snapshot[p] # NoState /\ write.from = snapshot[p]
    BY DEF AbandonedWrite
  <2>3. \A q \in Payments :
          late'[q] = late[q] \/ (q = p /\ late'[q] = late[q] \cup AbandonedWrite(p))
    BY <1>8 DEF FailAttempt, TypeOK
  <2> QED BY <1>1, <1>2, <2>1, <2>2, <2>3
<1>9. ASSUME NEW p \in Payments,
             CheckIdempotency(p) \/ StoreTraceNumber(p) \/ SubmitToACH(p)
      PROVE  KnownInv'
  <2>1. /\ UNCHANGED << row, audit, late >>
        /\ Retry(p) \/ \E point : Return(p, point)
    BY <1>9 DEF CheckIdempotency, StoreTraceNumber, SubmitToACH, db
  <2> QED BY <1>1, <1>2, <2>1
<1>10. ASSUME NEW p \in Payments, GenerateTraceNumber(p) \/ ReceiveReturn(p)
       PROVE  KnownInv'
  BY <1>1, <1>10 DEF GenerateTraceNumber, ReceiveReturn, db, exec
<1>11. ASSUME NEW p \in Payments, SettlementTimer(p) \/ WakeUp(p)
       PROVE  KnownInv'
  <2>1. /\ UNCHANGED << row, audit, snapshot >>
        /\ \A q \in Payments : late'[q] \subseteq late[q]
    BY <1>11 DEF SettlementTimer, WakeUp, ContextsEnd, TypeOK, db
  <2> QED BY <1>1, <2>1
<1>12. ASSUME NEW p \in Payments, NEW write \in late[p], LateCommit(p, write)
       PROVE  KnownInv'
  <2>1. /\ WriteState(p, write.from, write.to)
        /\ snapshot' = snapshot
        /\ \A q \in Payments : late'[q] \subseteq late[q]
    BY <1>12 DEF LateCommit, TypeOK
  <2>2. Explained(write.from, Entries(p)) BY DEF KnownAt
  <2>3. write.to # NoState
    <3>1. write \in LateWrite BY DEF TypeOK
    <3> QED BY <3>1, EdgesJoinStates DEF LateWrite
  <2>4. KnownAt(p)' BY <2>1, <2>2, <2>3, KnownWritten
  <2>5. \A q \in Payments \ {p} : KnownAt(q)'
    BY <2>1, EntryWritten, KnownKept
  <2> QED BY <2>4, <2>5
<1>13. ASSUME NEW p \in Payments, NEW entry \in unsent[p], LateSubmit(p, entry)
       PROVE  KnownInv'
  BY <1>1, <1>13 DEF LateSubmit, db
<1>14. CASE UNCHANGED vars
  BY <1>1, <1>14 DEF vars, db, exec
<1> QED
  BY <1>4, <1>5, <1>6, <1>7, <1>8, <1>9, <1>10, <1>11, <1>12, <1>13, <1>14
     DEF Next, WorkflowStep, LateStep

LEMMA KnownInvariant == ASpec => [](APIInv /\ KnownInv)
<1>1. AInit => KnownInv BY KnownInit DEF AInit
<1>2. APIInv /\ KnownInv /\ [ANext]_apivars => KnownInv'
  BY KnownStep, RequestsAct DEF APIInv
<1> QED BY <1>1, <1>2, APIInvariant, PTL DEF ASpec

\* ReadsAgree, for every request by itself.
ReadAt(r) ==
  /\ handler[r] = "log" \/ (answer[r] = 200 /\ kind[r] = "status") =>
       Explained(seen[r], Entries(about[r]))
  /\ answer[r] = 200 /\ kind[r] = "audit" =>
       /\ Explained(seen[r], logged[r])
       /\ \A entry \in logged[r] : Explained(entry.from, logged[r])

\* The log is only appended to, so it keeps explaining what was seen.
LEMMA LogGrows ==
  ASSUME TypeOK, [Next]_vars, NEW p \in Payments
  PROVE  Entries(p) \subseteq Entries(p)'
<1>1. ASSUME NEW q \in Payments, NEW from, NEW to, WriteState(q, from, to)
      PROVE  Entries(p) \subseteq Entries(p)'
  <2>1. CASE p = q BY <1>1, <2>1, EntryWritten
  <2>2. CASE p # q
    <3>1. audit'[p] = audit[p] BY <1>1, <2>2, EntryWritten
    <3> QED BY <3>1 DEF Entries
  <2> QED BY <2>1, <2>2
<1>2. CASE UNCHANGED audit BY <1>2 DEF Entries
<1>3. CASE UNCHANGED vars BY <1>2, <1>3 DEF vars, db
<1>4. ASSUME NEW q \in Payments,
             \/ PersistCommit(q)
             \/ \E write \in late[q] : LateCommit(q, write)
      PROVE  Entries(p) \subseteq Entries(p)'
  BY <1>1, <1>4 DEF PersistCommit, LateCommit
<1> QED
  BY <1>2, <1>3, <1>4
     DEF Next, WorkflowStep, LateStep, CreatePayment, ExecuteWorkflow,
         PostReturn, PersistRead, FailAttempt, GenerateTraceNumber,
         CheckIdempotency, StoreTraceNumber, SubmitToACH, ReceiveReturn,
         SettlementTimer, WakeUp, LateSubmit, db

LEMMA ReadStep ==
  APIInv /\ KnownInv /\ (\A r \in Requests : ReadAt(r)) /\ [ANext]_apivars
    => (\A r \in Requests : ReadAt(r))'
<1> SUFFICES ASSUME APIInv, KnownInv, \A r \in Requests : ReadAt(r),
                    [ANext]_apivars, NEW r \in Requests
             PROVE  ReadAt(r)'
  OBVIOUS
<1> USE DEF APIInv
<1>1. [Next]_vars BY RequestsAct
<1>2. TypeOK BY DEF TypeInv
\* What explained the state that was seen explains it after the step.
<1>3. ASSUME NEW p \in Payments, about[r] = p, about'[r] = p,
             Explained(seen'[r], Entries(p)) \/ Explained(seen'[r], Entries(p)')
      PROVE  Explained(seen[r], Entries(about[r]))'
  <2>1. Explained(seen'[r], Entries(p)')
    BY <1>1, <1>2, <1>3, LogGrows, ExplainedStays
  <2>2. Entries(about[r])' = Entries(p)' BY <1>3 DEF Entries
  <2> QED BY <2>1, <2>2 DEF Explained
<1>4. handler[r] # "idle" => about[r] \in Payments
  BY DEF CallInv, CallAt
<1>5. ASSUME SameRequest(r) PROVE ReadAt(r)'
  <2>1. answer[r] = 200 => handler[r] # "idle" BY DEF CallInv, CallAt
  <2>2. ASSUME handler[r] = "log" \/ (answer[r] = 200 /\ kind[r] = "status")
        PROVE  Explained(seen[r], Entries(about[r]))'
    <3>1. PICK p \in Payments : about[r] = p BY <1>4, <2>1, <2>2
    <3>2. Explained(seen'[r], Entries(p))
      BY <1>5, <2>2, <3>1 DEF ReadAt, SameRequest
    <3>3. about'[r] = p BY <1>5, <3>1 DEF SameRequest
    <3> QED BY <1>3, <3>1, <3>2, <3>3
  <2>3. ASSUME answer[r] = 200, kind[r] = "audit"
        PROVE  /\ Explained(seen'[r], logged'[r])
               /\ \A entry \in logged'[r] : Explained(entry.from, logged'[r])
    BY <1>5, <2>3 DEF ReadAt, SameRequest
  <2>4. handler'[r] = handler[r] /\ answer'[r] = answer[r] /\ kind'[r] = kind[r]
    BY <1>5 DEF SameRequest
  <2> QED BY <2>2, <2>3, <2>4 DEF ReadAt
<1>6. ASSUME NEW s \in Requests, Receives(s) PROVE ReadAt(r)'
  <2>1. CASE r # s BY <1>5, <1>6, <2>1, ReceiveStep
  <2>2. CASE r = s
    <3>1. handler'[r] # "log" /\ answer'[r] = 0
      <4>1. answer'[r] = answer[r] /\ handler[r] = "idle" /\ CallInv'
        BY <1>6, <2>2, ReceiveStep
      <4>2. answer'[r] = 0 BY <4>1 DEF CallInv, CallAt
      <4> QED BY <1>6, <2>2, <4>2, ReceiveStep
    <3> QED BY <3>1 DEF ReadAt
  <2> QED BY <2>1, <2>2
<1>7. ASSUME NEW s \in Requests, Handle(s) PROVE ReadAt(r)'
  <2>1. CASE r # s BY <1>5, <1>7, <2>1, HandleStep
  <2>2. CASE r = s
    <3>1. /\ handler[r] # "idle" /\ UNCHANGED << kind, about >> /\ Tells(r)
      BY <1>7, <2>2, HandleStep
    <3>2. PICK p \in Payments : about[r] = p /\ about'[r] = p BY <1>4, <3>1
    <3>3. ASSUME handler'[r] = "log" \/ (answer'[r] = 200 /\ kind[r] = "status")
          PROVE  Explained(seen[r], Entries(about[r]))'
      <4>1. row[p] # NoRow /\ seen'[r] = row[p].state
        BY <3>1, <3>2, <3>3 DEF Tells
      <4>2. Explained(seen'[r], Entries(p))
        BY <4>1 DEF KnownInv, KnownAt
      <4> QED BY <1>3, <3>2, <4>2
    <3>4. ASSUME answer'[r] = 200, kind[r] = "audit"
          PROVE  /\ Explained(seen'[r], logged'[r])
                 /\ \A entry \in logged'[r] : Explained(entry.from, logged'[r])
      <4>1. handler[r] = "log" /\ ReadLog(r) BY <3>1, <3>4 DEF Tells
      <4>2. logged'[r] = Entries(p) /\ seen'[r] = seen[r]
        BY <3>2, <4>1 DEF ReadLog, CallInv, RequestType
      <4>3. Explained(seen[r], Entries(p)) BY <3>2, <4>1 DEF ReadAt
      <4> QED BY <4>2, <4>3 DEF KnownInv, KnownAt
    <3> QED BY <3>1, <3>3, <3>4 DEF ReadAt
  <2> QED BY <2>1, <2>2
<1>8. ASSUME UNCHANGED requests PROVE ReadAt(r)'
  BY <1>5, <1>8 DEF requests, SameRequest
<1> QED BY <1>6, <1>7, <1>8, RequestSteps DEF apivars

\* handlers.go 318-333: the log that is returned explains the state read
\* before it, and the log of later a state that was returned by itself;
\* whatever is abandoned and writes late, every entry of a log begins in
\* INITIATED or where another entry ends.
THEOREM ReadsAreExplained == ASpec => []ReadsAgree
<1> DEFINE Inv == \A r \in Requests : ReadAt(r)
<1>1. AInit => Inv BY DEF AInit, ReadAt
<1>2. APIInv /\ KnownInv /\ Inv /\ [ANext]_apivars => Inv' BY ReadStep
<1>3. APIInv /\ KnownInv /\ Inv => ReadsAgree
  <2> SUFFICES ASSUME APIInv, KnownInv, Inv, NEW r \in Requests,
                      answer[r] = 200, kind[r] \in {"status", "audit"}
               PROVE  LET log == IF kind[r] = "audit" THEN logged[r]
                                                      ELSE Entries(about[r])
                      IN  /\ Explained(seen[r], log)
                          /\ \A entry \in log : Explained(entry.from, log)
    BY DEF ReadsAgree
  <2>1. CASE kind[r] = "audit" BY <2>1 DEF ReadAt
  <2>2. CASE kind[r] = "status"
    <3>1. about[r] \in Payments BY DEF APIInv, CallInv, CallAt
    <3> QED BY <2>2, <3>1 DEF ReadAt, KnownInv, KnownAt
  <2> QED BY <2>1, <2>2
<1> HIDE DEF Inv
<1> QED BY <1>1, <1>2, <1>3, KnownInvariant, PTL DEF ASpec
=============================================================================
