----------------------- MODULE PaymentWorkflow_proofs ------------------------
(***************************************************************************)
(* Theorems about PaymentWorkflow, for every set of payments and codes and *)
(* every number of representments, attempts and signals.  First what holds *)
(* whatever timed-out attempts still do: the types, and that the log and   *)
(* the row change together.  Then what holds of the row when they do       *)
(* nothing more.                                                           *)
(***************************************************************************)
EXTENDS PaymentWorkflow, TLAPS

USE ConstantsAssumption, PrefixAssumption, RCodesAssumption

(***************************************************************************)
(* Facts about the domain's tables and the helpers.                        *)
(***************************************************************************)

\* No state is called NoState and every allowed edge joins two states.
LEMMA EdgesJoinStates ==
  /\ NoState \notin PaymentState
  /\ \A from, to :
       IsTransitionAllowed(from, to) => from \in PaymentState /\ to \in PaymentState
BY DEF PaymentState, NoState, IsTransitionAllowed, AllowedTransitions

\* rules.go: the terminal states are SETTLED and the three failure states.
LEMMA TerminalStates == Terminal = FailureState \cup {"SETTLED"}
<1>1. ASSUME NEW s \in FailureState \cup {"SETTLED"}
      PROVE  s \in Terminal
  BY <1>1 DEF Terminal, IsTerminalState, IsTransitionAllowed,
              AllowedTransitions, FailureState, PaymentState
<1>2. ASSUME NEW s \in PaymentState, s \notin FailureState \cup {"SETTLED"}
      PROVE  s \notin Terminal
  <2>1. \E to \in PaymentState : IsTransitionAllowed(s, to)
    BY <1>2 DEF IsTransitionAllowed, AllowedTransitions, FailureState, PaymentState
  <2> QED BY <2>1 DEF Terminal, IsTerminalState
<1>3. Terminal \subseteq PaymentState BY DEF Terminal
<1> QED BY <1>1, <1>2, <1>3

\* rcode.go: no code is in two categories, so the order in which the table is
\* written does not matter.
LEMMA CategoriesDisjoint ==
  /\ RetryableCodes \cap ComplianceCodes = {}
  /\ RetryableCodes \cap NonRetryableCodes = {}
  /\ ComplianceCodes \cap NonRetryableCodes = {}
BY DEF RetryableCodes, ComplianceCodes, NonRetryableCodes

\* RouteRCode answers Retryable for the retryable codes and for no other.
LEMMA RoutingTable ==
  ASSUME NEW code
  PROVE  /\ RouteRCode(code) = "Retryable" <=> code \in RetryableCodes
         /\ RouteRCode(code) = "ComplianceEscalation" <=> code \in ComplianceCodes
         /\ RouteRCode(code) \in {"Retryable", "ComplianceEscalation", "NonRetryable"}
BY DEF RouteRCode, RetryableCodes, ComplianceCodes

\* The decision after a return, as facts a proof can use: only a retryable
\* code with representments left goes back to PENDING.
LEMMA VerdictFacts ==
  ASSUME NEW code, NEW n \in Nat
  PROVE  /\ Verdict(code, n) \in Terminal \cup {"PENDING"}
         /\ Verdict(code, n) # "SETTLED"
         /\ Verdict(code, n) = "PENDING" <=>
              code \in RetryableCodes /\ n < MaxRepresentments
         /\ Verdict(code, n) = "COMPLIANCE_ESCALATION" <=> code \in ComplianceCodes
         /\ IsTransitionAllowed("RETURNED", Verdict(code, n))
BY RoutingTable, TerminalStates
   DEF Verdict, FailureState, PaymentState, IsTransitionAllowed, AllowedTransitions

LEMMA TargetIsState ==
  ASSUME TypeOK, NEW p \in Payments
  PROVE  Target(p) \in PaymentState
<1>1. representmentCount[p] \in Nat BY DEF TypeOK
<1>2. Verdict(rcode[p], representmentCount[p]) \in PaymentState
  BY <1>1, VerdictFacts, TerminalStates DEF PaymentState, FailureState
<1> QED BY <1>2 DEF Target, PaymentState

(***************************************************************************)
(* What the helpers of the actions do to the types.                        *)
(***************************************************************************)

RowRecord ==
  [state : PaymentState \cup {NoState}, representmentCount : {0},
   settledAt : BOOLEAN, failedAt : BOOLEAN]

LEMMA WriteStateType ==
  ASSUME TypeOK, NEW p \in Payments,
         NEW from \in PaymentState, NEW to \in PaymentState,
         WriteState(p, from, to)
  PROVE  /\ row' \in [Payments -> RowRecord]
         /\ audit' \in [Payments -> Seq(AuditEntry)]
<1>1. row[p] \in RowRecord BY DEF TypeOK, RowRecord
<1>2. Updated(row[p], to) \in RowRecord BY <1>1 DEF Updated, RowRecord
<1>3. [from |-> from, to |-> to] \in AuditEntry BY DEF AuditEntry
<1>4. Append(audit[p], [from |-> from, to |-> to]) \in Seq(AuditEntry)
  BY <1>3 DEF TypeOK
<1> QED BY <1>2, <1>4 DEF TypeOK, RowRecord, WriteState

LEMMA ReturnType ==
  ASSUME TypeOK, NEW p \in Payments, NEW point \in Points, Return(p, point)
  PROVE  /\ pc' \in [Payments -> Points]
         /\ attempt' \in [Payments -> 1 .. MaximumAttempts]
         /\ snapshot' \in [Payments -> PaymentState \cup {NoState}]
BY DEF TypeOK, Return

LEMMA RetryType ==
  ASSUME TypeOK, NEW p \in Payments, Retry(p)
  PROVE  /\ pc' \in [Payments -> Points]
         /\ attempt' \in [Payments -> 1 .. MaximumAttempts]
         /\ snapshot' \in [Payments -> PaymentState \cup {NoState}]
<1>1. /\ pc \in [Payments -> Points]
      /\ attempt \in [Payments -> 1 .. MaximumAttempts]
      /\ snapshot \in [Payments -> PaymentState \cup {NoState}]
  BY DEF TypeOK
<1>2. snapshot' \in [Payments -> PaymentState \cup {NoState}]
  BY <1>1 DEF Retry
<1>3. attempt[p] \in 1 .. MaximumAttempts /\ 1 \in 1 .. MaximumAttempts
  BY <1>1
<1>4. "failed" \in Points BY DEF Points
<1>5. CASE attempt[p] < MaximumAttempts
  <2>1. attempt[p] + 1 \in 1 .. MaximumAttempts BY <1>3, <1>5
  <2> QED BY <1>1, <1>2, <1>5, <2>1 DEF Retry
<1>6. CASE ~ (attempt[p] < MaximumAttempts)
  BY <1>1, <1>2, <1>3, <1>4, <1>6 DEF Retry
<1> QED BY <1>5, <1>6

LEMMA TransitionedType ==
  ASSUME TypeOK, NEW p \in Payments, Transitioned(p)
  PROVE  /\ pc' \in [Payments -> Points]
         /\ attempt' \in [Payments -> 1 .. MaximumAttempts]
         /\ snapshot' \in [Payments -> PaymentState \cup {NoState}]
         /\ webhook' \in [Payments -> PaymentState \cup {NoState}]
<1>1. AfterPersist(p) \in Points
  BY DEF AfterPersist, Points, Running, ActivityPoints, PersistPoints
<1>2. Target(p) \in PaymentState BY TargetIsState
<1>3. webhook' \in [Payments -> PaymentState \cup {NoState}]
  BY <1>2 DEF TypeOK, Transitioned
<1>4. Return(p, AfterPersist(p)) BY DEF Transitioned
<1> QED BY <1>1, <1>3, <1>4, ReturnType

(***************************************************************************)
(* Type correctness.  It is not inductive alone: that the counter stays    *)
(* within MaxRepresentments needs that the workflow sleeps only while it   *)
(* has a representment left, and that Redis and ACH are given trace        *)
(* numbers that a round generates its number before it uses it.            *)
(***************************************************************************)

LocalsInStep ==
  \A p \in Payments :
    /\ pc[p] = "sleep" => representmentCount[p] < MaxRepresentments
    /\ pc[p] \in {"check", "store", "submitted", "submit"} =>
         traceNumber[p] \in TraceNumbers

\* The workflow goes to sleep only after a retryable return, with a
\* representment left.
LEMMA AfterPersistSleeps ==
  ASSUME TypeOK, NEW p \in Payments, pc[p] \in PersistPoints,
         AfterPersist(p) = "sleep"
  PROVE  /\ pc[p] = "verdict"
         /\ Target(p) = "PENDING"
         /\ rcode[p] \in RetryableCodes
         /\ representmentCount[p] < MaxRepresentments
<1>1. pc[p] \in {"settled", "verdict"} /\ Target(p) = "PENDING"
  BY DEF AfterPersist, PersistPoints
<1>2. pc[p] = "verdict" BY <1>1 DEF Target
<1>3. Verdict(rcode[p], representmentCount[p]) = "PENDING"
  BY <1>1, <1>2 DEF Target
<1>4. representmentCount[p] \in Nat BY DEF TypeOK
<1> QED BY <1>1, <1>2, <1>3, <1>4, VerdictFacts

LEMMA LocalsAfterPersist ==
  ASSUME TypeOK, LocalsInStep, NEW p \in Payments, pc[p] \in PersistPoints,
         Transitioned(p)
  PROVE  LocalsInStep'
<1>1. AfterPersist(p) = "submit" => pc[p] = "submitted"
  BY DEF AfterPersist
<1>2. AfterPersist(p) \notin {"check", "store", "submitted"}
  BY DEF AfterPersist
<1> QED
  BY <1>1, <1>2, AfterPersistSleeps
     DEF Transitioned, Return, TypeOK, LocalsInStep

TypeInv == TypeOK /\ LocalsInStep

LEMMA TypeInit == Init => TypeInv
BY DEF Init, TypeInv, TypeOK, LocalsInStep, NoRow, Points, db

LEMMA TypeStep == TypeInv /\ [Next]_vars => TypeInv'
<1> SUFFICES ASSUME TypeInv, [Next]_vars
             PROVE  TypeInv'
  OBVIOUS
<1> USE DEF TypeInv
<1> \A point \in {"created", "pending", "round", "check", "store", "wait",
                  "submitted", "settled", "returned"} : point \in Points
  BY DEF Points, Running, ActivityPoints, PersistPoints
<1>1. ASSUME NEW p \in Payments, CreatePayment(p)
      PROVE  TypeInv'
  <2>1. [row[p] EXCEPT !.state = "INITIATED"] \in RowRecord
    <3>1. row[p] \in RowRecord BY DEF TypeOK, RowRecord
    <3>2. "INITIATED" \in PaymentState BY DEF PaymentState
    <3> QED BY <3>1, <3>2 DEF RowRecord
  <2>2. row' \in [Payments -> RowRecord]
    BY <1>1, <2>1 DEF CreatePayment, TypeOK, RowRecord
  <2>3. pc' \in [Payments -> Points] BY <1>1 DEF CreatePayment, TypeOK
  <2>4. TypeOK'
    BY <1>1, <2>2, <2>3
       DEF CreatePayment, TypeOK, RowRecord, ach, exec, signals, locals
  <2>5. LocalsInStep'
    BY <1>1 DEF CreatePayment, TypeOK, LocalsInStep, locals
  <2> QED BY <2>4, <2>5
<1>2. ASSUME NEW p \in Payments, ExecuteWorkflow(p)
      PROVE  TypeInv'
  BY <1>2 DEF ExecuteWorkflow, TypeOK, LocalsInStep,
              db, ach, exec, signals, locals
<1>3. ASSUME NEW p \in Payments, NEW code \in RCodes, PostReturn(p, code)
      PROVE  TypeInv'
  <2>1. inbox' \in [Payments -> Seq(RCodes)]
    BY <1>3 DEF PostReturn, TypeOK
  <2>2. accepted' \in [Payments -> 0 .. MaxSignals]
    <3>1. accepted \in [Payments -> 0 .. MaxSignals] BY DEF TypeOK
    <3>2. accepted[p] + 1 \in 0 .. MaxSignals BY <1>3, <3>1 DEF PostReturn
    <3> QED BY <1>3, <3>1, <3>2 DEF PostReturn
  <2>3. TypeOK'
    BY <1>3, <2>1, <2>2 DEF PostReturn, TypeOK, db, ach, exec, locals
  <2>4. LocalsInStep' BY <1>3 DEF PostReturn, LocalsInStep, locals
  <2> QED BY <2>3, <2>4
<1>4. ASSUME NEW p \in Payments, PersistRead(p)
      PROVE  TypeInv'
  <2>1. CASE AlreadyApplied(p) /\ Transitioned(p)
    <3>1. TypeOK'
      BY <1>4, <2>1, TransitionedType
         DEF PersistRead, Transitioned, TypeOK, db, ach, signals
    <3>2. LocalsInStep'
      BY <1>4, <2>1, LocalsAfterPersist DEF PersistRead
    <3> QED BY <3>1, <3>2
  <2>2. CASE /\ snapshot' = [snapshot EXCEPT ![p] = row[p].state]
             /\ UNCHANGED << pc, attempt, locals >>
    BY <1>4, <2>2 DEF PersistRead, TypeOK, LocalsInStep,
                      db, ach, signals, locals
  <2>3. CASE Retry(p) /\ UNCHANGED locals
    <3>1. TypeOK'
      BY <1>4, <2>3, RetryType DEF PersistRead, TypeOK, db, ach, signals, locals
    <3>2. LocalsInStep'
      BY <1>4, <2>3 DEF Retry, TypeOK, LocalsInStep, locals
    <3> QED BY <3>1, <3>2
  <2> QED BY <1>4, <2>1, <2>2, <2>3 DEF PersistRead
<1>5. ASSUME NEW p \in Payments, PersistCommit(p)
      PROVE  TypeInv'
  <2>1. snapshot[p] \in PaymentState /\ Target(p) \in PaymentState
    BY <1>5, TargetIsState DEF PersistCommit, TypeOK
  <2>2. /\ row' \in [Payments -> RowRecord]
        /\ audit' \in [Payments -> Seq(AuditEntry)]
    BY <1>5, <2>1, WriteStateType DEF PersistCommit
  <2>3. CASE Transitioned(p)
    <3>1. TypeOK'
      BY <1>5, <2>2, <2>3, TransitionedType
         DEF PersistCommit, Transitioned, TypeOK, RowRecord, ach, signals
    <3>2. LocalsInStep'
      BY <1>5, <2>3, LocalsAfterPersist DEF PersistCommit
    <3> QED BY <3>1, <3>2
  <2>4. CASE Retry(p) /\ UNCHANGED locals
    <3>1. TypeOK'
      BY <1>5, <2>2, <2>4, RetryType
         DEF PersistCommit, TypeOK, RowRecord, ach, signals, locals
    <3>2. LocalsInStep'
      BY <1>5, <2>4 DEF Retry, TypeOK, LocalsInStep, locals
    <3> QED BY <3>1, <3>2
  <2> QED BY <1>5, <2>3, <2>4 DEF PersistCommit
<1>6. ASSUME NEW p \in Payments, FailAttempt(p)
      PROVE  TypeInv'
  <2>1. AbandonedWrite(p) \subseteq LateWrite
    BY TargetIsState DEF AbandonedWrite, LateWrite, TypeOK
  <2>2. AbandonedEntry(p) \subseteq LateEntry
    BY DEF AbandonedEntry, LateEntry, LocalsInStep, TypeOK
  <2>3. /\ late' \in [Payments -> SUBSET LateWrite]
        /\ unsent' \in [Payments -> SUBSET LateEntry]
    <3>1. /\ late \in [Payments -> SUBSET LateWrite]
          /\ unsent \in [Payments -> SUBSET LateEntry]
      BY DEF TypeOK
    <3>2. /\ late[p] \cup AbandonedWrite(p) \in SUBSET LateWrite
          /\ unsent[p] \cup AbandonedEntry(p) \in SUBSET LateEntry
      BY <2>1, <2>2, <3>1
    <3>3. \/ UNCHANGED << late, unsent >>
          \/ /\ late' = [late EXCEPT ![p] = @ \cup AbandonedWrite(p)]
             /\ unsent' = [unsent EXCEPT ![p] = @ \cup AbandonedEntry(p)]
      BY <1>6 DEF FailAttempt
    <3> QED BY <3>1, <3>2, <3>3
  <2>4. Retry(p) BY <1>6 DEF FailAttempt
  <2>5. TypeOK'
    BY <1>6, <2>3, <2>4, RetryType DEF FailAttempt, TypeOK, db, ach, signals, locals
  <2>6. LocalsInStep'
    BY <1>6, <2>4 DEF FailAttempt, Retry, TypeOK, LocalsInStep, locals
  <2> QED BY <2>5, <2>6
<1>7. ASSUME NEW p \in Payments, GenerateTraceNumber(p)
      PROVE  TypeInv'
  <2>1. PICK second \in Seconds :
          traceNumber' = [traceNumber EXCEPT ![p] = Trace(p, second)]
    BY <1>7 DEF GenerateTraceNumber
  <2>2. Trace(p, second) \in TraceNumbers
    BY DEF Trace, TraceNumbers, TypeOK
  <2> QED
    BY <1>7, <2>1, <2>2 DEF GenerateTraceNumber, TypeOK, LocalsInStep,
                            db, ach, exec, signals
<1>8. ASSUME NEW p \in Payments, CheckIdempotency(p)
      PROVE  TypeInv'
  <2>1. AfterCheck(p) \in Points /\ AfterCheck(p) # "sleep" BY DEF AfterCheck
  <2>2. Return(p, AfterCheck(p)) BY <1>8 DEF CheckIdempotency
  <2>3. TypeOK'
    BY <1>8, <2>1, <2>2, ReturnType
       DEF CheckIdempotency, TypeOK, db, ach, signals, locals
  <2>4. LocalsInStep'
    BY <1>8, <2>1, <2>2 DEF CheckIdempotency, Return, TypeOK, LocalsInStep, locals
  <2> QED BY <2>3, <2>4
<1>9. ASSUME NEW p \in Payments, StoreTraceNumber(p)
      PROVE  TypeInv'
  <2>1. redis' \in SUBSET TraceNumbers
    BY <1>9 DEF StoreTraceNumber, TypeOK, LocalsInStep
  <2>2. CASE Return(p, "submitted")
    <3>1. TypeOK'
      BY <1>9, <2>1, <2>2, ReturnType
         DEF StoreTraceNumber, TypeOK, db, signals, locals
    <3>2. LocalsInStep'
      BY <1>9, <2>2 DEF StoreTraceNumber, Return, TypeOK, LocalsInStep, locals
    <3> QED BY <3>1, <3>2
  <2>3. CASE Retry(p)
    <3>1. TypeOK'
      BY <1>9, <2>1, <2>3, RetryType
         DEF StoreTraceNumber, TypeOK, db, signals, locals
    <3>2. LocalsInStep'
      BY <1>9, <2>3 DEF StoreTraceNumber, Retry, TypeOK, LocalsInStep, locals
    <3> QED BY <3>1, <3>2
  <2> QED BY <1>9, <2>2, <2>3 DEF StoreTraceNumber
<1>10. ASSUME NEW p \in Payments, SubmitToACH(p)
       PROVE  TypeInv'
  <2>1. wire' \in [Payments -> Seq(TraceNumbers)]
    <3>1. traceNumber[p] \in TraceNumbers
      BY <1>10 DEF SubmitToACH, LocalsInStep
    <3>2. wire \in [Payments -> Seq(TraceNumbers)] BY DEF TypeOK
    <3>3. Append(wire[p], traceNumber[p]) \in Seq(TraceNumbers)
      BY <3>1, <3>2
    <3> QED BY <1>10, <3>2, <3>3 DEF SubmitToACH
  <2>2. CASE Return(p, "wait")
    <3>1. TypeOK'
      BY <1>10, <2>1, <2>2, ReturnType
         DEF SubmitToACH, TypeOK, db, signals, locals
    <3>2. LocalsInStep'
      BY <1>10, <2>2 DEF SubmitToACH, Return, TypeOK, LocalsInStep, locals
    <3> QED BY <3>1, <3>2
  <2>3. CASE Retry(p)
    <3>1. TypeOK'
      BY <1>10, <2>1, <2>3, RetryType
         DEF SubmitToACH, TypeOK, db, signals, locals
    <3>2. LocalsInStep'
      BY <1>10, <2>3 DEF SubmitToACH, Retry, TypeOK, LocalsInStep, locals
    <3> QED BY <3>1, <3>2
  <2> QED BY <1>10, <2>2, <2>3 DEF SubmitToACH
<1>11. ASSUME NEW p \in Payments, ReceiveReturn(p)
       PROVE  TypeInv'
  <2>1. Head(inbox[p]) \in RCodes /\ Tail(inbox[p]) \in Seq(RCodes)
    BY <1>11 DEF ReceiveReturn, TypeOK
  <2> QED
    BY <1>11, <2>1 DEF ReceiveReturn, TypeOK, LocalsInStep, db, ach, exec
<1>12. ASSUME NEW p \in Payments, SettlementTimer(p)
       PROVE  TypeInv'
  <2>1. TypeOK'
    BY <1>12 DEF SettlementTimer, ContextsEnd, TypeOK, db, ach, signals, locals
  <2>2. LocalsInStep'
    BY <1>12 DEF SettlementTimer, TypeOK, LocalsInStep, locals
  <2> QED BY <2>1, <2>2
<1>13. ASSUME NEW p \in Payments, WakeUp(p)
       PROVE  TypeInv'
  <2>1. representmentCount[p] + 1 \in 0 .. MaxRepresentments
    BY <1>13 DEF WakeUp, TypeOK, LocalsInStep
  <2>2. TypeOK'
    BY <1>13, <2>1 DEF WakeUp, NextCount, ContextsEnd, TypeOK, db, ach, signals
  <2>3. LocalsInStep'
    BY <1>13 DEF WakeUp, TypeOK, LocalsInStep
  <2> QED BY <2>2, <2>3
<1>14. ASSUME NEW p \in Payments, NEW write \in late[p], LateCommit(p, write)
       PROVE  TypeInv'
  <2>1. write \in LateWrite BY DEF TypeOK
  <2>2. /\ row' \in [Payments -> RowRecord]
        /\ audit' \in [Payments -> Seq(AuditEntry)]
    BY <1>14, <2>1, WriteStateType DEF LateCommit, LateWrite
  <2>3. late' \in [Payments -> SUBSET LateWrite]
    BY <1>14 DEF LateCommit, TypeOK
  <2> QED
    BY <1>14, <2>2, <2>3 DEF LateCommit, TypeOK, LocalsInStep, RowRecord,
                             ach, signals, locals
<1>15. ASSUME NEW p \in Payments, NEW entry \in unsent[p], LateSubmit(p, entry)
       PROVE  TypeInv'
  <2>1. entry.trace \in TraceNumbers BY DEF TypeOK, LateEntry
  <2>2. wire' \in [Payments -> Seq(TraceNumbers)]
    <3>1. wire \in [Payments -> Seq(TraceNumbers)] BY DEF TypeOK
    <3>2. Append(wire[p], entry.trace) \in Seq(TraceNumbers) BY <2>1, <3>1
    <3> QED BY <1>15, <3>1, <3>2 DEF LateSubmit
  <2>3. unsent' \in [Payments -> SUBSET LateEntry]
    BY <1>15 DEF LateSubmit, TypeOK
  <2> QED
    BY <1>15, <2>2, <2>3 DEF LateSubmit, TypeOK, LocalsInStep,
                             db, signals, locals
<1>16. CASE UNCHANGED vars
  BY <1>16 DEF TypeOK, LocalsInStep, vars, db, ach, exec, signals, locals
<1> QED
  BY <1>1, <1>2, <1>3, <1>4, <1>5, <1>6, <1>7, <1>8, <1>9, <1>10, <1>11,
     <1>12, <1>13, <1>14, <1>15, <1>16 DEF Next, WorkflowStep, LateStep

\* Type correctness, with the bound MaxRepresentments on the counter and on
\* the round in every trace number.
THEOREM TypeCorrect == Spec => []TypeOK
<1>1. Init => TypeInv BY TypeInit
<1>2. TypeInv /\ [Next]_vars => TypeInv' BY TypeStep
<1>3. TypeInv => TypeOK BY DEF TypeInv
<1> QED BY <1>1, <1>2, <1>3, PTL DEF Spec

(***************************************************************************)
(* The audit log agrees with the row, even when abandoned attempts write   *)
(* late.  The strengthening: every write that is pending, of the running   *)
(* attempt or of an abandoned one, is along an allowed edge, and a payment *)
(* that was not created has no log.                                        *)
(***************************************************************************)

PendingWrites ==
  \A p \in Payments :
    /\ snapshot[p] # NoState =>
         /\ pc[p] \in PersistPoints
         /\ IsTransitionAllowed(snapshot[p], Target(p))
    /\ \A write \in late[p] : IsTransitionAllowed(write.from, write.to)
    /\ pc[p] = "absent" => audit[p] = << >> /\ late[p] = {}

AuditInv == AuditMatchesRow /\ PendingWrites

LEMMA WriteStateAudit ==
  ASSUME TypeOK, AuditMatchesRow, NEW p \in Payments, NEW from, NEW to,
         IsTransitionAllowed(from, to), WriteState(p, from, to)
  PROVE  /\ AuditMatchesRow'
         /\ \A q \in Payments \ {p} : audit'[q] = audit[q]
<1>1. [from |-> from, to |-> to] \in AuditEntry
  BY EdgesJoinStates DEF AuditEntry
<1>2. /\ row'[p].state = to
      /\ audit'[p] = Append(audit[p], [from |-> from, to |-> to])
  BY DEF WriteState, Updated, TypeOK
<1>3. \A q \in Payments \ {p} : row'[q] = row[q] /\ audit'[q] = audit[q]
  BY DEF WriteState, TypeOK
<1>4. audit[p] \in Seq(AuditEntry) BY DEF TypeOK
<1>5. /\ audit'[p] \in Seq(AuditEntry)
      /\ Len(audit'[p]) = Len(audit[p]) + 1
      /\ audit'[p][Len(audit'[p])] = [from |-> from, to |-> to]
      /\ \A i \in 1 .. Len(audit[p]) : audit'[p][i] = audit[p][i]
  BY <1>1, <1>2, <1>4
<1>6. \A i \in DOMAIN audit'[p] :
        IsTransitionAllowed(audit'[p][i].from, audit'[p][i].to)
  <2>1. TAKE i \in DOMAIN audit'[p]
  <2>2. i \in 1 .. Len(audit[p]) \/ i = Len(audit'[p])
    BY <1>4, <1>5
  <2>3. i \in 1 .. Len(audit[p]) =>
          IsTransitionAllowed(audit[p][i].from, audit[p][i].to)
    BY <1>4 DEF AuditMatchesRow
  <2> QED BY <1>5, <2>2, <2>3
<1>7. /\ audit'[p] # << >>
      /\ audit'[p][Len(audit'[p])].to = row'[p].state
  BY <1>2, <1>4, <1>5
<1>8. ASSUME NEW q \in Payments
      PROVE  /\ \A i \in DOMAIN audit'[q] :
                  IsTransitionAllowed(audit'[q][i].from, audit'[q][i].to)
             /\ audit'[q] # << >> => audit'[q][Len(audit'[q])].to = row'[q].state
             /\ audit'[q] = << >> => row'[q].state \in {NoState, "INITIATED"}
  <2>1. CASE q = p BY <1>6, <1>7, <2>1
  <2>2. CASE q # p BY <1>3, <2>2 DEF AuditMatchesRow
  <2> QED BY <2>1, <2>2
<1>9. AuditMatchesRow' BY <1>8 DEF AuditMatchesRow
<1> QED BY <1>3, <1>9

\* What ends an activity leaves no pending write of the running attempt.
LEMMA EndedAttempt ==
  ASSUME TypeOK, NEW p \in Payments,
         Retry(p) \/ \E point \in Points \ {"absent"} : Return(p, point),
         pc[p] # "absent"
  PROVE  /\ snapshot'[p] = NoState
         /\ pc'[p] # "absent"
         /\ \A q \in Payments \ {p} :
              snapshot'[q] = snapshot[q] /\ pc'[q] = pc[q]
<1>1. CASE Retry(p) BY <1>1 DEF Retry, TypeOK
<1>2. ASSUME NEW point \in Points \ {"absent"}, Return(p, point)
      PROVE  /\ snapshot'[p] = NoState
             /\ pc'[p] # "absent"
             /\ \A q \in Payments \ {p} :
                  snapshot'[q] = snapshot[q] /\ pc'[q] = pc[q]
  BY <1>2 DEF Return, TypeOK
<1> QED BY <1>1, <1>2

\* The same for a persist whose transition was made.
LEMMA EndedPersist ==
  ASSUME TypeOK, NEW p \in Payments, pc[p] \in PersistPoints,
         Transitioned(p) \/ Retry(p)
  PROVE  /\ snapshot'[p] = NoState
         /\ pc'[p] # "absent"
         /\ \A q \in Payments \ {p} :
              snapshot'[q] = snapshot[q] /\ pc'[q] = pc[q]
<1>1. AfterPersist(p) \in Points \ {"absent"}
  BY DEF AfterPersist, Points, Running, ActivityPoints, PersistPoints
<1>2. pc[p] # "absent" BY DEF PersistPoints
<1> QED BY <1>1, <1>2, EndedAttempt DEF Transitioned

LEMMA AuditInit == Init => AuditInv
BY DEF Init, AuditInv, AuditMatchesRow, PendingWrites, NoRow

\* The pending writes of the attempts after a step that takes no snapshot.
LEMMA KeptSnapshots ==
  ASSUME PendingWrites,
         \A q \in Payments :
           snapshot'[q] # NoState =>
             /\ snapshot'[q] = snapshot[q]
             /\ pc'[q] = pc[q]
             /\ rcode'[q] = rcode[q]
             /\ representmentCount'[q] = representmentCount[q]
  PROVE  \A q \in Payments :
           snapshot'[q] # NoState =>
             /\ pc'[q] \in PersistPoints
             /\ IsTransitionAllowed(snapshot'[q], Target(q)')
<1> SUFFICES ASSUME NEW q \in Payments, snapshot'[q] # NoState
             PROVE  /\ pc'[q] \in PersistPoints
                    /\ IsTransitionAllowed(snapshot'[q], Target(q)')
  OBVIOUS
<1>1. Target(q)' = Target(q) BY DEF Target
<1> QED BY <1>1 DEF PendingWrites

\* Steps that leave the database alone and abandon no write.
LEMMA QuietStep ==
  ASSUME AuditInv, UNCHANGED << row, audit >>,
         \A q \in Payments : late'[q] \subseteq late[q],
         \A q \in Payments : pc'[q] = "absent" => pc[q] = "absent",
         \A q \in Payments :
           snapshot'[q] # NoState =>
             /\ snapshot'[q] = snapshot[q]
             /\ pc'[q] = pc[q]
             /\ rcode'[q] = rcode[q]
             /\ representmentCount'[q] = representmentCount[q]
  PROVE  AuditInv'
<1>1. AuditMatchesRow' BY DEF AuditInv, AuditMatchesRow
<1>2. PendingWrites'
  BY KeptSnapshots DEF AuditInv, PendingWrites
<1> QED BY <1>1, <1>2 DEF AuditInv

LEMMA AuditStep == TypeInv /\ AuditInv /\ [Next]_vars => AuditInv'
<1> SUFFICES ASSUME TypeInv, AuditInv, [Next]_vars
             PROVE  AuditInv'
  OBVIOUS
<1> TypeOK BY DEF TypeInv
<1>1. ASSUME NEW p \in Payments, CreatePayment(p)
      PROVE  AuditInv'
  <2>1. audit[p] = << >> /\ late[p] = {}
    BY <1>1 DEF CreatePayment, AuditInv, PendingWrites
  <2>2. row'[p].state = "INITIATED" BY <1>1 DEF CreatePayment, TypeOK
  <2>3. AuditMatchesRow'
    BY <1>1, <2>1, <2>2 DEF CreatePayment, TypeOK, AuditInv, AuditMatchesRow
  <2>4. snapshot[p] = NoState
    BY <1>1 DEF CreatePayment, AuditInv, PendingWrites, PersistPoints
  <2>5. PendingWrites'
    BY <1>1, <2>4, KeptSnapshots
       DEF CreatePayment, TypeOK, AuditInv, PendingWrites, exec, locals
  <2> QED BY <2>3, <2>5 DEF AuditInv
<1>2. ASSUME NEW p \in Payments, ExecuteWorkflow(p)
      PROVE  AuditInv'
  <2>1. snapshot[p] = NoState
    BY <1>2 DEF ExecuteWorkflow, AuditInv, PendingWrites, PersistPoints
  <2> QED
    BY <1>2, <2>1, QuietStep DEF ExecuteWorkflow, TypeOK, db, exec, locals
<1>3. ASSUME NEW p \in Payments, NEW code \in RCodes, PostReturn(p, code)
      PROVE  AuditInv'
  BY <1>3, QuietStep DEF PostReturn, db, exec, locals
<1>4. ASSUME NEW p \in Payments, PersistRead(p)
      PROVE  AuditInv'
  <2>1. CASE /\ Transitioned(p) \/ Retry(p)
             /\ UNCHANGED << rcode, representmentCount >>
    BY <1>4, <2>1, EndedPersist, QuietStep DEF PersistRead, db, TypeOK
  <2>2. CASE /\ IsTransitionAllowed(row[p].state, Target(p))
             /\ snapshot' = [snapshot EXCEPT ![p] = row[p].state]
             /\ UNCHANGED << pc, attempt, locals >>
    <3>1. \A q \in Payments : Target(q)' = Target(q)
      BY <2>2 DEF Target, locals
    <3>2. AuditMatchesRow'
      BY <1>4 DEF PersistRead, AuditInv, AuditMatchesRow, db
    <3>3. PendingWrites'
      BY <1>4, <2>2, <3>1 DEF PersistRead, AuditInv, PendingWrites, TypeOK, db
    <3> QED BY <3>2, <3>3 DEF AuditInv
  <2> QED BY <1>4, <2>1, <2>2 DEF PersistRead, Transitioned, locals
<1>5. ASSUME NEW p \in Payments, PersistCommit(p)
      PROVE  AuditInv'
  <2>1. IsTransitionAllowed(snapshot[p], Target(p))
    BY <1>5 DEF PersistCommit, AuditInv, PendingWrites
  <2>2. /\ AuditMatchesRow'
        /\ \A q \in Payments \ {p} : audit'[q] = audit[q]
    BY <1>5, <2>1, WriteStateAudit DEF PersistCommit, AuditInv
  <2>3. /\ snapshot'[p] = NoState
        /\ pc'[p] # "absent"
        /\ \A q \in Payments \ {p} :
             snapshot'[q] = snapshot[q] /\ pc'[q] = pc[q]
    BY <1>5, EndedPersist DEF PersistCommit
  <2>4. UNCHANGED << rcode, representmentCount, late >>
    BY <1>5 DEF PersistCommit, Transitioned, locals
  <2>5. PendingWrites'
    BY <2>2, <2>3, <2>4, KeptSnapshots DEF AuditInv, PendingWrites
  <2> QED BY <2>2, <2>5 DEF AuditInv
<1>6. ASSUME NEW p \in Payments, FailAttempt(p)
      PROVE  AuditInv'
  <2>1. \A write \in AbandonedWrite(p) : IsTransitionAllowed(write.from, write.to)
    BY DEF AbandonedWrite, AuditInv, PendingWrites
  <2>2. /\ late'[p] \subseteq late[p] \cup AbandonedWrite(p)
        /\ \A q \in Payments \ {p} : late'[q] = late[q]
    <3>1. late \in [Payments -> SUBSET LateWrite] BY DEF TypeOK
    <3>2. CASE UNCHANGED late BY <3>2
    <3>3. CASE late' = [late EXCEPT ![p] = @ \cup AbandonedWrite(p)]
      BY <3>1, <3>3
    <3> QED BY <1>6, <3>2, <3>3 DEF FailAttempt
  <2>3. pc[p] # "absent"
    BY <1>6 DEF FailAttempt, ActivityPoints, PersistPoints
  <2>4. /\ snapshot'[p] = NoState
        /\ pc'[p] # "absent"
        /\ \A q \in Payments \ {p} :
             snapshot'[q] = snapshot[q] /\ pc'[q] = pc[q]
    BY <1>6, <2>3, EndedAttempt DEF FailAttempt
  <2>5. AuditMatchesRow'
    BY <1>6 DEF FailAttempt, AuditInv, AuditMatchesRow, db
  <2>6. PendingWrites'
    BY <1>6, <2>1, <2>2, <2>4, KeptSnapshots
       DEF FailAttempt, AuditInv, PendingWrites, db, locals
  <2> QED BY <2>5, <2>6 DEF AuditInv
<1>7. ASSUME NEW p \in Payments, GenerateTraceNumber(p)
      PROVE  AuditInv'
  <2>1. snapshot[p] = NoState
    BY <1>7 DEF GenerateTraceNumber, AuditInv, PendingWrites, PersistPoints
  <2> QED
    BY <1>7, <2>1, QuietStep DEF GenerateTraceNumber, TypeOK, db, exec
<1>8. ASSUME NEW p \in Payments,
             CheckIdempotency(p) \/ StoreTraceNumber(p) \/ SubmitToACH(p)
      PROVE  AuditInv'
  <2>1. pc[p] # "absent"
    BY <1>8 DEF CheckIdempotency, StoreTraceNumber, SubmitToACH
  <2>2. {"submitted", "wait", "store"} \subseteq Points \ {"absent"}
    BY DEF Points, Running, ActivityPoints, PersistPoints
  <2>3. Retry(p) \/ \E point \in Points \ {"absent"} : Return(p, point)
    BY <1>8, <2>2 DEF CheckIdempotency, StoreTraceNumber, SubmitToACH, AfterCheck
  <2>4. UNCHANGED << row, audit, late, rcode, representmentCount >>
    BY <1>8 DEF CheckIdempotency, StoreTraceNumber, SubmitToACH, db, locals
  <2> QED BY <2>1, <2>3, <2>4, EndedAttempt, QuietStep
<1>9. ASSUME NEW p \in Payments,
             ReceiveReturn(p) \/ SettlementTimer(p) \/ WakeUp(p)
      PROVE  AuditInv'
  <2>1. snapshot[p] = NoState
    BY <1>9 DEF ReceiveReturn, SettlementTimer, WakeUp, AuditInv,
                PendingWrites, PersistPoints
  <2>2. /\ UNCHANGED << row, audit, snapshot >>
        /\ \A q \in Payments : late'[q] \subseteq late[q]
        /\ pc'[p] # "absent"
        /\ \A q \in Payments \ {p} :
             /\ pc'[q] = pc[q] /\ rcode'[q] = rcode[q]
             /\ representmentCount'[q] = representmentCount[q]
    BY <1>9 DEF ReceiveReturn, SettlementTimer, WakeUp, ContextsEnd, TypeOK,
                db, exec, locals
  <2> QED BY <2>1, <2>2, QuietStep
<1>10. ASSUME NEW p \in Payments, NEW write \in late[p], LateCommit(p, write)
       PROVE  AuditInv'
  <2>1. IsTransitionAllowed(write.from, write.to)
    BY DEF AuditInv, PendingWrites
  <2>2. /\ AuditMatchesRow'
        /\ \A q \in Payments \ {p} : audit'[q] = audit[q]
    BY <1>10, <2>1, WriteStateAudit DEF LateCommit, AuditInv
  <2>3. \A q \in Payments : late'[q] \subseteq late[q]
    BY <1>10 DEF LateCommit, TypeOK
  <2>4. pc[p] # "absent" BY DEF AuditInv, PendingWrites
  <2>5. PendingWrites'
    BY <1>10, <2>2, <2>3, <2>4, KeptSnapshots
       DEF LateCommit, AuditInv, PendingWrites, locals
  <2> QED BY <2>2, <2>5 DEF AuditInv
<1>11. ASSUME NEW p \in Payments, NEW entry \in unsent[p], LateSubmit(p, entry)
       PROVE  AuditInv'
  BY <1>11, QuietStep DEF LateSubmit, db, locals
<1>12. CASE UNCHANGED vars
  BY <1>12, QuietStep DEF vars, db, exec, locals
<1> QED
  BY <1>1, <1>2, <1>3, <1>4, <1>5, <1>6, <1>7, <1>8, <1>9, <1>10, <1>11,
     <1>12 DEF Next, WorkflowStep, LateStep

\* The audit log and the row change together: the last entry names the row's
\* state and no entry records an edge the domain does not allow, whatever is
\* retried, lost or committed late.
THEOREM AuditAgreesWithRow == Spec => []AuditMatchesRow
<1>1. Init => TypeInv /\ AuditInv BY TypeInit, AuditInit
<1>2. TypeInv /\ AuditInv /\ [Next]_vars => TypeInv' /\ AuditInv'
  BY TypeStep, AuditStep
<1>3. AuditInv => AuditMatchesRow BY DEF AuditInv
<1> QED BY <1>1, <1>2, <1>3, PTL DEF Spec

-----------------------------------------------------------------------------
(***************************************************************************)
(* What holds of the row when no abandoned attempt writes late: the row is *)
(* where the workflow takes it to be, a terminal state is final, and the   *)
(* audit log is the history of the row.                                    *)
(***************************************************************************)

\* RowInStep and WebhookMatchesRow of one payment.
RowAt(p) ==
  /\ row[p].state \in RowStates(p)
  /\ snapshot[p] # NoState => snapshot[p] = row[p].state
  /\ pc[p] = "completed" <=> webhook[p] # NoState
  /\ pc[p] = "completed" => webhook[p] = row[p].state
  /\ late[p] = {}

RowInv == \A p \in Payments : RowAt(p)

LEMMA RowInvGives == RowInv => RowInStep /\ WebhookMatchesRow
<1> SUFFICES ASSUME RowInv PROVE RowInStep /\ WebhookMatchesRow
  OBVIOUS
<1>1. RowInStep BY DEF RowInv, RowAt, RowInStep
<1>2. ASSUME NEW p \in Payments, pc[p] = "completed"
      PROVE  webhook[p] = row[p].state /\ IsTerminalState(row[p].state)
  <2>1. RowStates(p) = Terminal BY <1>2 DEF RowStates
  <2> QED BY <1>2, <2>1 DEF RowInv, RowAt, Terminal
<1> QED BY <1>1, <1>2 DEF RowInv, RowAt, WebhookMatchesRow

(***************************************************************************)
(* RowStates along the steps of the workflow.                              *)
(***************************************************************************)

LEMMA RowStatesFacts ==
  ASSUME TypeOK, NEW p \in Payments
  PROVE  /\ pc[p] \in PersistPoints => Target(p) \in RowStates(p)
         /\ pc[p] \in ActivityPoints => RowStates(p) \subseteq PaymentState
         /\ pc[p] \in ActivityPoints => pc[p] # "completed"
<1>1. Target(p) \in PaymentState BY TargetIsState
<1>2. pc[p] \in PersistPoints => Target(p) \in RowStates(p)
  BY DEF PersistPoints, RowStates, Target
<1>3. pc[p] \in ActivityPoints => RowStates(p) \subseteq PaymentState
  BY <1>1 DEF ActivityPoints, PersistPoints, RowStates, PaymentState
<1> QED BY <1>2, <1>3 DEF ActivityPoints, PersistPoints

\* A payment the step does not touch.
LEMMA Untouched ==
  ASSUME NEW q \in Payments, RowAt(q),
         row'[q] = row[q], pc'[q] = pc[q], snapshot'[q] = snapshot[q],
         late'[q] = late[q], rcode'[q] = rcode[q], webhook'[q] = webhook[q],
         representmentCount'[q] = representmentCount[q]
  PROVE  RowAt(q)'
<1>1. Target(q)' = Target(q) BY DEF Target
<1>2. RowStates(q)' = RowStates(q) BY <1>1 DEF RowStates
<1> QED BY <1>2 DEF RowAt

\* The workflow goes on after a persist: the row is in the target state.
LEMMA AfterTransition ==
  ASSUME TypeOK, NEW p \in Payments, pc[p] \in PersistPoints, RowAt(p),
         Transitioned(p), row'[p].state = Target(p), late'[p] = late[p]
  PROVE  RowAt(p)'
<1>1. /\ pc'[p] = AfterPersist(p)
      /\ snapshot'[p] = NoState
      /\ webhook'[p] = IF AfterPersist(p) = "completed" THEN Target(p)
                                                         ELSE webhook[p]
  BY DEF Transitioned, Return, TypeOK
<1>2. representmentCount[p] \in Nat BY DEF TypeOK
<1>3. Target(p) \in PaymentState BY TargetIsState
<1>4. AfterPersist(p) = "completed" => Target(p) \in Terminal
  <2>1. AfterPersist(p) = "completed" =>
          pc[p] \in {"settled", "verdict"} /\ Target(p) # "PENDING"
    BY DEF AfterPersist, PersistPoints
  <2>2. pc[p] = "settled" => Target(p) = "SETTLED" BY DEF Target
  <2>3. pc[p] = "verdict" =>
          Target(p) = Verdict(rcode[p], representmentCount[p])
    BY DEF Target
  <2> QED BY <1>2, <2>1, <2>2, <2>3, VerdictFacts, TerminalStates
<1>5. row'[p].state \in RowStates(p)'
  BY <1>1, <1>4 DEF RowStates, AfterPersist, PersistPoints, Target
<1>6. pc[p] # "completed" BY DEF PersistPoints
<1> QED BY <1>1, <1>3, <1>5, <1>6, EdgesJoinStates DEF RowAt

\* The attempt failed: the workflow stays, or fails with the row as it is.
LEMMA AfterRetry ==
  ASSUME TypeOK, NEW p \in Payments, pc[p] \in ActivityPoints, RowAt(p),
         Retry(p), UNCHANGED locals, late'[p] = late[p],
         row'[p].state \in RowStates(p)
  PROVE  RowAt(p)'
<1>1. snapshot'[p] = NoState /\ pc'[p] \in {pc[p], "failed"}
  BY DEF Retry, TypeOK
<1>2. pc[p] # "completed" /\ RowStates(p) \subseteq PaymentState
  BY RowStatesFacts
<1>3. CASE pc'[p] = pc[p]
  <2>1. Target(p)' = Target(p) BY <1>3 DEF Target, locals
  <2>2. RowStates(p)' = RowStates(p) BY <1>3, <2>1 DEF RowStates
  <2> QED BY <1>1, <1>2, <1>3, <2>2 DEF RowAt, locals
<1>4. CASE pc'[p] = "failed"
  <2>1. RowStates(p)' = PaymentState BY <1>4 DEF RowStates
  <2> QED BY <1>1, <1>2, <1>4, <2>1 DEF RowAt, locals
<1> QED BY <1>1, <1>3, <1>4

\* The workflow goes on after another activity, or at a wait.
LEMMA AfterAdvance ==
  ASSUME NEW p \in Payments, RowAt(p), pc[p] # "completed",
         row'[p] = row[p], webhook'[p] = webhook[p], late'[p] = late[p],
         snapshot'[p] \in {NoState, snapshot[p]},
         \/ << pc[p], pc'[p] >> \in
              { << "created", "pending" >>, << "round", "check" >>,
                << "check", "store" >>, << "check", "wait" >>,
                << "store", "submitted" >>, << "submit", "wait" >>,
                << "wait", "settled" >>, << "wait", "returned" >>,
                << "sleep", "round" >> }
  PROVE  RowAt(p)'
<1>1. row[p].state \in RowStates(p)' BY DEF RowAt, RowStates
<1>2. pc'[p] # "completed" OBVIOUS
<1> QED BY <1>1, <1>2 DEF RowAt

(***************************************************************************)
(* RowInv is inductive.                                                    *)
(***************************************************************************)

LEMMA RowInit == Init => RowInv
BY DEF Init, RowInv, RowAt, RowStates, NoRow

LEMMA RowStep ==
  ASSUME LateEffects = FALSE
  PROVE  TypeInv /\ AuditInv /\ RowInv /\ [Next]_vars => RowInv'
<1> SUFFICES ASSUME TypeInv, AuditInv, RowInv, [Next]_vars
             PROVE  RowInv'
  OBVIOUS
<1> TypeOK BY DEF TypeInv
<1> DEFINE Same(q) ==
      /\ row'[q] = row[q] /\ pc'[q] = pc[q] /\ snapshot'[q] = snapshot[q]
      /\ late'[q] = late[q] /\ rcode'[q] = rcode[q] /\ webhook'[q] = webhook[q]
      /\ representmentCount'[q] = representmentCount[q]
<1>0. ASSUME NEW p \in Payments, RowAt(p)', \A q \in Payments \ {p} : Same(q)
      PROVE  RowInv'
  BY <1>0, Untouched DEF RowInv
<1>1. ASSUME NEW p \in Payments, CreatePayment(p)
      PROVE  RowInv'
  <2>1. \A q \in Payments \ {p} : Same(q)
    BY <1>1 DEF CreatePayment, TypeOK, exec, locals
  <2>2. /\ pc[p] = "absent" /\ pc'[p] = "created" /\ row'[p].state = "INITIATED"
        /\ UNCHANGED << snapshot, late, webhook >>
    BY <1>1 DEF CreatePayment, TypeOK, exec, locals
  <2>3. snapshot[p] = NoState
    BY <2>2 DEF AuditInv, PendingWrites, PersistPoints
  <2>4. RowAt(p)' BY <2>2, <2>3 DEF RowInv, RowAt, RowStates
  <2> QED BY <1>0, <2>1, <2>4
<1>2. ASSUME NEW p \in Payments, NEW code \in RCodes, PostReturn(p, code)
      PROVE  RowInv'
  BY <1>2, Untouched DEF PostReturn, RowInv, db, exec, locals
<1>3. ASSUME NEW p \in Payments, PersistRead(p)
      PROVE  RowInv'
  <2>1. CASE AlreadyApplied(p) /\ Transitioned(p)
    <3>1. \A q \in Payments \ {p} : Same(q)
      BY <1>3, <2>1 DEF PersistRead, Transitioned, Return, TypeOK, db
    <3>2. RowAt(p)'
      BY <1>3, <2>1, AfterTransition
         DEF PersistRead, AlreadyApplied, RowInv, db
    <3> QED BY <1>0, <3>1, <3>2
  <2>2. CASE /\ snapshot' = [snapshot EXCEPT ![p] = row[p].state]
             /\ UNCHANGED << pc, attempt, locals >>
    <3>1. \A q \in Payments \ {p} : Same(q)
      BY <1>3, <2>2 DEF PersistRead, TypeOK, db, locals
    <3>2. /\ snapshot'[p] = row'[p].state
          /\ UNCHANGED << row, pc, late, rcode, representmentCount, webhook >>
      BY <1>3, <2>2 DEF PersistRead, TypeOK, db, locals
    <3>3. Target(p)' = Target(p) BY <3>2 DEF Target
    <3>4. RowStates(p)' = RowStates(p) BY <3>2, <3>3 DEF RowStates
    <3>5. RowAt(p)' BY <3>2, <3>4 DEF RowInv, RowAt
    <3> QED BY <1>0, <3>1, <3>5
  <2>3. CASE Retry(p) /\ UNCHANGED locals
    <3>1. \A q \in Payments \ {p} : Same(q)
      BY <1>3, <2>3 DEF PersistRead, Retry, TypeOK, db, locals
    <3>2. RowAt(p)'
      BY <1>3, <2>3, AfterRetry
         DEF PersistRead, RowInv, RowAt, db, ActivityPoints
    <3> QED BY <1>0, <3>1, <3>2
  <2> QED BY <1>3, <2>1, <2>2, <2>3 DEF PersistRead
<1>4. ASSUME NEW p \in Payments, PersistCommit(p)
      PROVE  RowInv'
  <2>1. /\ row'[p].state = Target(p)
        /\ late' = late
        /\ \A q \in Payments \ {p} : Same(q)
    BY <1>4 DEF PersistCommit, WriteState, Updated, Transitioned, Return,
                Retry, TypeOK, locals
  <2>2. CASE Transitioned(p)
    <3>1. RowAt(p)'
      BY <1>4, <2>1, <2>2, AfterTransition DEF PersistCommit, RowInv
    <3> QED BY <1>0, <2>1, <3>1
  <2>3. CASE Retry(p) /\ UNCHANGED locals
    <3>1. row'[p].state \in RowStates(p)
      BY <1>4, <2>1, RowStatesFacts DEF PersistCommit
    <3>2. RowAt(p)'
      BY <1>4, <2>1, <2>3, <3>1, AfterRetry
         DEF PersistCommit, RowInv, ActivityPoints
    <3> QED BY <1>0, <2>1, <3>2
  <2> QED BY <1>4, <2>2, <2>3 DEF PersistCommit
<1>5. ASSUME NEW p \in Payments, FailAttempt(p)
      PROVE  RowInv'
  <2>1. AbandonedWrite(p) = {} BY DEF AbandonedWrite
  <2>2. late'[p] = late[p] /\ \A q \in Payments \ {p} : Same(q)
    BY <1>5, <2>1 DEF FailAttempt, Retry, TypeOK, db, locals
  <2>3. RowAt(p)'
    BY <1>5, <2>2, AfterRetry DEF FailAttempt, RowInv, RowAt, db
  <2> QED BY <1>0, <2>2, <2>3
<1>6. ASSUME NEW p \in Payments,
             \/ ExecuteWorkflow(p) \/ GenerateTraceNumber(p)
             \/ ReceiveReturn(p) \/ SettlementTimer(p) \/ WakeUp(p)
      PROVE  RowInv'
  <2>1. \A q \in Payments \ {p} : Same(q)
    BY <1>6 DEF ExecuteWorkflow, GenerateTraceNumber, ReceiveReturn,
                SettlementTimer, WakeUp, ContextsEnd, TypeOK, db, exec, locals
  <2>2. UNCHANGED << row, webhook, snapshot >> /\ late'[p] = late[p]
    <3>1. late[p] = {} BY DEF RowInv, RowAt
    <3> QED
      BY <1>6, <3>1 DEF ExecuteWorkflow, GenerateTraceNumber, ReceiveReturn,
                        SettlementTimer, WakeUp, ContextsEnd, TypeOK,
                        db, exec, locals
  <2>3. << pc[p], pc'[p] >> \in
          { << "created", "pending" >>, << "round", "check" >>,
            << "wait", "settled" >>, << "wait", "returned" >>,
            << "sleep", "round" >> }
    BY <1>6 DEF ExecuteWorkflow, GenerateTraceNumber, ReceiveReturn,
                SettlementTimer, WakeUp, TypeOK
  <2>4. RowAt(p)' BY <2>2, <2>3, AfterAdvance DEF RowInv
  <2> QED BY <1>0, <2>1, <2>4
<1>7. ASSUME NEW p \in Payments,
             CheckIdempotency(p) \/ StoreTraceNumber(p) \/ SubmitToACH(p)
      PROVE  RowInv'
  <2>1. UNCHANGED << row, late, locals >>
    BY <1>7 DEF CheckIdempotency, StoreTraceNumber, SubmitToACH, db
  <2>2. \A q \in Payments \ {p} : Same(q)
    BY <1>7, <2>1 DEF CheckIdempotency, StoreTraceNumber, SubmitToACH,
                      Return, Retry, TypeOK, locals
  <2>3. CASE Retry(p)
    BY <1>0, <1>7, <2>1, <2>2, <2>3, AfterRetry
       DEF CheckIdempotency, StoreTraceNumber, SubmitToACH, RowInv, RowAt,
           ActivityPoints
  <2>4. CASE ~ Retry(p)
    <3>1. /\ snapshot'[p] = NoState
          /\ << pc[p], pc'[p] >> \in
               { << "check", "store" >>, << "check", "wait" >>,
                 << "store", "submitted" >>, << "submit", "wait" >> }
      BY <1>7, <2>4 DEF CheckIdempotency, StoreTraceNumber, SubmitToACH,
                        Return, AfterCheck, TypeOK
    <3>2. RowAt(p)' BY <2>1, <3>1, AfterAdvance DEF RowInv, locals
    <3> QED BY <1>0, <2>2, <3>2
  <2> QED BY <2>3, <2>4
<1>8. ASSUME NEW p \in Payments, NEW write \in late[p], LateCommit(p, write)
      PROVE  RowInv'
  BY <1>8 DEF RowInv, RowAt
<1>9. ASSUME NEW p \in Payments, NEW entry \in unsent[p], LateSubmit(p, entry)
      PROVE  RowInv'
  BY <1>9, Untouched DEF LateSubmit, RowInv, db, locals
<1>10. CASE UNCHANGED vars
  BY <1>10, Untouched DEF RowInv, vars, db, exec, locals
<1> QED
  BY <1>1, <1>2, <1>3, <1>4, <1>5, <1>6, <1>7, <1>8, <1>9, <1>10
     DEF Next, WorkflowStep, LateStep

AllInv == TypeInv /\ AuditInv /\ RowInv

LEMMA AllInvariant == LateEffects = FALSE => (Spec => []AllInv)
<1> SUFFICES ASSUME LateEffects = FALSE PROVE Spec => []AllInv
  OBVIOUS
<1>1. Init => AllInv BY TypeInit, AuditInit, RowInit DEF AllInv
<1>2. AllInv /\ [Next]_vars => AllInv'
  BY TypeStep, AuditStep, RowStep DEF AllInv
<1> QED BY <1>1, <1>2, PTL DEF Spec

\* Without late effects the row is always where the workflow takes it to be,
\* through every retry and lost result: no FromState check is needed.
THEOREM RowFollowsWorkflow == LateEffects = FALSE => (Spec => []RowInStep)
<1>1. AllInv => RowInStep BY RowInvGives DEF AllInv
<1> QED BY <1>1, AllInvariant, PTL

\* Without late effects a webhook carries the terminal state the row has, and
\* the row keeps it.
THEOREM WebhookTellsRow == LateEffects = FALSE => (Spec => []WebhookMatchesRow)
<1>1. AllInv => WebhookMatchesRow BY RowInvGives DEF AllInv
<1> QED BY <1>1, AllInvariant, PTL

(***************************************************************************)
(* Terminal states.                                                        *)
(***************************************************************************)

\* A write changes a row that the attempt has seen in a non-terminal state.
LEMMA TerminalStep ==
  ASSUME LateEffects = FALSE, AllInv, [Next]_vars,
         NEW p \in Payments, IsTerminalState(row[p].state)
  PROVE  row'[p].state = row[p].state
<1> TypeOK BY DEF AllInv, TypeInv
<1>1. ASSUME NEW q \in Payments, CreatePayment(q)
      PROVE  row'[p].state = row[p].state
  <2>1. row[q].state = NoState
    BY <1>1 DEF CreatePayment, AllInv, RowInv, RowAt, RowStates
  <2>2. p # q BY <2>1, EdgesJoinStates DEF IsTerminalState
  <2> QED BY <1>1, <2>2 DEF CreatePayment, TypeOK
<1>2. ASSUME NEW q \in Payments, PersistCommit(q)
      PROVE  row'[p].state = row[p].state
  <2>1. /\ snapshot[q] = row[q].state
        /\ IsTransitionAllowed(snapshot[q], Target(q))
    BY <1>2 DEF PersistCommit, AllInv, RowInv, RowAt, AuditInv, PendingWrites
  <2>2. Target(q) \in PaymentState BY <2>1, EdgesJoinStates
  <2>3. p # q BY <2>1, <2>2 DEF IsTerminalState
  <2> QED BY <1>2, <2>3 DEF PersistCommit, WriteState, TypeOK
<1>3. ASSUME NEW q \in Payments, NEW write \in late[q], LateCommit(q, write)
      PROVE  row'[p].state = row[p].state
  BY <1>3 DEF AllInv, RowInv, RowAt
<1>4. ASSUME NEW q \in Payments,
             \/ ExecuteWorkflow(q) \/ (\E code \in RCodes : PostReturn(q, code))
             \/ PersistRead(q) \/ FailAttempt(q) \/ GenerateTraceNumber(q)
             \/ CheckIdempotency(q) \/ StoreTraceNumber(q) \/ SubmitToACH(q)
             \/ ReceiveReturn(q) \/ SettlementTimer(q) \/ WakeUp(q)
             \/ (\E entry \in unsent[q] : LateSubmit(q, entry))
      PROVE  row'[p].state = row[p].state
  <2>1. row' = row
    BY <1>4 DEF ExecuteWorkflow, PostReturn, PersistRead, FailAttempt,
                GenerateTraceNumber, CheckIdempotency, StoreTraceNumber,
                SubmitToACH, ReceiveReturn, SettlementTimer, WakeUp, LateSubmit,
                db
  <2> QED BY <2>1
<1>5. CASE UNCHANGED vars BY <1>5 DEF vars, db
<1> QED BY <1>1, <1>2, <1>3, <1>4, <1>5 DEF Next, WorkflowStep, LateStep

\* Without late effects no step takes a row out of a terminal state, although
\* the UPDATE does not look at the state it overwrites.
THEOREM TerminalIsFinal == LateEffects = FALSE => (Spec => TerminalAbsorbing)
<1> SUFFICES ASSUME LateEffects = FALSE PROVE Spec => TerminalAbsorbing
  OBVIOUS
<1>1. AllInv /\ [Next]_vars =>
        [\A p \in Payments :
           IsTerminalState(row[p].state) => row'[p].state = row[p].state]_vars
  BY TerminalStep
<1>2. Spec => []AllInv BY AllInvariant
<1> QED BY <1>1, <1>2, PTL DEF Spec, TerminalAbsorbing

(***************************************************************************)
(* The audit log.                                                          *)
(***************************************************************************)

\* A write from the state the row has continues the history.
LEMMA WriteContinuesHistory ==
  ASSUME TypeOK, AuditInv, AuditIsHistory, NEW p \in Payments, NEW to,
         IsTransitionAllowed(row[p].state, to), WriteState(p, row[p].state, to)
  PROVE  AuditIsHistory'
<1> DEFINE entry == [from |-> row[p].state, to |-> to]
<1>1. entry \in AuditEntry BY EdgesJoinStates DEF AuditEntry
<1>2. /\ row'[p].state = to
      /\ audit'[p] = Append(audit[p], entry)
      /\ \A q \in Payments \ {p} : row'[q] = row[q] /\ audit'[q] = audit[q]
  BY DEF WriteState, Updated, TypeOK
<1>3. audit[p] \in Seq(AuditEntry) BY DEF TypeOK
<1>4. /\ audit'[p] \in Seq(AuditEntry)
      /\ Len(audit'[p]) = Len(audit[p]) + 1
      /\ audit'[p][Len(audit'[p])] = entry
      /\ \A i \in 1 .. Len(audit[p]) : audit'[p][i] = audit[p][i]
  BY <1>1, <1>2, <1>3
<1>5. row[p].state = IF Len(audit'[p]) = 1 THEN "INITIATED"
                     ELSE audit'[p][Len(audit'[p]) - 1].to
  <2>1. CASE audit[p] = << >>
    <3>1. row[p].state = "INITIATED"
      BY <2>1, EdgesJoinStates DEF AuditInv, AuditMatchesRow
    <3> QED BY <1>4, <2>1, <3>1
  <2>2. CASE audit[p] # << >>
    <3>1. Len(audit[p]) \in 1 .. Len(audit[p]) BY <1>3, <2>2
    <3>2. row[p].state = audit[p][Len(audit[p])].to
      BY <2>2 DEF AuditIsHistory
    <3> QED BY <1>3, <1>4, <3>1, <3>2
  <2> QED BY <2>1, <2>2
<1>6. ASSUME NEW i \in DOMAIN audit'[p]
      PROVE  /\ IsTransitionAllowed(audit'[p][i].from, audit'[p][i].to)
             /\ audit'[p][i].from =
                  IF i = 1 THEN "INITIATED" ELSE audit'[p][i - 1].to
  <2>1. CASE i = Len(audit'[p]) BY <1>4, <1>5, <2>1
  <2>2. CASE i # Len(audit'[p])
    <3>1. i \in 1 .. Len(audit[p]) BY <1>3, <1>4, <2>2
    <3>2. /\ IsTransitionAllowed(audit[p][i].from, audit[p][i].to)
          /\ audit[p][i].from = IF i = 1 THEN "INITIATED" ELSE audit[p][i - 1].to
      BY <1>3, <3>1 DEF AuditIsHistory
    <3>3. i # 1 => i - 1 \in 1 .. Len(audit[p]) BY <1>3, <3>1
    <3> QED BY <1>4, <3>1, <3>2, <3>3
  <2> QED BY <2>1, <2>2
<1>7. audit'[p][Len(audit'[p])].to = row'[p].state BY <1>2, <1>4
<1>8. ASSUME NEW q \in Payments
      PROVE  /\ \A i \in DOMAIN audit'[q] :
                  /\ IsTransitionAllowed(audit'[q][i].from, audit'[q][i].to)
                  /\ audit'[q][i].from =
                       IF i = 1 THEN "INITIATED" ELSE audit'[q][i - 1].to
             /\ audit'[q] # << >> => audit'[q][Len(audit'[q])].to = row'[q].state
  <2>1. CASE q = p BY <1>6, <1>7, <2>1
  <2>2. CASE q # p BY <1>2, <2>2 DEF AuditIsHistory
  <2> QED BY <2>1, <2>2
<1> QED BY <1>8 DEF AuditIsHistory

LEMMA HistoryStep ==
  ASSUME LateEffects = FALSE
  PROVE  AllInv /\ AuditIsHistory /\ [Next]_vars => AuditIsHistory'
<1> SUFFICES ASSUME AllInv, AuditIsHistory, [Next]_vars
             PROVE  AuditIsHistory'
  OBVIOUS
<1> TypeOK BY DEF AllInv, TypeInv
<1>1. ASSUME NEW p \in Payments, CreatePayment(p)
      PROVE  AuditIsHistory'
  <2>1. audit[p] = << >>
    BY <1>1 DEF CreatePayment, AllInv, AuditInv, PendingWrites
  <2>2. UNCHANGED audit /\ \A q \in Payments : q # p => row'[q] = row[q]
    BY <1>1 DEF CreatePayment, TypeOK
  <2> QED BY <2>1, <2>2 DEF AuditIsHistory
<1>2. ASSUME NEW p \in Payments, PersistCommit(p)
      PROVE  AuditIsHistory'
  <2>1. /\ snapshot[p] = row[p].state
        /\ IsTransitionAllowed(snapshot[p], Target(p))
    BY <1>2 DEF PersistCommit, AllInv, RowInv, RowAt, AuditInv, PendingWrites
  <2> QED
    BY <1>2, <2>1, WriteContinuesHistory DEF PersistCommit, AllInv
<1>3. ASSUME NEW p \in Payments, NEW write \in late[p], LateCommit(p, write)
      PROVE  AuditIsHistory'
  BY <1>3 DEF AllInv, RowInv, RowAt
<1>4. CASE UNCHANGED db
  BY <1>4 DEF AuditIsHistory, db
<1>5. CASE UNCHANGED vars BY <1>4, <1>5 DEF vars
<1> QED
  BY <1>1, <1>2, <1>3, <1>4, <1>5
     DEF Next, WorkflowStep, ExecuteWorkflow, PostReturn, PersistRead,
         FailAttempt, GenerateTraceNumber, CheckIdempotency, StoreTraceNumber,
         SubmitToACH, ReceiveReturn, SettlementTimer, WakeUp, LateStep,
         LateSubmit

\* Without late effects the audit log is the history of the row: allowed edges
\* that follow one another from INITIATED to the state the row is in.
THEOREM AuditLogIsHistory == LateEffects = FALSE => (Spec => []AuditIsHistory)
<1> SUFFICES ASSUME LateEffects = FALSE PROVE Spec => []AuditIsHistory
  OBVIOUS
<1>1. Init => AuditIsHistory BY DEF Init, AuditIsHistory
<1>2. AllInv /\ AuditIsHistory /\ [Next]_vars => AuditIsHistory'
  BY HistoryStep
<1>3. Spec => []AllInv BY AllInvariant
<1> QED BY <1>1, <1>2, <1>3, PTL DEF Spec

(***************************************************************************)
(* The time stamps.                                                        *)
(***************************************************************************)

\* A write over a row that is in no final state: both stamps were unset.
LEMMA WriteStamps ==
  ASSUME TypeOK, StampsMatchState, NEW p \in Payments, NEW to,
         IsTransitionAllowed(row[p].state, to), WriteState(p, row[p].state, to)
  PROVE  StampsMatchState'
<1>1. row[p].state \notin FailureState \cup {"SETTLED"}
  BY DEF IsTransitionAllowed, AllowedTransitions, FailureState
<1>2. row[p].settledAt = FALSE /\ row[p].failedAt = FALSE
  BY <1>1 DEF StampsMatchState, TypeOK
<1>3. /\ row'[p].state = to
      /\ row'[p].settledAt <=> to = "SETTLED"
      /\ row'[p].failedAt <=> to \in FailureState
  <2>1. row'[p] = Updated(row[p], to) BY DEF WriteState, TypeOK
  <2>2. /\ row'[p].state = to
        /\ row'[p].settledAt = (row[p].settledAt \/ to = "SETTLED")
        /\ row'[p].failedAt = (row[p].failedAt \/ to \in FailureState)
    BY <2>1 DEF Updated, TypeOK
  <2> QED BY <1>2, <2>2, Zenon
<1>4. \A q \in Payments \ {p} : row'[q] = row[q]
  BY DEF WriteState, TypeOK
<1>5. ASSUME NEW q \in Payments
      PROVE  /\ row'[q].settledAt <=> row'[q].state = "SETTLED"
             /\ row'[q].failedAt <=> row'[q].state \in FailureState
  <2>1. CASE q = p BY <1>3, <2>1
  <2>2. CASE q # p BY <1>4, <2>2 DEF StampsMatchState
  <2> QED BY <2>1, <2>2
<1> QED BY <1>5 DEF StampsMatchState

LEMMA StampsStep ==
  ASSUME LateEffects = FALSE
  PROVE  AllInv /\ StampsMatchState /\ [Next]_vars => StampsMatchState'
<1> SUFFICES ASSUME AllInv, StampsMatchState, [Next]_vars
             PROVE  StampsMatchState'
  OBVIOUS
<1> TypeOK BY DEF AllInv, TypeInv
<1>1. ASSUME NEW p \in Payments, CreatePayment(p)
      PROVE  StampsMatchState'
  <2>1. row[p].state = NoState
    BY <1>1 DEF CreatePayment, AllInv, RowInv, RowAt, RowStates
  <2>2. row[p].settledAt = FALSE /\ row[p].failedAt = FALSE
    BY <2>1 DEF StampsMatchState, TypeOK, NoState, FailureState
  <2>3. /\ row'[p].state = "INITIATED"
        /\ row'[p].settledAt = FALSE
        /\ row'[p].failedAt = FALSE
        /\ \A q \in Payments \ {p} : row'[q] = row[q]
    BY <1>1, <2>2 DEF CreatePayment, TypeOK
  <2> QED BY <2>3 DEF StampsMatchState, FailureState
<1>2. ASSUME NEW p \in Payments, PersistCommit(p)
      PROVE  StampsMatchState'
  <2>1. /\ snapshot[p] = row[p].state
        /\ IsTransitionAllowed(snapshot[p], Target(p))
    BY <1>2 DEF PersistCommit, AllInv, RowInv, RowAt, AuditInv, PendingWrites
  <2> QED BY <1>2, <2>1, WriteStamps DEF PersistCommit
<1>3. ASSUME NEW p \in Payments, NEW write \in late[p], LateCommit(p, write)
      PROVE  StampsMatchState'
  BY <1>3 DEF AllInv, RowInv, RowAt
<1>4. CASE UNCHANGED db
  BY <1>4 DEF StampsMatchState, db
<1>5. CASE UNCHANGED vars BY <1>4, <1>5 DEF vars
<1> QED
  BY <1>1, <1>2, <1>3, <1>4, <1>5
     DEF Next, WorkflowStep, ExecuteWorkflow, PostReturn, PersistRead,
         FailAttempt, GenerateTraceNumber, CheckIdempotency, StoreTraceNumber,
         SubmitToACH, ReceiveReturn, SettlementTimer, WakeUp, LateStep,
         LateSubmit

\* Without late effects settled_at and failed_at are set in their final states
\* alone, through every COALESCE on the way.
THEOREM StampsTellState == LateEffects = FALSE => (Spec => []StampsMatchState)
<1> SUFFICES ASSUME LateEffects = FALSE PROVE Spec => []StampsMatchState
  OBVIOUS
<1>1. Init => StampsMatchState
  BY DEF Init, StampsMatchState, NoRow, NoState, FailureState
<1>2. AllInv /\ StampsMatchState /\ [Next]_vars => StampsMatchState'
  BY StampsStep
<1>3. Spec => []AllInv BY AllInvariant
<1> QED BY <1>1, <1>2, <1>3, PTL DEF Spec
=============================================================================
