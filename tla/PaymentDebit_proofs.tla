------------------------- MODULE PaymentDebit_proofs -------------------------
(***************************************************************************)
(* Theorems about what PaymentWorkflow sends and what the audit log says   *)
(* of it.  First, whatever timed-out attempts write or submit late: at     *)
(* most one trace number per round and MaxRepresentments + 1 in all, and   *)
(* no more copies of an entry than attempts.  Then, without late effects:  *)
(* nothing is sent after a return that may not be represented, the log     *)
(* counts the rounds, outcomes are justified, and the workflow implements  *)
(* PaymentLifecycle.                                                       *)
(***************************************************************************)
EXTENDS PaymentWorkflow_proofs, PaymentWorkflowClaims, FiniteSetTheorems

\* The control points of a round before its entry is sent.
BeforeSubmission ==
  { "absent", "created", "pending", "round", "check", "store", "submitted" }

\* The points at which the last return is not decided upon yet, or ended it.
AfterReturn == { "returned", "verdict", "completed", "failed" }

DebitAt(p) ==
  /\ pc[p] \notin AfterReturn => rcode[p] \in RetryableCodes \cup {NoCode}
  /\ pc[p] \in { "check", "store", "submitted", "submit" } =>
       traceNumber[p][2] = representmentCount[p]
  /\ \A entry \in unsent[p] :
       /\ pc[p] \notin BeforeSubmission
       /\ entry.trace = traceNumber[p]
       /\ entry.trace[2] = representmentCount[p]
  /\ \A i \in DOMAIN wire[p] :
       /\ wire[p][i][2] <= representmentCount[p]
       /\ wire[p][i][2] = representmentCount[p] =>
            /\ pc[p] \notin BeforeSubmission
            /\ wire[p][i] = traceNumber[p]
  /\ \A i, j \in DOMAIN wire[p] :
       wire[p][i][2] = wire[p][j][2] => wire[p][i] = wire[p][j]

DebitInv == \A p \in Payments : DebitAt(p)

LEMMA DebitInvGives == TypeInv /\ DebitInv => DebitLimit
<1> SUFFICES ASSUME TypeInv, DebitInv,
                    NEW p \in Payments,
                    NEW i \in DOMAIN wire[p], NEW j \in DOMAIN wire[p]
             PROVE  /\ wire[p][i][2] <= MaxRepresentments
                    /\ wire[p][i][2] = wire[p][j][2] => wire[p][i] = wire[p][j]
  BY DEF DebitLimit
<1>1. wire[p][i] \in TraceNumbers BY DEF TypeInv, TypeOK
<1>2. wire[p][i][2] \in Nat BY <1>1 DEF TraceNumbers
<1>3. representmentCount[p] \in 0 .. MaxRepresentments BY DEF TypeInv, TypeOK
<1>4. wire[p][i][2] <= representmentCount[p] BY DEF DebitInv, DebitAt
<1> QED BY <1>2, <1>3, <1>4, ConstantsAssumption DEF DebitInv, DebitAt

\* A step that sends nothing, keeps the round and its trace number, and goes
\* neither back before the submission nor on from a decision on a return.
LEMMA DebitKept ==
  ASSUME NEW p \in Payments, DebitAt(p),
         wire'[p] = wire[p], traceNumber'[p] = traceNumber[p],
         representmentCount'[p] = representmentCount[p],
         unsent'[p] \subseteq unsent[p],
         pc'[p] \in BeforeSubmission => pc[p] \in BeforeSubmission,
         pc'[p] \in {"check", "store", "submitted", "submit"} =>
           pc[p] \in {"check", "store", "submitted", "submit"},
         pc'[p] \notin AfterReturn => rcode'[p] \in RetryableCodes \cup {NoCode}
  PROVE  DebitAt(p)'
BY DEF DebitAt

LEMMA DebitInit == Init => DebitInv
BY DEF Init, DebitInv, DebitAt, AfterReturn

LEMMA DebitTransitioned ==
  ASSUME TypeOK, NEW p \in Payments, pc[p] \in PersistPoints, DebitAt(p),
         Transitioned(p), wire'[p] = wire[p], unsent'[p] = unsent[p]
  PROVE  DebitAt(p)'
<1>1. /\ pc'[p] = AfterPersist(p)
      /\ traceNumber'[p] = traceNumber[p]
      /\ representmentCount'[p] = representmentCount[p]
      /\ rcode'[p] = rcode[p]
  BY DEF Transitioned, Return, TypeOK
<1>2. CASE AfterPersist(p) = "sleep"
  <2>1. rcode[p] \in RetryableCodes BY <1>2, AfterPersistSleeps
  <2> QED BY <1>1, <1>2, <2>1, DebitKept DEF BeforeSubmission
<1>3. CASE AfterPersist(p) # "sleep"
  <2>1. /\ AfterPersist(p) \in {"round", "submit", "verdict", "completed"}
        /\ AfterPersist(p) = "round" => pc[p] = "pending"
        /\ AfterPersist(p) = "submit" => pc[p] = "submitted"
    BY <1>3 DEF AfterPersist
  <2>2. pc'[p] \notin AfterReturn => pc[p] \notin AfterReturn
    BY <1>1, <2>1 DEF AfterReturn
  <2>3. pc'[p] \notin AfterReturn => rcode[p] \in RetryableCodes \cup {NoCode}
    BY <2>2 DEF DebitAt
  <2> QED BY <1>1, <2>1, <2>3, DebitKept DEF BeforeSubmission
<1> QED BY <1>2, <1>3

\* A failed attempt of the submission may leave its entry behind.
LEMMA DebitRetry ==
  ASSUME TypeOK, NEW p \in Payments, DebitAt(p), Retry(p),
         UNCHANGED locals, wire'[p] = wire[p],
         unsent'[p] \subseteq unsent[p] \cup AbandonedEntry(p)
  PROVE  DebitAt(p)'
<1>1. pc'[p] \in {pc[p], "failed"} BY DEF Retry, TypeOK
<1>2. pc'[p] \notin AfterReturn => rcode[p] \in RetryableCodes \cup {NoCode}
  BY <1>1 DEF AfterReturn, DebitAt
<1>3. ASSUME NEW entry \in unsent'[p]
      PROVE  /\ pc[p] \notin BeforeSubmission
             /\ entry.trace = traceNumber[p]
             /\ entry.trace[2] = representmentCount[p]
  <2>1. CASE entry \in unsent[p] BY <2>1 DEF DebitAt
  <2>2. CASE entry \in AbandonedEntry(p)
    BY <2>2 DEF AbandonedEntry, DebitAt, BeforeSubmission
  <2> QED BY <2>1, <2>2
<1>4. pc'[p] \in BeforeSubmission => pc[p] \in BeforeSubmission
  BY <1>1 DEF BeforeSubmission
<1> QED BY <1>1, <1>2, <1>3, <1>4 DEF DebitAt, BeforeSubmission, locals

\* The entry of the current round is sent, once more or for the first time,
\* by the attempt that runs or by one that was given up.
LEMMA DebitSent ==
  ASSUME TypeInv, NEW p \in Payments, DebitAt(p),
         traceNumber[p] \in TraceNumbers,
         traceNumber[p][2] = representmentCount[p],
         wire'[p] = Append(wire[p], traceNumber[p]), UNCHANGED locals,
         unsent'[p] \subseteq unsent[p],
         pc[p] \notin BeforeSubmission, pc'[p] \notin BeforeSubmission,
         pc'[p] \notin AfterReturn => pc[p] \notin AfterReturn
  PROVE  DebitAt(p)'
<1>2. wire[p] \in Seq(TraceNumbers) BY DEF TypeInv, TypeOK
<1>3. /\ Len(wire'[p]) = Len(wire[p]) + 1
      /\ DOMAIN wire'[p] = 1 .. Len(wire[p]) + 1
      /\ wire'[p][Len(wire[p]) + 1] = traceNumber[p]
      /\ \A i \in DOMAIN wire[p] : wire'[p][i] = wire[p][i]
  BY <1>2
<1>4. \A i \in DOMAIN wire'[p] :
        i \in DOMAIN wire[p] \/ wire'[p][i] = traceNumber[p]
  BY <1>2, <1>3
<1>6. representmentCount[p] <= representmentCount[p] BY DEF TypeInv, TypeOK
<1>7. ASSUME NEW i \in DOMAIN wire'[p]
      PROVE  /\ wire'[p][i][2] <= representmentCount[p]
             /\ wire'[p][i][2] = representmentCount[p] =>
                  wire'[p][i] = traceNumber[p]
  <2>1. CASE i \in DOMAIN wire[p] BY <1>3, <2>1 DEF DebitAt
  <2>2. CASE i \notin DOMAIN wire[p] BY <1>4, <1>6, <2>2
  <2> QED BY <2>1, <2>2
<1>8. ASSUME NEW i \in DOMAIN wire'[p], NEW j \in DOMAIN wire'[p],
             wire'[p][i][2] = wire'[p][j][2]
      PROVE  wire'[p][i] = wire'[p][j]
  <2>1. CASE i \in DOMAIN wire[p] /\ j \in DOMAIN wire[p]
    BY <1>3, <1>8, <2>1 DEF DebitAt
  <2>2. CASE i \notin DOMAIN wire[p] \/ j \notin DOMAIN wire[p]
    BY <1>4, <1>7, <1>8, <2>2
  <2> QED BY <2>1, <2>2
<1>9. pc'[p] \notin AfterReturn => rcode[p] \in RetryableCodes \cup {NoCode}
  BY DEF DebitAt
<1>10. \A entry \in unsent'[p] : /\ entry.trace = traceNumber[p]
                                /\ entry.trace[2] = representmentCount[p]
  BY DEF DebitAt
<1> QED BY <1>7, <1>8, <1>9, <1>10 DEF DebitAt, locals

LEMMA DebitStep == TypeInv /\ DebitInv /\ [Next]_vars => DebitInv'
<1> SUFFICES ASSUME TypeInv, DebitInv, [Next]_vars
             PROVE  DebitInv'
  OBVIOUS
<1> TypeOK BY DEF TypeInv
<1> DEFINE Same(q) ==
      /\ pc'[q] = pc[q] /\ wire'[q] = wire[q] /\ rcode'[q] = rcode[q]
      /\ traceNumber'[q] = traceNumber[q] /\ unsent'[q] = unsent[q]
      /\ representmentCount'[q] = representmentCount[q]
<1>0. ASSUME NEW q \in Payments, Same(q)
      PROVE  DebitAt(q)'
  BY <1>0 DEF DebitInv, DebitAt
<1>1. ASSUME NEW p \in Payments, DebitAt(p)', \A q \in Payments \ {p} : Same(q)
      PROVE  DebitInv'
  BY <1>0, <1>1 DEF DebitInv
<1>2. ASSUME NEW p \in Payments, CreatePayment(p) \/ ExecuteWorkflow(p)
      PROVE  DebitInv'
  <2>1. /\ << pc[p], pc'[p] >> \in
             { << "absent", "created" >>, << "created", "pending" >> }
        /\ UNCHANGED << wire, traceNumber, representmentCount, rcode, unsent >>
        /\ \A q \in Payments \ {p} : Same(q)
    BY <1>2 DEF CreatePayment, ExecuteWorkflow, TypeOK, ach, exec, locals
  <2>2. rcode[p] \in RetryableCodes \cup {NoCode}
    BY <2>1 DEF DebitInv, DebitAt, AfterReturn
  <2>3. DebitAt(p)'
    BY <2>1, <2>2, DebitKept DEF DebitInv, BeforeSubmission
  <2> QED BY <1>1, <2>1, <2>3
<1>3. ASSUME NEW p \in Payments, NEW code \in RCodes, PostReturn(p, code)
      PROVE  DebitInv'
  BY <1>0, <1>3 DEF PostReturn, DebitInv, ach, exec, locals
<1>4. ASSUME NEW p \in Payments, PersistRead(p) \/ PersistCommit(p)
      PROVE  DebitInv'
  <2>1. /\ pc[p] \in PersistPoints
        /\ wire' = wire /\ unsent' = unsent
    BY <1>4 DEF PersistRead, PersistCommit, ach
  <2>2. CASE Transitioned(p)
    <3>1. \A q \in Payments \ {p} : Same(q)
      BY <2>1, <2>2 DEF Transitioned, Return, TypeOK
    <3>2. DebitAt(p)' BY <2>1, <2>2, DebitTransitioned DEF DebitInv
    <3> QED BY <1>1, <3>1, <3>2
  <2>3. CASE Retry(p) /\ UNCHANGED locals
    <3>1. \A q \in Payments \ {p} : Same(q)
      BY <2>1, <2>3 DEF Retry, TypeOK, locals
    <3>2. DebitAt(p)' BY <2>1, <2>3, DebitRetry DEF DebitInv
    <3> QED BY <1>1, <3>1, <3>2
  <2>4. CASE UNCHANGED << pc, locals >>
    BY <1>0, <2>1, <2>4 DEF DebitInv, locals
  <2> QED BY <1>4, <2>2, <2>3, <2>4 DEF PersistRead, PersistCommit, locals
<1>5. ASSUME NEW p \in Payments, FailAttempt(p)
      PROVE  DebitInv'
  <2>1. Retry(p) /\ UNCHANGED locals /\ wire' = wire
    BY <1>5 DEF FailAttempt, ach
  <2>2. /\ unsent'[p] \subseteq unsent[p] \cup AbandonedEntry(p)
        /\ \A q \in Payments \ {p} : unsent'[q] = unsent[q]
    BY <1>5 DEF FailAttempt, TypeOK
  <2>3. \A q \in Payments \ {p} : Same(q)
    BY <2>1, <2>2 DEF Retry, TypeOK, locals
  <2>4. DebitAt(p)' BY <2>1, <2>2, DebitRetry DEF DebitInv
  <2> QED BY <1>1, <2>3, <2>4
<1>6. ASSUME NEW p \in Payments, GenerateTraceNumber(p)
      PROVE  DebitInv'
  <2>1. PICK second \in Seconds :
          traceNumber' = [traceNumber EXCEPT ![p] = Trace(p, second)]
    BY <1>6 DEF GenerateTraceNumber
  <2>2. traceNumber'[p][2] = representmentCount[p] BY <2>1 DEF Trace, TypeOK
  <2>3. /\ pc[p] = "round" /\ pc'[p] = "check"
        /\ UNCHANGED << wire, rcode, representmentCount, unsent >>
        /\ \A q \in Payments \ {p} : Same(q)
    BY <1>6, <2>1 DEF GenerateTraceNumber, TypeOK, ach, exec
  <2>4. /\ \A i \in DOMAIN wire[p] : wire[p][i][2] # representmentCount[p]
        /\ unsent[p] = {}
    BY <2>3 DEF DebitInv, DebitAt, BeforeSubmission
  <2>5. rcode[p] \in RetryableCodes \cup {NoCode}
    BY <2>3 DEF DebitInv, DebitAt, AfterReturn
  <2>6. \A i \in DOMAIN wire'[p] :
          /\ wire'[p][i][2] <= representmentCount'[p]
          /\ wire'[p][i][2] # representmentCount'[p]
    BY <2>3, <2>4 DEF DebitInv, DebitAt
  <2>7. \A i, j \in DOMAIN wire'[p] :
          wire'[p][i][2] = wire'[p][j][2] => wire'[p][i] = wire'[p][j]
    BY <2>3 DEF DebitInv, DebitAt
  <2>8. DebitAt(p)'
    BY <2>2, <2>3, <2>4, <2>5, <2>6, <2>7 DEF DebitAt
  <2> QED BY <1>1, <2>3, <2>8
<1>7. ASSUME NEW p \in Payments, CheckIdempotency(p) \/ StoreTraceNumber(p)
      PROVE  DebitInv'
  <2>1. UNCHANGED << wire, unsent, locals >>
    BY <1>7 DEF CheckIdempotency, StoreTraceNumber, ach
  <2>2. \A q \in Payments \ {p} : Same(q)
    BY <1>7, <2>1 DEF CheckIdempotency, StoreTraceNumber, Return, Retry,
                      TypeOK, locals
  <2>3. CASE Retry(p) BY <1>1, <2>1, <2>2, <2>3, DebitRetry DEF DebitInv
  <2>4. CASE ~ Retry(p)
    <3>1. << pc[p], pc'[p] >> \in
            { << "check", "store" >>, << "check", "wait" >>,
              << "store", "submitted" >> }
      BY <1>7, <2>4 DEF CheckIdempotency, StoreTraceNumber, Return,
                        AfterCheck, TypeOK
    <3>2. rcode'[p] \in RetryableCodes \cup {NoCode}
      BY <2>1, <3>1 DEF DebitInv, DebitAt, AfterReturn, locals
    <3>3. DebitAt(p)'
      BY <2>1, <3>1, <3>2, DebitKept DEF DebitInv, BeforeSubmission, locals
    <3> QED BY <1>1, <2>2, <3>3
  <2> QED BY <2>3, <2>4
<1>8. ASSUME NEW p \in Payments, SubmitToACH(p)
      PROVE  DebitInv'
  <2>1. /\ pc[p] = "submit"
        /\ pc'[p] \in {"submit", "wait", "failed"}
        /\ wire'[p] = Append(wire[p], traceNumber[p])
        /\ UNCHANGED << unsent, locals >>
    BY <1>8 DEF SubmitToACH, Return, Retry, TypeOK
  <2>2. \A q \in Payments \ {p} : Same(q)
    BY <1>8 DEF SubmitToACH, Return, Retry, TypeOK, locals
  <2>3. /\ traceNumber[p] \in TraceNumbers
        /\ traceNumber[p][2] = representmentCount[p]
    BY <2>1 DEF TypeInv, LocalsInStep, DebitInv, DebitAt
  <2>4. DebitAt(p)'
    BY <2>1, <2>3, DebitSent DEF DebitInv, BeforeSubmission, AfterReturn
  <2> QED BY <1>1, <2>2, <2>4
<1>9. ASSUME NEW p \in Payments, ReceiveReturn(p) \/ SettlementTimer(p)
      PROVE  DebitInv'
  <2>1. /\ << pc[p], pc'[p] >> \in
             { << "wait", "returned" >>, << "wait", "settled" >> }
        /\ UNCHANGED << wire, traceNumber, representmentCount >>
        /\ unsent'[p] \subseteq unsent[p]
        /\ pc'[p] = "settled" => rcode' = rcode
        /\ \A q \in Payments \ {p} : Same(q)
    BY <1>9 DEF ReceiveReturn, SettlementTimer, ContextsEnd, TypeOK, ach,
                exec, locals
  <2>2. pc'[p] \notin AfterReturn => rcode'[p] \in RetryableCodes \cup {NoCode}
    BY <2>1 DEF DebitInv, DebitAt, AfterReturn
  <2>3. DebitAt(p)'
    BY <2>1, <2>2, DebitKept DEF DebitInv, BeforeSubmission
  <2> QED BY <1>1, <2>1, <2>3
<1>10. ASSUME NEW p \in Payments, WakeUp(p)
       PROVE  DebitInv'
  <2>1. /\ pc[p] = "sleep" /\ pc'[p] = "round"
        /\ representmentCount'[p] = representmentCount[p] + 1
        /\ unsent'[p] = {}
        /\ UNCHANGED << wire, traceNumber, rcode >>
        /\ \A q \in Payments \ {p} : Same(q)
    BY <1>10 DEF WakeUp, NextCount, ContextsEnd, TypeOK, ach
  <2>2. ASSUME NEW i \in DOMAIN wire[p]
        PROVE  /\ wire[p][i][2] <= representmentCount[p] + 1
               /\ wire[p][i][2] # representmentCount[p] + 1
    <3>1. wire[p][i] \in TraceNumbers BY DEF TypeOK
    <3>2. wire[p][i][2] \in Nat BY <3>1 DEF TraceNumbers
    <3>3. representmentCount[p] \in Nat BY DEF TypeOK
    <3>4. wire[p][i][2] <= representmentCount[p] BY DEF DebitInv, DebitAt
    <3> QED BY <3>2, <3>3, <3>4
  <2>3. DebitAt(p)'
    BY <2>1, <2>2 DEF DebitInv, DebitAt, AfterReturn
  <2> QED BY <1>1, <2>1, <2>3
<1>11. ASSUME NEW p \in Payments, NEW write \in late[p], LateCommit(p, write)
       PROVE  DebitInv'
  BY <1>0, <1>11 DEF LateCommit, DebitInv, ach, locals
<1>12. ASSUME NEW p \in Payments, NEW entry \in unsent[p], LateSubmit(p, entry)
       PROVE  DebitInv'
  <2>1. /\ entry.trace = traceNumber[p] /\ pc[p] \notin BeforeSubmission
        /\ traceNumber[p][2] = representmentCount[p]
        /\ entry.trace \in TraceNumbers
    BY DEF DebitInv, DebitAt, TypeOK, LateEntry
  <2>2. /\ wire'[p] = Append(wire[p], traceNumber[p])
        /\ unsent'[p] \subseteq unsent[p]
        /\ UNCHANGED << pc, locals >>
        /\ \A q \in Payments \ {p} : Same(q)
    BY <1>12, <2>1 DEF LateSubmit, TypeOK, locals
  <2>3. DebitAt(p)' BY <2>1, <2>2, DebitSent DEF DebitInv
  <2> QED BY <1>1, <2>2, <2>3
<1>13. CASE UNCHANGED vars
  BY <1>0, <1>13 DEF DebitInv, vars, ach, exec, locals
<1> QED
  BY <1>2, <1>3, <1>4, <1>5, <1>6, <1>7, <1>8, <1>9, <1>10, <1>11, <1>12,
     <1>13 DEF Next, WorkflowStep, LateStep

LEMMA DebitInvariant == Spec => [](TypeInv /\ DebitInv)
<1>1. Init => TypeInv /\ DebitInv BY TypeInit, DebitInit
<1>2. (TypeInv /\ DebitInv) /\ [Next]_vars => (TypeInv /\ DebitInv)'
  BY TypeStep, DebitStep
<1> QED BY <1>1, <1>2, PTL DEF Spec

\* At most MaxRepresentments + 1 different trace numbers are ever sent for a
\* payment, one per round, for any faults and any returns.
THEOREM DebitsLimited == Spec => []DebitLimit
<1>1. TypeInv /\ DebitInv => DebitLimit BY DebitInvGives
<1> QED BY <1>1, DebitInvariant, PTL

(***************************************************************************)
(* Repeated entries.                                                       *)
(***************************************************************************)

\* The attempts of SubmitToACH that have sent the entry of the round or may
\* still send it: while the activity runs there are fewer of them than the
\* attempt that runs, and never more than the policy allows.
Bound(p) == IF pc[p] = "submit" THEN attempt[p] - 1 ELSE MaximumAttempts

\* The rounds of the entries sent never decrease, and the copies of an entry
\* and the attempts that may add one are within the bound.
CopyAt(p) ==
  /\ \A i, j \in DOMAIN wire[p] :
       i < j => /\ wire[p][i][2] <= wire[p][j][2]
                /\ wire[p][i][2] = wire[p][j][2] => j - i < MaximumAttempts
  /\ IsFiniteSet(unsent[p])
  /\ Cardinality(unsent[p]) <= Bound(p)
  /\ \A i \in DOMAIN wire[p] :
       wire[p][i][2] = representmentCount[p] =>
         Len(wire[p]) + 1 - i + Cardinality(unsent[p]) <= Bound(p)

CopyInv == \A p \in Payments : CopyAt(p)

LEMMA EntryRounds ==
  ASSUME TypeOK, NEW p \in Payments
  PROVE  /\ wire[p] \in Seq(TraceNumbers)
         /\ \A i \in DOMAIN wire[p] : wire[p][i][2] \in Nat
         /\ representmentCount[p] \in Nat
<1>1. wire[p] \in Seq(TraceNumbers) /\ representmentCount[p] \in Nat
  BY DEF TypeOK
<1>2. \A t \in TraceNumbers : t[2] \in Nat BY DEF TraceNumbers
<1> QED BY <1>1, <1>2

LEMMA CopyInvGives == TypeInv /\ DebitInv /\ CopyInv => RepeatedOnlyByRetry
<1> SUFFICES ASSUME TypeInv, DebitInv, CopyInv, NEW p \in Payments,
                    NEW i \in DOMAIN wire[p], NEW j \in DOMAIN wire[p],
                    i < j, wire[p][i] = wire[p][j]
             PROVE  /\ j - i < MaximumAttempts
                    /\ \A k \in i .. j : wire[p][k] = wire[p][i]
  BY DEF RepeatedOnlyByRetry
<1> TypeOK BY DEF TypeInv
<1>1. j - i < MaximumAttempts BY DEF CopyInv, CopyAt
<1>2. ASSUME NEW k \in i .. j PROVE wire[p][k] = wire[p][i]
  <2>1. k \in DOMAIN wire[p] BY EntryRounds
  <2>2. wire[p][i][2] <= wire[p][k][2] /\ wire[p][k][2] <= wire[p][j][2]
    BY <2>1, EntryRounds DEF CopyInv, CopyAt
  <2>3. wire[p][k][2] = wire[p][i][2] BY <2>1, <2>2, EntryRounds
  <2> QED BY <2>1, <2>3 DEF DebitInv, DebitAt
<1> QED BY <1>1, <1>2

LEMMA BoundType ==
  ASSUME TypeOK, NEW p \in Payments
  PROVE  /\ Bound(p) \in Nat /\ Bound(p) <= MaximumAttempts
         /\ attempt[p] \in 1 .. MaximumAttempts /\ MaximumAttempts \in Nat
<1>1. attempt[p] \in 1 .. MaximumAttempts /\ MaximumAttempts \in Nat
  BY ConstantsAssumption DEF TypeOK
<1> QED BY <1>1 DEF Bound

\* A step that sends nothing, and leaves more behind only with a new attempt.
LEMMA CopyKept ==
  ASSUME TypeOK, NEW p \in Payments, CopyAt(p),
         wire'[p] = wire[p], representmentCount'[p] = representmentCount[p],
         IsFiniteSet(unsent'[p]), Bound(p)' \in Nat,
         Cardinality(unsent'[p]) + Bound(p) <=
           Cardinality(unsent[p]) + Bound(p)'
  PROVE  CopyAt(p)'
<1> DEFINE u == Cardinality(unsent[p])
           v == Cardinality(unsent'[p])
           n == Len(wire[p])
<1>1. u \in Nat /\ v \in Nat /\ Bound(p) \in Nat
  BY FS_CardinalityType, BoundType DEF CopyAt
<1>2. n \in Nat /\ DOMAIN wire[p] = 1 .. n
  BY EntryRounds
<1>3. u <= Bound(p) /\ v + Bound(p) <= u + Bound(p)'
  BY DEF CopyAt
<1>4. ASSUME NEW i \in DOMAIN wire[p],
             wire[p][i][2] = representmentCount[p]
      PROVE  n + 1 - i + v <= Bound(p)'
  <2>1. n + 1 - i + u <= Bound(p) /\ i \in Nat
    BY <1>2, <1>4 DEF CopyAt
  <2> HIDE DEF u, v, n
  <2> QED BY <1>1, <1>2, <1>3, <2>1
<1>5. v <= Bound(p)'
  <2> HIDE DEF u, v
  <2> QED BY <1>1, <1>3
<1> QED BY <1>4, <1>5 DEF CopyAt

\* A new round begins, or the activity that sends its entry.
LEMMA CopyFresh ==
  ASSUME NEW p \in Payments, CopyAt(p),
         wire'[p] = wire[p], unsent'[p] = {},
         \A i \in DOMAIN wire[p] : wire[p][i][2] # representmentCount'[p],
         Bound(p)' \in Nat
  PROVE  CopyAt(p)'
<1>1. IsFiniteSet({}) /\ Cardinality({}) = 0 BY FS_EmptySet
<1>2. Cardinality(unsent'[p]) <= Bound(p)' BY <1>1
<1> QED BY <1>1, <1>2 DEF CopyAt

\* The entry of the round is sent once more, by the attempt that runs or by
\* one that was given up.
LEMMA CopySent ==
  ASSUME TypeOK, NEW p \in Payments, CopyAt(p), DebitAt(p),
         traceNumber[p] \in TraceNumbers,
         traceNumber[p][2] = representmentCount[p],
         wire'[p] = Append(wire[p], traceNumber[p]),
         representmentCount'[p] = representmentCount[p],
         IsFiniteSet(unsent'[p]), Bound(p)' \in Nat,
         Cardinality(unsent'[p]) + 1 + Bound(p) <=
           Cardinality(unsent[p]) + Bound(p)',
         Bound(p) < MaximumAttempts + Cardinality(unsent[p])
  PROVE  CopyAt(p)'
<1> DEFINE u == Cardinality(unsent[p])
           v == Cardinality(unsent'[p])
           n == Len(wire[p])
<1>1. u \in Nat /\ v \in Nat /\ Bound(p) \in Nat /\ MaximumAttempts \in Nat
  BY FS_CardinalityType, BoundType DEF CopyAt
<1>2. n \in Nat /\ wire[p] \in Seq(TraceNumbers) /\ representmentCount[p] \in Nat
  BY EntryRounds
<1>3. /\ DOMAIN wire'[p] = 1 .. n + 1 /\ Len(wire'[p]) = n + 1
      /\ wire'[p][n + 1] = traceNumber[p]
      /\ \A i \in 1 .. n : i \in DOMAIN wire[p] /\ wire'[p][i] = wire[p][i]
  BY <1>2
<1>4. ASSUME NEW i \in DOMAIN wire'[p]
      PROVE  i \in 1 .. n \/ i = n + 1
  BY <1>2, <1>3
<1>5. u <= Bound(p) /\ v + 1 + Bound(p) <= u + Bound(p)'
      /\ Bound(p) < MaximumAttempts + u
  BY DEF CopyAt
<1>6. ASSUME NEW i \in 1 .. n
      PROVE  /\ wire[p][i][2] <= representmentCount[p]
             /\ wire[p][i][2] = representmentCount[p] =>
                  /\ n + 1 - i < MaximumAttempts
                  /\ n + 2 - i + v <= Bound(p)'
  <2>1. /\ wire[p][i][2] <= representmentCount[p]
        /\ wire[p][i][2] = representmentCount[p] => n + 1 - i + u <= Bound(p)
    BY <1>3 DEF DebitAt, CopyAt
  <2> HIDE DEF u, v, n
  <2> QED BY <1>1, <1>2, <1>5, <2>1
<1>7. ASSUME NEW i \in DOMAIN wire'[p], NEW j \in DOMAIN wire'[p], i < j
      PROVE  /\ wire'[p][i][2] <= wire'[p][j][2]
             /\ wire'[p][i][2] = wire'[p][j][2] => j - i < MaximumAttempts
  <2>1. CASE j = n + 1
    <3>1. i \in 1 .. n BY <1>2, <1>4, <1>7, <2>1
    <3> QED BY <1>3, <1>6, <2>1, <3>1
  <2>2. CASE j # n + 1
    <3>1. i \in 1 .. n /\ j \in 1 .. n BY <1>2, <1>4, <1>7, <2>2
    <3>2. wire'[p][i] = wire[p][i] /\ wire'[p][j] = wire[p][j] BY <1>3, <3>1
    <3>3. i \in DOMAIN wire[p] /\ j \in DOMAIN wire[p] BY <1>3, <3>1
    <3> QED BY <1>7, <3>2, <3>3 DEF CopyAt
  <2> QED BY <2>1, <2>2
<1>8. 1 + v <= Bound(p)' /\ v <= Bound(p)'
  <2> HIDE DEF u, v
  <2> QED BY <1>1, <1>5
<1>9. ASSUME NEW i \in DOMAIN wire'[p],
             wire'[p][i][2] = representmentCount[p]
      PROVE  (n + 1) + 1 - i + v <= Bound(p)'
  <2>1. CASE i = n + 1
    <3> HIDE DEF v, n
    <3> QED BY <1>1, <1>2, <1>8, <2>1
  <2>2. CASE i \in 1 .. n
    <3>1. n + 2 - i + v <= Bound(p)' BY <1>3, <1>6, <1>9, <2>2
    <3> HIDE DEF v, n
    <3> QED BY <1>1, <1>2, <2>2, <3>1
  <2> QED BY <1>4, <2>1, <2>2
<1> QED BY <1>3, <1>7, <1>8, <1>9 DEF CopyAt

\* A failed or repeated attempt of SubmitToACH makes room for one more copy.
LEMMA BoundGrows ==
  ASSUME TypeOK, NEW p \in Payments, pc[p] = "submit",
         Retry(p) \/ Return(p, "wait")
  PROVE  /\ Bound(p)' \in Nat /\ Bound(p) + 1 <= Bound(p)'
         /\ Bound(p) < MaximumAttempts
<1>1. attempt[p] \in 1 .. MaximumAttempts /\ MaximumAttempts \in Nat
  BY BoundType
<1>2. Bound(p) = attempt[p] - 1 BY DEF Bound
<1>3. CASE Return(p, "wait")
  <2>1. Bound(p)' = MaximumAttempts BY <1>3 DEF Return, Bound, TypeOK
  <2> QED BY <1>1, <1>2, <2>1
<1>4. CASE Retry(p) /\ attempt[p] < MaximumAttempts
  <2>1. Bound(p)' = (attempt[p] + 1) - 1 BY <1>4 DEF Retry, Bound, TypeOK
  <2> QED BY <1>1, <1>2, <2>1
<1>5. CASE Retry(p) /\ ~ (attempt[p] < MaximumAttempts)
  <2>1. Bound(p)' = MaximumAttempts BY <1>5 DEF Retry, Bound, TypeOK
  <2> QED BY <1>1, <1>2, <2>1
<1> QED BY <1>3, <1>4, <1>5

LEMMA CopyStep ==
  TypeInv /\ DebitInv /\ CopyInv /\ [Next]_vars => CopyInv'
<1> SUFFICES ASSUME TypeInv, DebitInv, CopyInv, [Next]_vars
             PROVE  CopyInv'
  OBVIOUS
<1> TypeOK BY DEF TypeInv
<1> DEFINE Same(q) ==
      /\ pc'[q] = pc[q] /\ wire'[q] = wire[q] /\ attempt'[q] = attempt[q]
      /\ unsent'[q] = unsent[q]
      /\ representmentCount'[q] = representmentCount[q]
<1>0. ASSUME NEW q \in Payments
      PROVE  /\ CopyAt(q) /\ DebitAt(q)
             /\ IsFiniteSet(unsent[q]) /\ Cardinality(unsent[q]) \in Nat
             /\ Bound(q) \in Nat /\ MaximumAttempts \in Nat
             /\ pc[q] # "submit" => Bound(q) = MaximumAttempts
             /\ pc'[q] # "submit" => Bound(q)' = MaximumAttempts
  BY BoundType, FS_CardinalityType DEF CopyInv, CopyAt, DebitInv, Bound
<1>1. ASSUME NEW q \in Payments, Same(q)
      PROVE  CopyAt(q)'
  <2>1. Bound(q)' = Bound(q) BY <1>1 DEF Bound
  <2> QED BY <1>0, <1>1, <2>1, CopyKept
<1>2. ASSUME NEW p \in Payments, CopyAt(p)', \A q \in Payments \ {p} : Same(q)
      PROVE  CopyInv'
  BY <1>1, <1>2 DEF CopyInv
\* Not about the submission: the bound stays the policy's.
<1>3. ASSUME NEW p \in Payments, pc[p] # "submit", pc'[p] # "submit",
             wire'[p] = wire[p], unsent'[p] = unsent[p],
             representmentCount'[p] = representmentCount[p]
      PROVE  CopyAt(p)'
  BY <1>0, <1>3, CopyKept
<1>4. ASSUME NEW p \in Payments,
             \/ CreatePayment(p) \/ ExecuteWorkflow(p) \/ GenerateTraceNumber(p)
             \/ CheckIdempotency(p) \/ StoreTraceNumber(p) \/ ReceiveReturn(p)
      PROVE  CopyInv'
  <2>1. UNCHANGED << wire, unsent, representmentCount >>
    BY <1>4 DEF CreatePayment, ExecuteWorkflow, GenerateTraceNumber,
                CheckIdempotency, StoreTraceNumber, ReceiveReturn, ach, exec,
                locals
  <2>2. pc[p] # "submit" /\ pc'[p] # "submit"
    BY <1>4 DEF CreatePayment, ExecuteWorkflow, GenerateTraceNumber,
                CheckIdempotency, StoreTraceNumber, ReceiveReturn, AfterCheck,
                Return, Retry, TypeOK
  <2>3. \A q \in Payments \ {p} : Same(q)
    BY <1>4, <2>1 DEF CreatePayment, ExecuteWorkflow, GenerateTraceNumber,
                CheckIdempotency, StoreTraceNumber, ReceiveReturn, Return,
                Retry, TypeOK, exec
  <2> QED BY <1>2, <1>3, <2>1, <2>2, <2>3
<1>5. ASSUME NEW p \in Payments, NEW code \in RCodes, PostReturn(p, code)
      PROVE  CopyInv'
  BY <1>1, <1>5 DEF PostReturn, CopyInv, ach, exec, locals
<1>6. ASSUME NEW p \in Payments, PersistRead(p) \/ PersistCommit(p)
      PROVE  CopyInv'
  <2>1. /\ pc[p] \in PersistPoints /\ pc[p] # "submit"
        /\ UNCHANGED << wire, unsent, representmentCount >>
    BY <1>6 DEF PersistRead, PersistCommit, Transitioned, ach, locals,
                PersistPoints
  <2>2. CASE Transitioned(p)
    <3>1. \A q \in Payments \ {p} : Same(q)
      BY <2>1, <2>2 DEF Transitioned, Return, TypeOK
    <3>2. CASE AfterPersist(p) # "submit"
      <4>1. pc'[p] # "submit" BY <2>2, <3>2 DEF Transitioned, Return, TypeOK
      <4> QED BY <1>2, <1>3, <2>1, <3>1, <4>1
    <3>3. CASE AfterPersist(p) = "submit"
      <4>1. pc[p] = "submitted" BY <3>3 DEF AfterPersist
      <4>2. /\ unsent[p] = {}
            /\ \A i \in DOMAIN wire[p] : wire[p][i][2] # representmentCount[p]
        BY <4>1 DEF DebitInv, DebitAt, BeforeSubmission
      <4>3. Bound(p)' = 1 - 1
        BY <2>2, <3>3 DEF Transitioned, Return, Bound, TypeOK
      <4>4. CopyAt(p)' BY <1>0, <2>1, <4>2, <4>3, CopyFresh
      <4> QED BY <1>2, <3>1, <4>4
    <3> QED BY <3>2, <3>3
  <2>3. CASE Retry(p)
    <3>1. pc'[p] # "submit" /\ \A q \in Payments \ {p} : Same(q)
      BY <2>1, <2>3 DEF Retry, TypeOK
    <3> QED BY <1>2, <1>3, <2>1, <3>1
  <2>4. CASE UNCHANGED << pc, attempt >>
    BY <1>1, <2>1, <2>4 DEF CopyInv
  <2> QED BY <1>6, <2>2, <2>3, <2>4 DEF PersistRead, PersistCommit
<1>7. ASSUME NEW p \in Payments, FailAttempt(p)
      PROVE  CopyInv'
  <2>1. Retry(p) /\ UNCHANGED << wire, representmentCount >>
    BY <1>7 DEF FailAttempt, ach, locals
  <2>2. /\ unsent'[p] \in { unsent[p], unsent[p] \cup AbandonedEntry(p) }
        /\ \A q \in Payments \ {p} : unsent'[q] = unsent[q]
    BY <1>7 DEF FailAttempt, TypeOK
  <2>3. \A q \in Payments \ {p} : Same(q)
    BY <2>1, <2>2 DEF Retry, TypeOK
  <2>4. CASE pc[p] # "submit"
    <3>1. unsent'[p] = unsent[p] BY <2>2, <2>4 DEF AbandonedEntry
    <3>2. pc'[p] # "submit" BY <2>1, <2>4 DEF Retry, TypeOK
    <3> QED BY <1>2, <1>3, <2>1, <2>3, <2>4, <3>1, <3>2
  <2>5. CASE pc[p] = "submit"
    <3>1. /\ IsFiniteSet(unsent'[p]) /\ Cardinality(unsent'[p]) \in Nat
          /\ Cardinality(unsent'[p]) <= Cardinality(unsent[p]) + 1
      <4>1. CASE unsent'[p] = unsent[p] BY <1>0, <4>1
      <4>2. CASE unsent'[p] = unsent[p] \cup AbandonedEntry(p)
        <5>1. CASE AbandonedEntry(p) = {} BY <1>0, <4>2, <5>1
        <5>2. ASSUME NEW entry, AbandonedEntry(p) = {entry}
              PROVE  /\ IsFiniteSet(unsent'[p])
                     /\ Cardinality(unsent'[p]) \in Nat
                     /\ Cardinality(unsent'[p]) <= Cardinality(unsent[p]) + 1
          <6>1. unsent'[p] = unsent[p] \cup {entry} BY <4>2, <5>2
          <6>2. /\ IsFiniteSet(unsent[p] \cup {entry})
                /\ \/ Cardinality(unsent[p] \cup {entry}) = Cardinality(unsent[p])
                   \/ Cardinality(unsent[p] \cup {entry}) = Cardinality(unsent[p]) + 1
            BY <1>0, FS_AddElement
          <6> QED BY <1>0, <6>1, <6>2
        <5> QED BY <5>1, <5>2 DEF AbandonedEntry
      <4> QED BY <2>2, <4>1, <4>2
    <3>2. Bound(p)' \in Nat /\ Bound(p) + 1 <= Bound(p)'
      BY <2>1, <2>5, BoundGrows
    <3>3. wire'[p] = wire[p] /\ representmentCount'[p] = representmentCount[p]
      BY <2>1
    <3>4. /\ Cardinality(unsent[p]) \in Nat /\ Bound(p) \in Nat
          /\ Bound(p)' \in Nat
      BY <1>0, <3>2, BoundType, FS_CardinalityType
    <3>5. Cardinality(unsent'[p]) + Bound(p) <=
            Cardinality(unsent[p]) + Bound(p)'
      <4> DEFINE u == Cardinality(unsent[p])
                 v == Cardinality(unsent'[p])
                 b == Bound(p)
                 c == Bound(p)'
      <4>1. u \in Nat /\ v \in Nat /\ b \in Nat /\ c \in Nat
        BY <3>1, <3>4
      <4>2. v <= u + 1 /\ b + 1 <= c BY <3>1, <3>2
      <4> HIDE DEF u, v, b, c
      <4>3. v + b <= u + c BY <4>1, <4>2
      <4> QED BY <4>3 DEF u, v, b, c
    <3>6. IsFiniteSet(unsent'[p]) BY <3>1
    <3>7. CopyAt(p)' BY <1>0, <3>3, <3>4, <3>5, <3>6, CopyKept
    <3> QED BY <1>2, <2>3, <3>7
  <2> QED BY <2>4, <2>5
<1>8. ASSUME NEW p \in Payments, SubmitToACH(p)
      PROVE  CopyInv'
  <2>1. /\ pc[p] = "submit"
        /\ wire'[p] = Append(wire[p], traceNumber[p])
        /\ UNCHANGED << unsent, representmentCount >>
        /\ Retry(p) \/ Return(p, "wait")
        /\ \A q \in Payments \ {p} : Same(q)
    BY <1>8 DEF SubmitToACH, Retry, Return, TypeOK, locals
  <2>2. /\ traceNumber[p] \in TraceNumbers
        /\ traceNumber[p][2] = representmentCount[p]
    BY <2>1 DEF TypeInv, LocalsInStep, DebitInv, DebitAt
  <2>3. /\ Bound(p)' \in Nat /\ Bound(p) + 1 <= Bound(p)'
        /\ Bound(p) < MaximumAttempts
    BY <2>1, BoundGrows
  <2>4. CopyAt(p)' BY <1>0, <2>1, <2>2, <2>3, CopySent
  <2> QED BY <1>2, <2>1, <2>4
<1>9. ASSUME NEW p \in Payments, SettlementTimer(p)
      PROVE  CopyInv'
  <2>1. /\ pc[p] = "wait" /\ pc'[p] = "settled" /\ unsent'[p] = {}
        /\ UNCHANGED << wire, representmentCount >>
        /\ \A q \in Payments \ {p} : Same(q)
    BY <1>9 DEF SettlementTimer, ContextsEnd, TypeOK, ach, locals
  <2>2. IsFiniteSet({}) /\ Cardinality({}) = 0 BY FS_EmptySet
  <2>3. /\ wire'[p] = wire[p] /\ representmentCount'[p] = representmentCount[p]
        /\ unsent'[p] = {}
    BY <2>1
  <2>4. Bound(p)' = Bound(p) /\ Bound(p) \in Nat BY <1>0, <2>1
  <2>5. Cardinality(unsent'[p]) = 0 /\ IsFiniteSet(unsent'[p])
    BY <2>2, <2>3
  <2>6. Cardinality(unsent'[p]) + Bound(p) <=
          Cardinality(unsent[p]) + Bound(p)'
    <3> DEFINE u == Cardinality(unsent[p])
               b == Bound(p)
    <3>1. u \in Nat /\ b \in Nat BY <1>0
    <3> HIDE DEF u, b
    <3>2. 0 + b <= u + b BY <3>1
    <3> QED BY <2>4, <2>5, <3>2 DEF u, b
  <2>7. Bound(p)' \in Nat BY <2>4
  <2>8. CopyAt(p)' BY <1>0, <2>3, <2>5, <2>6, <2>7, CopyKept
  <2> QED BY <1>2, <2>1, <2>8
<1>10. ASSUME NEW p \in Payments, WakeUp(p)
       PROVE  CopyInv'
  <2>1. /\ pc[p] = "sleep" /\ pc'[p] = "round" /\ unsent'[p] = {}
        /\ representmentCount'[p] = representmentCount[p] + 1
        /\ wire' = wire
        /\ \A q \in Payments \ {p} : Same(q)
    BY <1>10 DEF WakeUp, NextCount, ContextsEnd, TypeOK, ach
  <2>2. \A i \in DOMAIN wire[p] : wire[p][i][2] # representmentCount'[p]
    <3>1. \A i \in DOMAIN wire[p] : wire[p][i][2] <= representmentCount[p]
      BY DEF DebitInv, DebitAt
    <3> QED BY <2>1, <3>1, EntryRounds
  <2>3. CopyAt(p)' BY <1>0, <2>1, <2>2, CopyFresh
  <2> QED BY <1>2, <2>1, <2>3
<1>11. ASSUME NEW p \in Payments, NEW write \in late[p], LateCommit(p, write)
       PROVE  CopyInv'
  BY <1>1, <1>11 DEF LateCommit, CopyInv, ach, locals
<1>12. ASSUME NEW p \in Payments, NEW entry \in unsent[p], LateSubmit(p, entry)
       PROVE  CopyInv'
  <2>1. /\ entry.trace = traceNumber[p]
        /\ traceNumber[p][2] = representmentCount[p]
        /\ traceNumber[p] \in TraceNumbers
    BY DEF DebitInv, DebitAt, TypeOK, LateEntry
  <2>2. /\ wire'[p] = Append(wire[p], traceNumber[p])
        /\ unsent'[p] = unsent[p] \ {entry}
        /\ UNCHANGED << pc, attempt, representmentCount >>
        /\ \A q \in Payments \ {p} : Same(q)
    BY <1>12, <2>1 DEF LateSubmit, TypeOK, locals
  <2>3. /\ IsFiniteSet(unsent'[p])
        /\ Cardinality(unsent'[p]) = Cardinality(unsent[p]) - 1
    BY <1>0, <2>2, FS_RemoveElement
  <2>4. Cardinality(unsent'[p]) \in Nat BY <2>3, FS_CardinalityType
  <2>5. Bound(p)' = Bound(p) /\ Bound(p) <= MaximumAttempts
    BY <2>2, BoundType DEF Bound
  <2>6. /\ Cardinality(unsent'[p]) + 1 + Bound(p) <=
             Cardinality(unsent[p]) + Bound(p)'
        /\ Bound(p) < MaximumAttempts + Cardinality(unsent[p])
    <3> DEFINE u == Cardinality(unsent[p])
               v == Cardinality(unsent'[p])
               b == Bound(p)
    <3>1. /\ u \in Nat /\ v \in Nat /\ b \in Nat /\ MaximumAttempts \in Nat
          /\ v = u - 1 /\ b <= MaximumAttempts
      BY <1>0, <2>3, <2>4, <2>5
    <3> HIDE DEF u, v, b
    <3>2. v + 1 + b <= u + b /\ b < MaximumAttempts + u BY <3>1
    <3> QED BY <2>5, <3>2 DEF u, v, b
  <2>7. /\ traceNumber[p] \in TraceNumbers
        /\ traceNumber[p][2] = representmentCount[p]
        /\ wire'[p] = Append(wire[p], traceNumber[p])
        /\ representmentCount'[p] = representmentCount[p]
        /\ IsFiniteSet(unsent'[p]) /\ Bound(p)' \in Nat
    BY <1>0, <2>1, <2>2, <2>3, <2>5
  <2>8. CopyAt(p)' BY <1>0, <2>6, <2>7, CopySent
  <2> QED BY <1>2, <2>2, <2>8
<1>13. CASE UNCHANGED vars
  BY <1>1, <1>13 DEF CopyInv, vars, ach, exec, locals
<1> QED
  BY <1>4, <1>5, <1>6, <1>7, <1>8, <1>9, <1>10, <1>11, <1>12, <1>13
     DEF Next, WorkflowStep, LateStep

\* activities.go 68: only an attempt of SubmitToACH sends an entry again, one
\* that was given up included: the copies of an entry follow one another and
\* are no more than MaximumAttempts.
THEOREM CopiesAreRetries == Spec => []RepeatedOnlyByRetry
<1>1. Init => CopyInv
  <2>1. IsFiniteSet({}) /\ Cardinality({}) = 0 BY FS_EmptySet
  <2> QED BY <2>1, ConstantsAssumption DEF Init, CopyInv, CopyAt, Bound
<1>2. (TypeInv /\ DebitInv) /\ CopyInv /\ [Next]_vars => CopyInv'
  BY CopyStep
<1>3. (TypeInv /\ DebitInv) /\ CopyInv => RepeatedOnlyByRetry
  BY CopyInvGives
<1> QED BY <1>1, <1>2, <1>3, DebitInvariant, PTL DEF Spec

-----------------------------------------------------------------------------
(***************************************************************************)
(* Without late effects no attempt has anything left to submit.            *)
(***************************************************************************)

NoneUnsent == \A p \in Payments : unsent[p] = {}

LEMMA NothingUnsent == LateEffects = FALSE => (Spec => []NoneUnsent)
<1> SUFFICES ASSUME LateEffects = FALSE PROVE Spec => []NoneUnsent
  OBVIOUS
<1>1. Init => NoneUnsent BY DEF Init, NoneUnsent
<1>2. TypeInv /\ NoneUnsent /\ [Next]_vars => NoneUnsent'
  <2> SUFFICES ASSUME TypeInv, NoneUnsent, [Next]_vars
               PROVE  NoneUnsent'
    OBVIOUS
  <2>0. TypeOK BY DEF TypeInv
  <2>1. ASSUME NEW p \in Payments, FailAttempt(p) PROVE NoneUnsent'
    <3>1. AbandonedEntry(p) = {} BY DEF AbandonedEntry
    <3> QED BY <2>0, <2>1, <3>1 DEF FailAttempt, NoneUnsent, TypeOK
  <2>2. ASSUME NEW p \in Payments, SettlementTimer(p) \/ WakeUp(p)
        PROVE  NoneUnsent'
    BY <2>0, <2>2 DEF SettlementTimer, WakeUp, ContextsEnd, NoneUnsent, TypeOK
  <2>3. ASSUME NEW p \in Payments, NEW entry \in unsent[p] PROVE FALSE
    BY <2>3 DEF NoneUnsent
  <2>4. CASE UNCHANGED unsent BY <2>4 DEF NoneUnsent
  <2> QED
    BY <2>1, <2>2, <2>3, <2>4
       DEF Next, WorkflowStep, LateStep, CreatePayment, ExecuteWorkflow,
           PostReturn, PersistRead, PersistCommit, GenerateTraceNumber,
           CheckIdempotency, StoreTraceNumber, SubmitToACH, ReceiveReturn,
           LateCommit, vars, exec
<1> QED BY <1>1, <1>2, DebitInvariant, PTL DEF Spec

\* Without late effects nothing is sent once a return that may not be
\* represented was received.
THEOREM NoDebitAfterFinal ==
  LateEffects = FALSE => (Spec => NoDebitAfterFinalReturn)
<1> SUFFICES ASSUME LateEffects = FALSE PROVE Spec => NoDebitAfterFinalReturn
  OBVIOUS
<1>1. TypeInv /\ DebitInv /\ NoneUnsent /\ [Next]_vars =>
        [\A p \in Payments :
           wire'[p] # wire[p] => rcode[p] \in RetryableCodes \cup {NoCode}]_vars
  <2> SUFFICES ASSUME TypeInv, DebitInv, NoneUnsent, [Next]_vars,
                      NEW p \in Payments, wire'[p] # wire[p]
               PROVE  rcode[p] \in RetryableCodes \cup {NoCode}
    OBVIOUS
  <2>1. PICK q \in Payments : SubmitToACH(q)
    BY DEF NoneUnsent, Next, WorkflowStep, LateStep, CreatePayment,
           ExecuteWorkflow, PostReturn, PersistRead, PersistCommit, FailAttempt,
           GenerateTraceNumber, CheckIdempotency, StoreTraceNumber,
           ReceiveReturn, SettlementTimer, WakeUp, LateCommit, vars, ach
  <2>2. p = q /\ pc[p] = "submit"
    BY <2>1 DEF SubmitToACH, TypeInv, TypeOK
  <2> QED BY <2>2 DEF DebitInv, DebitAt, AfterReturn
<1>2. Spec => []NoneUnsent BY NothingUnsent
<1> QED BY <1>1, <1>2, DebitInvariant, PTL DEF Spec, NoDebitAfterFinalReturn

-----------------------------------------------------------------------------
(***************************************************************************)
(* What the audit log counts when no abandoned attempt acts late: the      *)
(* rounds submitted and the representments.  From the counts follow that   *)
(* nothing is sent before it is recorded, and that a final state is        *)
(* justified by what happened.                                             *)
(***************************************************************************)

(***************************************************************************)
(* Counting the entries of the log.                                        *)
(***************************************************************************)

LEMMA CountKept ==
  ASSUME NEW p \in Payments, audit'[p] = audit[p]
  PROVE  /\ Submissions(p)' = Submissions(p)
         /\ Representments(p)' = Representments(p)
BY DEF Submissions, Representments, AuditCount

LEMMA CountEmpty ==
  ASSUME NEW p \in Payments, audit[p] = << >>
  PROVE  Submissions(p) = 0 /\ Representments(p) = 0
<1>1. \A from, to :
        { i \in DOMAIN audit[p] : audit[p][i] = [from |-> from, to |-> to] } = {}
  OBVIOUS
<1> QED BY <1>1, FS_EmptySet DEF Submissions, Representments, AuditCount

LEMMA CountType ==
  ASSUME TypeOK, NEW p \in Payments, NEW from, NEW to
  PROVE  AuditCount(p, from, to) \in Nat
<1> DEFINE hits == { i \in DOMAIN audit[p] :
                       audit[p][i] = [from |-> from, to |-> to] }
<1>1. audit[p] \in Seq(AuditEntry) BY DEF TypeOK
<1>2. IsFiniteSet(1 .. Len(audit[p])) BY <1>1, FS_Interval
<1>3. hits \in SUBSET (1 .. Len(audit[p])) BY <1>1
<1>4. IsFiniteSet(hits) BY <1>2, <1>3, FS_Subset
<1> QED BY <1>4, FS_CardinalityType DEF AuditCount

\* An appended entry counts as one of its own kind and as none of another.
LEMMA CountAppended ==
  ASSUME TypeOK, NEW p \in Payments, NEW entry \in AuditEntry,
         audit'[p] = Append(audit[p], entry), NEW from, NEW to
  PROVE  AuditCount(p, from, to)' =
           AuditCount(p, from, to) +
             IF entry = [from |-> from, to |-> to] THEN 1 ELSE 0
<1> DEFINE hit == [from |-> from, to |-> to]
           n == Len(audit[p])
           old == { i \in DOMAIN audit[p] : audit[p][i] = hit }
           new == { i \in DOMAIN audit'[p] : audit'[p][i] = hit }
<1>1. audit[p] \in Seq(AuditEntry) BY DEF TypeOK
<1>2. /\ n \in Nat
      /\ DOMAIN audit[p] = 1 .. n
      /\ DOMAIN audit'[p] = 1 .. n + 1
      /\ audit'[p][n + 1] = entry
      /\ \A i \in 1 .. n : audit'[p][i] = audit[p][i]
  BY <1>1
<1>3. IsFiniteSet(1 .. n) BY <1>1, FS_Interval
<1>4. old \in SUBSET (1 .. n) BY <1>2
<1>5. IsFiniteSet(old) BY <1>3, <1>4, FS_Subset
<1>6. n + 1 \notin old BY <1>2, <1>4
<1>9. /\ AuditCount(p, from, to) = Cardinality(old)
      /\ AuditCount(p, from, to)' = Cardinality(new)
  BY DEF AuditCount
<1>7. CASE entry = hit
  <2>1. new = old \cup {n + 1} BY <1>2, <1>7
  <2>2. Cardinality(new) = Cardinality(old) + 1
    BY <1>5, <1>6, <2>1, FS_AddElement
  <2> QED BY <1>9, <1>7, <2>2
<1>8. CASE entry # hit
  <2>1. new = old BY <1>2, <1>8
  <2>2. Cardinality(old) \in Nat BY <1>5, FS_CardinalityType
  <2> HIDE DEF old, new
  <2> QED BY <1>9, <1>8, <2>1, <2>2
<1> QED BY <1>7, <1>8

LEMMA CountWritten ==
  ASSUME TypeOK, NEW p \in Payments, NEW from \in PaymentState,
         NEW to \in PaymentState, WriteState(p, from, to)
  PROVE  /\ Submissions(p)' = Submissions(p) +
              IF from = "PENDING" /\ to = "SUBMITTED" THEN 1 ELSE 0
         /\ Representments(p)' = Representments(p) +
              IF from = "RETURNED" /\ to = "PENDING" THEN 1 ELSE 0
<1> DEFINE entry == [from |-> from, to |-> to]
<1>1. entry \in AuditEntry BY DEF AuditEntry
<1>2. audit'[p] = Append(audit[p], entry) BY DEF WriteState, TypeOK
<1>3. /\ entry = [from |-> "PENDING", to |-> "SUBMITTED"] <=>
           from = "PENDING" /\ to = "SUBMITTED"
      /\ entry = [from |-> "RETURNED", to |-> "PENDING"] <=>
           from = "RETURNED" /\ to = "PENDING"
  <2>1. entry.from = from /\ entry.to = to OBVIOUS
  <2> QED BY <2>1
<1>4. Submissions(p)' = Submissions(p) +
        IF entry = [from |-> "PENDING", to |-> "SUBMITTED"] THEN 1 ELSE 0
  BY <1>1, <1>2, CountAppended DEF Submissions
<1>5. Representments(p)' = Representments(p) +
        IF entry = [from |-> "RETURNED", to |-> "PENDING"] THEN 1 ELSE 0
  BY <1>1, <1>2, CountAppended DEF Representments
<1> QED BY <1>3, <1>4, <1>5

(***************************************************************************)
(* The invariant.                                                          *)
(***************************************************************************)

\* The SUBMITTED transition of the current round is in the log.
Recorded(p) ==
  \/ row[p].state \in { "SUBMITTED", "RETURNED", "SETTLED" } \cup FailureState
  \/ pc[p] \in { "verdict", "sleep" }

\* The next representment is in the log and not yet counted.
Waiting(p) ==
  \/ pc[p] = "sleep"
  \/ pc[p] = "verdict" /\ row[p].state = "PENDING"

CountsAt(p) ==
  /\ pc[p] # "failed" =>
       /\ Submissions(p) = representmentCount[p] + IF Recorded(p) THEN 1 ELSE 0
       /\ Representments(p) = representmentCount[p] + IF Waiting(p) THEN 1 ELSE 0
  /\ pc[p] = "failed" =>
       \/ Representments(p) = representmentCount[p]
       \/ /\ row[p].state = "PENDING"
          /\ Representments(p) = representmentCount[p] + 1
  /\ \A i \in DOMAIN wire[p] : wire[p][i][2] < Submissions(p)

\* The entry of the current round was sent.
Sent(p) == wire[p] # << >> /\ wire[p][Len(wire[p])] = traceNumber[p]

OutcomeAt(p) ==
  /\ row[p].state = "SETTLED" => Sent(p)
  /\ row[p].state = "SUBMITTED" /\ pc[p] \in { "wait", "settled" } => Sent(p)
  /\ pc[p] \in { "returned", "verdict" } => rcode[p] \in RCodes
  /\ row[p].state = "COMPLIANCE_ESCALATION" => rcode[p] \in ComplianceCodes
  /\ row[p].state = "FAILED_NON_RETRYABLE" =>
       rcode[p] \in RCodes \ (RetryableCodes \cup ComplianceCodes)
  /\ row[p].state = "FAILED_RETRYABLE_EXHAUSTED" =>
       /\ rcode[p] \in RetryableCodes
       /\ Submissions(p) = MaxRepresentments + 1

LogInv == \A p \in Payments : CountsAt(p) /\ OutcomeAt(p)

LEMMA LogInvGives ==
  TypeOK /\ LogInv =>
    DebitsAudited /\ RepresentmentsAudited /\ OutcomeJustified
<1> SUFFICES ASSUME TypeOK, LogInv
             PROVE  DebitsAudited /\ RepresentmentsAudited /\ OutcomeJustified
  OBVIOUS
<1>1. DebitsAudited BY DEF LogInv, CountsAt, DebitsAudited
<1>2. RepresentmentsAudited
  <2>1. ASSUME NEW p \in Payments
        PROVE  \/ Representments(p) =
                    representmentCount[p] + IF Waiting(p) THEN 1 ELSE 0
               \/ /\ pc[p] = "failed" /\ row[p].state = "PENDING"
                  /\ Representments(p) =
                       (representmentCount[p] + IF Waiting(p) THEN 1 ELSE 0) + 1
    <3>1. representmentCount[p] + 0 = representmentCount[p] BY DEF TypeOK
    <3> QED BY <3>1 DEF LogInv, CountsAt, Waiting
  <2> QED BY <2>1 DEF RepresentmentsAudited, Waiting
<1>3. OutcomeJustified BY DEF LogInv, OutcomeAt, Sent, OutcomeJustified
<1> QED BY <1>1, <1>2, <1>3

LEMMA LogInit == Init => LogInv
<1> SUFFICES ASSUME Init, NEW p \in Payments
             PROVE  CountsAt(p) /\ OutcomeAt(p)
  BY DEF LogInv
<1>1. audit[p] = << >> /\ wire[p] = << >> BY DEF Init
<1>2. Submissions(p) = 0 /\ Representments(p) = 0 BY <1>1, CountEmpty
<1>3. /\ row[p].state = NoState /\ pc[p] = "absent"
      /\ representmentCount[p] = 0
  BY DEF Init, NoRow
<1>4. CountsAt(p)
  BY <1>1, <1>2, <1>3 DEF CountsAt, Recorded, Waiting, NoState, FailureState
<1>5. OutcomeAt(p) BY <1>3 DEF OutcomeAt, NoState
<1> QED BY <1>4, <1>5

(***************************************************************************)
(* Steps that write nothing.                                               *)
(***************************************************************************)

LEMMA CountsKept ==
  ASSUME TypeOK, NEW p \in Payments, CountsAt(p),
         row'[p] = row[p], audit'[p] = audit[p], wire'[p] = wire[p],
         representmentCount'[p] = representmentCount[p],
         pc'[p] = "failed" => pc[p] \in ActivityPoints \cup { "failed" },
         pc'[p] # "failed" => /\ pc[p] # "failed"
                              /\ Recorded(p)' <=> Recorded(p)
                              /\ Waiting(p)' <=> Waiting(p)
  PROVE  CountsAt(p)'
<1>1. /\ Submissions(p)' = Submissions(p)
      /\ Representments(p)' = Representments(p)
  BY CountKept
<1>2. CASE pc'[p] = "failed"
  <2>1. pc[p] # "sleep" BY <1>2 DEF ActivityPoints, PersistPoints
  <2>2. representmentCount[p] + 0 = representmentCount[p] BY DEF TypeOK
  <2> QED BY <1>1, <1>2, <2>1, <2>2 DEF CountsAt, Waiting
<1>3. CASE pc'[p] # "failed"
  BY <1>1, <1>3 DEF CountsAt
<1> QED BY <1>2, <1>3

LEMMA OutcomeKept ==
  ASSUME NEW p \in Payments, OutcomeAt(p),
         row'[p] = row[p], audit'[p] = audit[p], wire'[p] = wire[p],
         row[p].state \in FailureState => rcode'[p] = rcode[p],
         row[p].state = "SETTLED" => traceNumber'[p] = traceNumber[p],
         row[p].state = "SUBMITTED" /\ pc'[p] \in { "wait", "settled" } =>
           /\ pc[p] \in { "wait", "settled" }
           /\ traceNumber'[p] = traceNumber[p],
         pc'[p] \in { "returned", "verdict" } => rcode'[p] \in RCodes
  PROVE  OutcomeAt(p)'
<1>1. Submissions(p)' = Submissions(p) BY CountKept
<1> QED BY <1>1 DEF OutcomeAt, Sent, FailureState

\* A payment the step does not touch.
LEMMA LogUntouched ==
  ASSUME TypeOK, NEW q \in Payments, CountsAt(q), OutcomeAt(q),
         row'[q] = row[q], audit'[q] = audit[q], wire'[q] = wire[q],
         pc'[q] = pc[q], representmentCount'[q] = representmentCount[q],
         traceNumber'[q] = traceNumber[q], rcode'[q] = rcode[q]
  PROVE  CountsAt(q)' /\ OutcomeAt(q)'
<1>1. CountsAt(q)' BY CountsKept DEF Recorded, Waiting
<1>2. OutcomeAt(q)' BY OutcomeKept DEF OutcomeAt
<1> QED BY <1>1, <1>2

(***************************************************************************)
(* Steps that write the row, or find it written.                           *)
(***************************************************************************)

LEMMA CountsPersisted ==
  ASSUME TypeOK, NEW p \in Payments, pc[p] \in PersistPoints,
         RowAt(p), CountsAt(p),
         wire'[p] = wire[p], representmentCount'[p] = representmentCount[p],
         row'[p].state = Target(p),
         \/ row[p].state = Target(p)
         \/ IsTransitionAllowed(row[p].state, Target(p)),
         pc'[p] \in { pc[p], AfterPersist(p), "failed" },
         Submissions(p)' = Submissions(p) +
           IF row[p].state = "PENDING" /\ Target(p) = "SUBMITTED" THEN 1 ELSE 0,
         Representments(p)' = Representments(p) +
           IF row[p].state = "RETURNED" /\ Target(p) = "PENDING" THEN 1 ELSE 0
  PROVE  CountsAt(p)'
<1> DEFINE from == row[p].state
           to == Target(p)
<1>1. /\ Submissions(p) \in Nat
      /\ Representments(p) \in Nat
      /\ representmentCount[p] \in Nat
  BY CountType DEF Submissions, Representments, TypeOK
<1>2. \A i \in DOMAIN wire[p] : wire[p][i][2] \in Nat BY EntryRounds
<1>3. \A i \in DOMAIN wire'[p] : wire'[p][i][2] < Submissions(p)'
  BY <1>1, <1>2 DEF CountsAt
<1>4. pc[p] # "failed" BY DEF PersistPoints
<1>5. from \in RowStates(p) BY DEF RowAt
<1>6. CASE pc[p] = "verdict"
  <2>1. /\ from \in {"RETURNED", to}
        /\ AfterPersist(p) = IF to = "PENDING" THEN "sleep" ELSE "completed"
        /\ to \in FailureState \cup {"PENDING"}
    <3>1. to = Verdict(rcode[p], representmentCount[p]) BY <1>6 DEF Target
    <3>2. to \in FailureState \cup {"PENDING"}
      BY <1>1, <3>1, VerdictFacts, TerminalStates
    <3> QED BY <1>5, <1>6, <3>2 DEF RowStates, AfterPersist
  <2>2. Recorded(p) /\ (Recorded(p)' \/ pc'[p] = "failed")
    BY <1>6, <2>1 DEF Recorded
  <2>3. Waiting(p) <=> from = "PENDING" BY <1>6 DEF Waiting
  <2>4. pc'[p] # "failed" => (Waiting(p)' <=> to = "PENDING")
    BY <1>6, <2>1 DEF Waiting
  <2>5. to # "SUBMITTED" BY <2>1 DEF FailureState
  <2>6. Submissions(p)' = Submissions(p) BY <1>1, <2>5
  <2>7. from = "PENDING" => to = "PENDING" BY <2>1
  <2>8. pc'[p] # "failed" =>
          Representments(p)' = representmentCount[p] + IF Waiting(p)' THEN 1 ELSE 0
    BY <1>1, <1>4, <2>1, <2>3, <2>4, <2>7 DEF CountsAt
  <2>9. pc'[p] = "failed" =>
          \/ Representments(p)' = representmentCount[p]
          \/ to = "PENDING" /\ Representments(p)' = representmentCount[p] + 1
    BY <1>1, <1>4, <2>1, <2>3, <2>7 DEF CountsAt
  <2> QED BY <1>3, <1>4, <2>2, <2>6, <2>8, <2>9 DEF CountsAt
<1>7. CASE pc[p] # "verdict"
  <2>1. \/ pc[p] = "pending" /\ to = "PENDING" /\ from \in {"INITIATED", "PENDING"}
        \/ pc[p] = "submitted" /\ to = "SUBMITTED" /\ from \in {"PENDING", "SUBMITTED"}
        \/ pc[p] = "settled" /\ to = "SETTLED" /\ from \in {"SUBMITTED", "SETTLED"}
        \/ pc[p] = "returned" /\ to = "RETURNED" /\ from \in {"SUBMITTED", "RETURNED"}
    <3>1. CASE pc[p] = "pending"
      <4>1. RowStates(p) = {"INITIATED", "PENDING"} BY <3>1 DEF RowStates
      <4>2. to = "PENDING" BY <3>1 DEF Target
      <4> QED BY <1>5, <3>1, <4>1, <4>2
    <3>2. CASE pc[p] = "submitted"
      <4>1. RowStates(p) = {"PENDING", "SUBMITTED"} BY <3>2 DEF RowStates
      <4>2. to = "SUBMITTED" BY <3>2 DEF Target
      <4> QED BY <1>5, <3>2, <4>1, <4>2
    <3>3. CASE pc[p] = "settled"
      <4>1. to = "SETTLED" BY <3>3 DEF Target
      <4>2. from # "PENDING" BY <4>1 DEF IsTransitionAllowed, AllowedTransitions
      <4>3. RowStates(p) = {"PENDING", "SUBMITTED", "SETTLED"}
        BY <3>3 DEF RowStates
      <4> QED BY <1>5, <3>3, <4>1, <4>2, <4>3
    <3>4. CASE pc[p] = "returned"
      <4>1. to = "RETURNED" BY <3>4 DEF Target
      <4>2. from # "PENDING" BY <4>1 DEF IsTransitionAllowed, AllowedTransitions
      <4>3. RowStates(p) = {"PENDING", "SUBMITTED", "RETURNED"}
        BY <3>4 DEF RowStates
      <4> QED BY <1>5, <3>4, <4>1, <4>2, <4>3
    <3> QED BY <1>7, <3>1, <3>2, <3>3, <3>4 DEF PersistPoints
  <2>2. /\ pc'[p] \notin {"sleep", "failed"} => to = "RETURNED" \/ pc'[p] # "verdict"
        /\ pc'[p] # "sleep"
    BY <2>1 DEF AfterPersist
  <2>3. ~ Waiting(p) /\ ~ Waiting(p)' BY <2>1, <2>2 DEF Waiting
  <2>4. Representments(p)' = representmentCount[p]
    BY <1>1, <1>4, <2>1, <2>3 DEF CountsAt
  <2>5. Recorded(p) <=> from \in {"SUBMITTED", "SETTLED", "RETURNED"}
    BY <2>1 DEF Recorded, FailureState
  <2>6. pc'[p] # "failed" => (Recorded(p)' <=> to # "PENDING")
    BY <2>1, <2>2 DEF Recorded, FailureState
  <2>7. pc'[p] # "failed" =>
          Submissions(p)' = representmentCount[p] + IF Recorded(p)' THEN 1 ELSE 0
    BY <1>1, <1>4, <2>1, <2>5, <2>6 DEF CountsAt
  <2>8. representmentCount[p] + 0 = representmentCount[p] BY <1>1
  <2> QED BY <1>3, <2>3, <2>4, <2>7, <2>8 DEF CountsAt
<1> QED BY <1>6, <1>7

\* Why the workflow decided on a failure state.
LEMMA VerdictReasons ==
  ASSUME NEW code, NEW n \in Nat
  PROVE  /\ Verdict(code, n) = "FAILED_NON_RETRYABLE" =>
              code \notin RetryableCodes \cup ComplianceCodes
         /\ Verdict(code, n) = "FAILED_RETRYABLE_EXHAUSTED" =>
              code \in RetryableCodes /\ n >= MaxRepresentments
BY RoutingTable DEF Verdict

LEMMA OutcomePersisted ==
  ASSUME TypeOK, NEW p \in Payments, pc[p] \in PersistPoints,
         RowAt(p), CountsAt(p), OutcomeAt(p),
         wire'[p] = wire[p], traceNumber'[p] = traceNumber[p],
         rcode'[p] = rcode[p], row'[p].state = Target(p),
         \/ row[p].state = Target(p)
         \/ IsTransitionAllowed(row[p].state, Target(p)),
         pc'[p] \in { pc[p], AfterPersist(p), "failed" },
         Submissions(p)' = Submissions(p) +
           IF row[p].state = "PENDING" /\ Target(p) = "SUBMITTED" THEN 1 ELSE 0
  PROVE  OutcomeAt(p)'
<1> DEFINE from == row[p].state
           to == Target(p)
<1>1. Submissions(p) \in Nat /\ representmentCount[p] \in 0 .. MaxRepresentments
  BY CountType DEF Submissions, TypeOK
<1>2. Sent(p)' = Sent(p) BY DEF Sent
<1>3. ASSUME to = "SETTLED"
      PROVE  Sent(p)
  <2>1. pc[p] = "settled"
    BY <1>1, <1>3, VerdictFacts DEF PersistPoints, Target
  <2>2. from \in {"SUBMITTED", "SETTLED"}
    BY <1>3 DEF IsTransitionAllowed, AllowedTransitions
  <2> QED BY <2>1, <2>2 DEF OutcomeAt
<1>4. to = "SUBMITTED" => pc'[p] \notin {"wait", "settled"}
  <2>1. to = "SUBMITTED" => pc[p] = "submitted"
    BY <1>1, VerdictFacts, TerminalStates
       DEF PersistPoints, Target, FailureState
  <2> QED BY <2>1 DEF AfterPersist
<1>5. pc'[p] \in {"returned", "verdict"} => rcode'[p] \in RCodes
  <2>1. pc'[p] \in {"returned", "verdict"} => pc[p] \in {"returned", "verdict"}
    BY DEF AfterPersist
  <2> QED BY <2>1 DEF OutcomeAt
<1>6. ASSUME to \in FailureState
      PROVE  /\ pc[p] = "verdict"
             /\ to = Verdict(rcode[p], representmentCount[p])
             /\ rcode[p] \in RCodes
             /\ pc[p] # "failed" /\ Recorded(p)
  BY <1>6 DEF PersistPoints, Target, FailureState, OutcomeAt, Recorded
<1>7. to = "COMPLIANCE_ESCALATION" => rcode[p] \in ComplianceCodes
  BY <1>1, <1>6, VerdictFacts DEF FailureState
<1>8. to = "FAILED_NON_RETRYABLE" =>
        rcode[p] \in RCodes \ (RetryableCodes \cup ComplianceCodes)
  BY <1>1, <1>6, VerdictReasons DEF FailureState
<1>9. ASSUME to = "FAILED_RETRYABLE_EXHAUSTED"
      PROVE  /\ rcode[p] \in RetryableCodes
             /\ Submissions(p)' = MaxRepresentments + 1
  <2>1. to \in FailureState BY <1>9 DEF FailureState
  <2>2. rcode[p] \in RetryableCodes /\ representmentCount[p] >= MaxRepresentments
    BY <1>1, <1>6, <1>9, <2>1, VerdictReasons
  <2>3. Submissions(p) = representmentCount[p] + 1
    BY <1>6, <2>1 DEF CountsAt
  <2>4. Submissions(p)' = Submissions(p) BY <1>1, <1>9
  <2> QED BY <1>1, <2>2, <2>3, <2>4, ConstantsAssumption
<1> QED
  BY <1>2, <1>3, <1>4, <1>5, <1>7, <1>8, <1>9 DEF OutcomeAt

\* The entry of the round is sent once its SUBMITTED transition is recorded.
LEMMA LogSent ==
  ASSUME TypeInv, NEW p \in Payments, pc[p] = "submit",
         DebitAt(p), RowAt(p), CountsAt(p), OutcomeAt(p),
         row'[p] = row[p], audit'[p] = audit[p],
         wire'[p] = Append(wire[p], traceNumber[p]), UNCHANGED locals,
         pc'[p] \in { "submit", "wait", "failed" }
  PROVE  CountsAt(p)' /\ OutcomeAt(p)'
<1> TypeOK BY DEF TypeInv
<1>1. row[p].state = "SUBMITTED" BY DEF RowAt, RowStates
<1>2. /\ Submissions(p)' = Submissions(p)
      /\ Representments(p)' = Representments(p)
  BY CountKept
<1>3. representmentCount[p] \in Nat BY DEF TypeOK
<1>4. /\ Submissions(p) = representmentCount[p] + 1
      /\ Representments(p) = representmentCount[p]
  BY <1>1, <1>3 DEF CountsAt, Recorded, Waiting
<1>5. /\ traceNumber[p] \in TraceNumbers
      /\ traceNumber[p][2] = representmentCount[p]
  BY DEF TypeInv, LocalsInStep, DebitAt
<1>6. wire[p] \in Seq(TraceNumbers) BY DEF TypeOK
<1>7. /\ wire'[p] # << >>
      /\ wire'[p][Len(wire'[p])] = traceNumber[p]
      /\ \A i \in DOMAIN wire'[p] :
           \/ i \in DOMAIN wire[p] /\ wire'[p][i] = wire[p][i]
           \/ wire'[p][i] = traceNumber[p]
  BY <1>5, <1>6
<1>8. \A i \in DOMAIN wire'[p] : wire'[p][i][2] < Submissions(p)'
  BY <1>2, <1>3, <1>4, <1>5, <1>7 DEF CountsAt
<1>9. Recorded(p)' /\ ~ Waiting(p)' BY <1>1 DEF Recorded, Waiting
<1>10. representmentCount'[p] = representmentCount[p] BY DEF locals
<1>11. representmentCount[p] + 0 = representmentCount[p] BY <1>3
<1>12. CountsAt(p)'
  BY <1>2, <1>4, <1>8, <1>9, <1>10, <1>11 DEF CountsAt
<1>13. Sent(p)' BY <1>7 DEF Sent, locals
<1>14. OutcomeAt(p)' BY <1>1, <1>13 DEF OutcomeAt
<1> QED BY <1>12, <1>14

\* The wake-up counts the representment the log already has.
LEMMA LogWoken ==
  ASSUME TypeOK, NEW p \in Payments, pc[p] = "sleep", pc'[p] = "round",
         RowAt(p), CountsAt(p), OutcomeAt(p),
         row'[p] = row[p], audit'[p] = audit[p], wire'[p] = wire[p],
         rcode'[p] = rcode[p],
         representmentCount'[p] = representmentCount[p] + 1
  PROVE  CountsAt(p)' /\ OutcomeAt(p)'
<1>1. row[p].state = "PENDING" BY DEF RowAt, RowStates
<1>2. /\ Submissions(p)' = Submissions(p)
      /\ Representments(p)' = Representments(p)
  BY CountKept
<1>3. representmentCount[p] \in Nat BY DEF TypeOK
<1>4. /\ Submissions(p) = representmentCount[p] + 1
      /\ Representments(p) = representmentCount[p] + 1
  BY DEF CountsAt, Recorded, Waiting
<1>5. ~ Recorded(p)' /\ ~ Waiting(p)'
  BY <1>1 DEF Recorded, Waiting, FailureState
<1>6. representmentCount'[p] + 0 = representmentCount'[p] BY <1>3
<1>7. CountsAt(p)' BY <1>2, <1>4, <1>5, <1>6 DEF CountsAt
<1>8. OutcomeAt(p)' BY <1>1 DEF OutcomeAt
<1> QED BY <1>7, <1>8

(***************************************************************************)
(* LogInv is inductive.                                                    *)
(***************************************************************************)

LEMMA LogStep ==
  ASSUME LateEffects = FALSE
  PROVE  AllInv /\ DebitInv /\ NoneUnsent /\ LogInv /\ [Next]_vars => LogInv'
<1> SUFFICES ASSUME AllInv, DebitInv, NoneUnsent, LogInv, [Next]_vars
             PROVE  LogInv'
  OBVIOUS
<1> TypeInv /\ TypeOK BY DEF AllInv, TypeInv
<1> \A p \in Payments : RowAt(p) /\ CountsAt(p) /\ OutcomeAt(p) /\ DebitAt(p)
  BY DEF AllInv, RowInv, LogInv, DebitInv
<1> DEFINE Same(q) ==
      /\ row'[q] = row[q] /\ audit'[q] = audit[q] /\ wire'[q] = wire[q]
      /\ pc'[q] = pc[q] /\ rcode'[q] = rcode[q]
      /\ traceNumber'[q] = traceNumber[q]
      /\ representmentCount'[q] = representmentCount[q]
<1>0. ASSUME NEW p \in Payments, CountsAt(p)', OutcomeAt(p)',
             \A q \in Payments \ {p} : Same(q)
      PROVE  LogInv'
  BY <1>0, LogUntouched DEF LogInv
<1>1. ASSUME \A q \in Payments : Same(q)
      PROVE  LogInv'
  BY <1>1, LogUntouched DEF LogInv
<1>2. ASSUME NEW p \in Payments, CreatePayment(p)
      PROVE  LogInv'
  <2>1. /\ pc[p] = "absent" /\ pc'[p] = "created"
        /\ row[p].state = NoState /\ row'[p].state = "INITIATED"
        /\ audit[p] = << >>
    <3>1. pc[p] = "absent" /\ pc'[p] = "created"
      BY <1>2 DEF CreatePayment, TypeOK
    <3>2. row[p].state = NoState
      <4>1. RowStates(p) = {NoState} BY <3>1 DEF RowStates
      <4>2. row[p].state \in RowStates(p) BY DEF RowAt
      <4> QED BY <4>1, <4>2
    <3>3. row'[p].state = "INITIATED" BY <1>2 DEF CreatePayment, TypeOK
    <3>4. audit[p] = << >>
      BY <3>1 DEF AllInv, AuditInv, PendingWrites
    <3> QED BY <3>1, <3>2, <3>3, <3>4
  <2>2. /\ UNCHANGED << audit, wire, representmentCount, rcode, traceNumber >>
        /\ \A q \in Payments \ {p} : Same(q)
    BY <1>2 DEF CreatePayment, TypeOK, ach, locals
  <2>3. Submissions(p)' = Submissions(p) /\ Representments(p)' = Representments(p)
    BY <2>2, CountKept
  <2>4. ~ Recorded(p) /\ ~ Recorded(p)' /\ ~ Waiting(p) /\ ~ Waiting(p)'
    BY <2>1 DEF Recorded, Waiting, NoState, FailureState
  <2>5. CountsAt(p)' BY <2>1, <2>2, <2>3, <2>4 DEF CountsAt
  <2>6. OutcomeAt(p)' BY <2>1 DEF OutcomeAt
  <2> QED BY <1>0, <2>2, <2>5, <2>6
<1>3. ASSUME NEW p \in Payments, PersistRead(p)
      PROVE  LogInv'
  <2>1. /\ pc[p] \in PersistPoints
        /\ UNCHANGED << row, audit, wire >>
    BY <1>3 DEF PersistRead, db, ach
  <2>2. CASE AlreadyApplied(p) /\ Transitioned(p)
    <3>1. /\ pc'[p] = AfterPersist(p)
          /\ UNCHANGED << representmentCount, traceNumber, rcode >>
          /\ \A q \in Payments \ {p} : Same(q)
      BY <2>1, <2>2 DEF Transitioned, Return, TypeOK
    <3>2. row[p].state = Target(p) BY <2>2 DEF AlreadyApplied
    <3>3. /\ Submissions(p)' = Submissions(p) + 0
          /\ Representments(p)' = Representments(p) + 0
      BY <2>1, CountKept, CountType DEF Submissions, Representments
    <3>4. CountsAt(p)' BY <2>1, <3>1, <3>2, <3>3, CountsPersisted
    <3>5. OutcomeAt(p)' BY <2>1, <3>1, <3>2, <3>3, OutcomePersisted
    <3> QED BY <1>0, <3>1, <3>4, <3>5
  <2>3. CASE UNCHANGED << pc, locals >>
    BY <1>1, <2>1, <2>3 DEF locals
  <2>4. CASE Retry(p) /\ UNCHANGED locals
    <3>1. pc'[p] \in {pc[p], "failed"} /\ \A q \in Payments \ {p} : Same(q)
      BY <2>1, <2>4 DEF Retry, TypeOK, locals
    <3>2. CountsAt(p)'
      BY <2>1, <2>4, <3>1, CountsKept
         DEF Recorded, Waiting, locals, ActivityPoints, PersistPoints
    <3>3. OutcomeAt(p)' BY <2>1, <2>4, <3>1, OutcomeKept DEF locals, OutcomeAt
    <3> QED BY <1>0, <3>1, <3>2, <3>3
  <2> QED BY <1>3, <2>2, <2>3, <2>4 DEF PersistRead, locals
<1>4. ASSUME NEW p \in Payments, PersistCommit(p)
      PROVE  LogInv'
  <2>1. /\ pc[p] \in PersistPoints
        /\ snapshot[p] = row[p].state
        /\ IsTransitionAllowed(row[p].state, Target(p))
        /\ WriteState(p, row[p].state, Target(p))
    BY <1>4 DEF PersistCommit, AllInv, RowAt, AuditInv, PendingWrites
  <2>2. /\ row'[p].state = Target(p)
        /\ wire' = wire
        /\ \A q \in Payments \ {p} : row'[q] = row[q] /\ audit'[q] = audit[q]
    BY <1>4, <2>1 DEF PersistCommit, WriteState, Updated, TypeOK, ach
  <2>3. /\ Submissions(p)' = Submissions(p) +
             IF row[p].state = "PENDING" /\ Target(p) = "SUBMITTED" THEN 1 ELSE 0
        /\ Representments(p)' = Representments(p) +
             IF row[p].state = "RETURNED" /\ Target(p) = "PENDING" THEN 1 ELSE 0
    BY <2>1, CountWritten, EdgesJoinStates
  <2>4. /\ pc'[p] \in {pc[p], AfterPersist(p), "failed"}
        /\ UNCHANGED << representmentCount, traceNumber, rcode >>
        /\ \A q \in Payments \ {p} : pc'[q] = pc[q]
    BY <1>4 DEF PersistCommit, Transitioned, Return, Retry, TypeOK, locals
  <2>5. CountsAt(p)' BY <2>1, <2>2, <2>3, <2>4, CountsPersisted
  <2>6. OutcomeAt(p)' BY <2>1, <2>2, <2>3, <2>4, OutcomePersisted
  <2> QED BY <1>0, <2>2, <2>4, <2>5, <2>6
<1>5. ASSUME NEW p \in Payments, SubmitToACH(p)
      PROVE  LogInv'
  <2>1. /\ pc[p] = "submit"
        /\ pc'[p] \in {"submit", "wait", "failed"}
        /\ wire'[p] = Append(wire[p], traceNumber[p])
        /\ UNCHANGED << row, audit, locals >>
    BY <1>5 DEF SubmitToACH, Return, Retry, TypeOK, db
  <2>2. \A q \in Payments \ {p} : Same(q)
    BY <1>5 DEF SubmitToACH, Return, Retry, TypeOK, db, locals
  <2>3. CountsAt(p)' /\ OutcomeAt(p)' BY <2>1, LogSent
  <2> QED BY <1>0, <2>2, <2>3
<1>6. ASSUME NEW p \in Payments, WakeUp(p)
      PROVE  LogInv'
  <2>1. /\ pc[p] = "sleep" /\ pc'[p] = "round"
        /\ representmentCount'[p] = representmentCount[p] + 1
        /\ UNCHANGED << row, audit, wire, rcode >>
        /\ \A q \in Payments \ {p} : Same(q)
    BY <1>6 DEF WakeUp, NextCount, TypeOK, db, ach
  <2>2. CountsAt(p)' /\ OutcomeAt(p)' BY <2>1, LogWoken
  <2> QED BY <1>0, <2>1, <2>2
<1>7. ASSUME NEW p \in Payments,
             FailAttempt(p) \/ CheckIdempotency(p) \/ StoreTraceNumber(p)
      PROVE  LogInv'
  <2>1. UNCHANGED << row, audit, wire, locals >>
    BY <1>7 DEF FailAttempt, CheckIdempotency, StoreTraceNumber, db, ach
  <2>2. \A q \in Payments \ {p} : Same(q)
    BY <1>7, <2>1 DEF FailAttempt, CheckIdempotency, StoreTraceNumber, Return,
                      Retry, TypeOK, locals
  <2>3. /\ pc[p] \in ActivityPoints
        /\ \/ pc'[p] \in {pc[p], "failed"}
           \/ << pc[p], pc'[p] >> \in
                { << "check", "store" >>, << "check", "wait" >>,
                  << "store", "submitted" >> }
    BY <1>7 DEF FailAttempt, CheckIdempotency, StoreTraceNumber, Return,
                Retry, AfterCheck, ActivityPoints, TypeOK
  <2>4. CountsAt(p)'
    BY <2>1, <2>3, CountsKept
       DEF Recorded, Waiting, locals, ActivityPoints, PersistPoints
  <2>5. pc[p] = "check" => row[p].state = "PENDING" BY DEF RowAt, RowStates
  <2>6. OutcomeAt(p)'
    BY <2>1, <2>3, <2>5, OutcomeKept DEF locals, OutcomeAt
  <2> QED BY <1>0, <2>2, <2>4, <2>6
<1>8. ASSUME NEW p \in Payments,
             \/ ExecuteWorkflow(p) \/ GenerateTraceNumber(p)
             \/ ReceiveReturn(p) \/ SettlementTimer(p)
      PROVE  LogInv'
  <2>1. /\ UNCHANGED << row, audit, wire, representmentCount >>
        /\ pc[p] # "round" => UNCHANGED traceNumber
        /\ pc[p] # "wait" => UNCHANGED rcode
    BY <1>8 DEF ExecuteWorkflow, GenerateTraceNumber, ReceiveReturn,
                SettlementTimer, db, ach, locals
  <2>2. \A q \in Payments \ {p} : Same(q)
    BY <1>8, <2>1 DEF ExecuteWorkflow, GenerateTraceNumber, ReceiveReturn,
                      SettlementTimer, TypeOK, locals
  <2>3. << pc[p], pc'[p] >> \in
          { << "created", "pending" >>, << "round", "check" >>,
            << "wait", "returned" >>, << "wait", "settled" >> }
    BY <1>8 DEF ExecuteWorkflow, GenerateTraceNumber, ReceiveReturn,
                SettlementTimer, TypeOK
  <2>4. CountsAt(p)'
    BY <2>1, <2>3, CountsKept DEF Recorded, Waiting
  <2>5. /\ pc[p] = "wait" => row[p].state \in {"PENDING", "SUBMITTED"}
        /\ pc[p] = "round" => row[p].state = "PENDING"
    BY DEF RowAt, RowStates
  <2>6. pc'[p] = "returned" => rcode'[p] \in RCodes
    <3>1. CASE ReceiveReturn(p)
      BY <3>1 DEF ReceiveReturn, TypeOK
    <3>2. CASE ~ ReceiveReturn(p)
      BY <1>8, <3>2 DEF ExecuteWorkflow, GenerateTraceNumber, SettlementTimer,
                        TypeOK
    <3> QED BY <3>1, <3>2
  <2>7. OutcomeAt(p)'
    BY <2>1, <2>3, <2>5, <2>6, OutcomeKept DEF FailureState
  <2> QED BY <1>0, <2>2, <2>4, <2>7
<1>9. ASSUME NEW p \in Payments, NEW write \in late[p], LateCommit(p, write)
      PROVE  LogInv'
  BY <1>9 DEF RowAt
<1>12. ASSUME NEW p \in Payments, NEW entry \in unsent[p] PROVE FALSE
  BY <1>12 DEF NoneUnsent
<1>10. ASSUME NEW p \in Payments, NEW code \in RCodes, PostReturn(p, code)
       PROVE  LogInv'
  BY <1>1, <1>10 DEF PostReturn, db, ach, locals
<1>11. CASE UNCHANGED vars
  BY <1>1, <1>11 DEF vars, db, ach, locals
<1> QED
  BY <1>2, <1>3, <1>4, <1>5, <1>6, <1>7, <1>8, <1>9, <1>10, <1>11, <1>12
     DEF Next, WorkflowStep, LateStep

LEMMA LogInvariant == LateEffects = FALSE => (Spec => [](TypeOK /\ LogInv))
<1> SUFFICES ASSUME LateEffects = FALSE PROVE Spec => [](TypeOK /\ LogInv)
  OBVIOUS
<1>1. Init => LogInv BY LogInit
<1>2. AllInv /\ DebitInv /\ NoneUnsent /\ LogInv /\ [Next]_vars => LogInv'
  BY LogStep
<1>3. Spec => []AllInv BY AllInvariant
<1>4. AllInv => TypeOK BY DEF AllInv, TypeInv
<1>5. Spec => []NoneUnsent BY NothingUnsent
<1> QED BY <1>1, <1>2, <1>3, <1>4, <1>5, DebitInvariant, PTL DEF Spec

\* Without late effects an entry is sent only after its SUBMITTED transition
\* is in the audit log.
THEOREM DebitsAreAudited == LateEffects = FALSE => (Spec => []DebitsAudited)
<1>1. TypeOK /\ LogInv => DebitsAudited BY LogInvGives
<1> QED BY <1>1, LogInvariant, PTL

\* Without late effects the audit log has one RETURNED -> PENDING entry for
\* each round begun or about to begin.
THEOREM RepresentmentsAreAudited ==
  LateEffects = FALSE => (Spec => []RepresentmentsAudited)
<1>1. TypeOK /\ LogInv => RepresentmentsAudited BY LogInvGives
<1> QED BY <1>1, LogInvariant, PTL

\* Without late effects a row is SETTLED only for an entry that was sent, and
\* in a failure state only for a return that demands it.
THEOREM OutcomesAreJustified ==
  LateEffects = FALSE => (Spec => []OutcomeJustified)
<1>1. TypeOK /\ LogInv => OutcomeJustified BY LogInvGives
<1> QED BY <1>1, LogInvariant, PTL

-----------------------------------------------------------------------------
(***************************************************************************)
(* PaymentWorkflow implements PaymentLifecycle when no abandoned attempt   *)
(* acts late: the insert and the commits of the state transitions are the  *)
(* abstract steps, and every other step stutters.                          *)
(***************************************************************************)

\* A step that leaves the rows and the log alone.
LEMMA LifecycleStutters ==
  ASSUME UNCHANGED db
  PROVE  UNCHANGED Lifecycle!lifecycle
<1>1. \A p \in Payments : Representments(p)' = Representments(p)
  BY CountKept DEF db
<1>2. [p \in Payments |-> row[p].state]' = [p \in Payments |-> row[p].state]
  BY DEF db
<1>3. [p \in Payments |-> Representments(p)]' = [p \in Payments |-> Representments(p)]
  BY <1>1
<1> QED BY <1>2, <1>3 DEF Lifecycle!lifecycle

LEMMA LifecycleCreates ==
  ASSUME TypeOK, NEW p \in Payments, RowAt(p), CreatePayment(p)
  PROVE  Lifecycle!Create(p)
<1>1. row[p].state = "none" /\ audit' = audit
  BY DEF CreatePayment, RowAt, RowStates, NoState
<1>2. \A q \in Payments :
        row'[q].state = IF q = p THEN "INITIATED" ELSE row[q].state
  BY DEF CreatePayment, TypeOK
<1>3. \A q \in Payments : Representments(q)' = Representments(q)
  BY <1>1, CountKept
<1>4. [q \in Payments |-> row[q].state]' =
        [[q \in Payments |-> row[q].state] EXCEPT ![p] = "INITIATED"]
  BY <1>2
<1>5. [q \in Payments |-> Representments(q)]' = [q \in Payments |-> Representments(q)]
  BY <1>3
<1> QED BY <1>1, <1>4, <1>5 DEF Lifecycle!Create

\* A commit is a representment if it goes from RETURNED back to PENDING, and
\* a move along another allowed edge if not.
LEMMA LifecycleCommits ==
  ASSUME TypeOK, NEW p \in Payments, pc[p] \in PersistPoints,
         RowAt(p), CountsAt(p), NEW to, to = Target(p),
         IsTransitionAllowed(row[p].state, to),
         WriteState(p, row[p].state, to)
  PROVE  Lifecycle!Represent(p) \/ Lifecycle!Move(p, to)
<1> DEFINE from == row[p].state
<1>1. /\ representmentCount[p] \in 0 .. MaxRepresentments
      /\ MaxRepresentments \in Nat
  BY ConstantsAssumption DEF TypeOK
<1>2. Representments(p)' = Representments(p) +
        IF from = "RETURNED" /\ to = "PENDING" THEN 1 ELSE 0
  BY CountWritten, EdgesJoinStates
<1>3. Representments(p) \in Nat BY CountType DEF Representments
<1>4. \A q \in Payments : q # p => Representments(q)' = Representments(q)
  BY CountKept DEF WriteState, TypeOK
<1>5. \A q \in Payments : row'[q].state = IF q = p THEN to ELSE row[q].state
  BY DEF WriteState, Updated, TypeOK
<1>6. [q \in Payments |-> row[q].state]' =
        [[q \in Payments |-> row[q].state] EXCEPT ![p] = to]
  BY <1>5
<1>7. pc[p] = "verdict" /\ from = "RETURNED" =>
        Representments(p) = representmentCount[p]
  BY <1>1 DEF CountsAt, Waiting
<1>8. pc[p] = "verdict" => to = Verdict(rcode[p], representmentCount[p])
  BY DEF Target
<1>9. CASE from = "RETURNED" /\ to = "PENDING"
  <2>1. pc[p] = "verdict"
    BY <1>9 DEF RowAt, RowStates, PersistPoints, Target
  <2>2. Representments(p) < MaxRepresentments
    BY <1>1, <1>7, <1>8, <1>9, <2>1, VerdictFacts
  <2>3. \A q \in Payments :
          Representments(q)' = IF q = p THEN Representments(p) + 1
                                        ELSE Representments(q)
    BY <1>2, <1>4, <1>9
  <2>4. [q \in Payments |-> Representments(q)]' =
          [[q \in Payments |-> Representments(q)] EXCEPT ![p] = @ + 1]
    BY <2>3
  <2> QED BY <1>6, <1>9, <2>2, <2>4 DEF Lifecycle!Represent
<1>10. CASE ~ (from = "RETURNED" /\ to = "PENDING")
  <2>1. ASSUME to = "FAILED_RETRYABLE_EXHAUSTED"
        PROVE  Representments(p) = MaxRepresentments
    <3>1. pc[p] = "verdict" BY <2>1 DEF PersistPoints, Target
    <3>2. from = "RETURNED"
      BY <2>1 DEF IsTransitionAllowed, AllowedTransitions
    <3>3. representmentCount[p] >= MaxRepresentments
      BY <1>1, <1>8, <2>1, <3>1, VerdictReasons
    <3> QED BY <1>1, <1>7, <3>1, <3>2, <3>3
  <2>2. \A q \in Payments : Representments(q)' = Representments(q)
    BY <1>2, <1>3, <1>4, <1>10
  <2>3. [q \in Payments |-> Representments(q)]' =
          [q \in Payments |-> Representments(q)]
    BY <2>2
  <2>4. Lifecycle!IsTransitionAllowed(from, to)
    BY DEF Lifecycle!IsTransitionAllowed, Lifecycle!AllowedTransitions,
           IsTransitionAllowed, AllowedTransitions
  <2> QED BY <1>6, <1>10, <2>1, <2>3, <2>4 DEF Lifecycle!Move
<1> QED BY <1>9, <1>10

LEMMA LifecycleStep ==
  ASSUME LateEffects = FALSE
  PROVE  AllInv /\ LogInv /\ [Next]_vars =>
           [Lifecycle!LifecycleNext]_(Lifecycle!lifecycle)
<1> SUFFICES ASSUME AllInv, LogInv, [Next]_vars
             PROVE  Lifecycle!LifecycleNext \/ UNCHANGED Lifecycle!lifecycle
  OBVIOUS
<1> TypeOK BY DEF AllInv, TypeInv
<1>1. ASSUME NEW p \in Payments, CreatePayment(p)
      PROVE  Lifecycle!LifecycleNext
  <2>1. RowAt(p) BY DEF AllInv, RowInv
  <2> QED BY <1>1, <2>1, LifecycleCreates DEF Lifecycle!LifecycleNext
<1>2. ASSUME NEW p \in Payments, PersistCommit(p)
      PROVE  Lifecycle!LifecycleNext
  <2>1. /\ pc[p] \in PersistPoints /\ RowAt(p) /\ CountsAt(p)
        /\ snapshot[p] = row[p].state
        /\ IsTransitionAllowed(row[p].state, Target(p))
        /\ WriteState(p, row[p].state, Target(p))
    BY <1>2 DEF PersistCommit, AllInv, RowInv, RowAt, AuditInv, PendingWrites,
                LogInv
  <2>2. Target(p) \in Lifecycle!PaymentState
    BY TargetIsState DEF PaymentState, Lifecycle!PaymentState
  <2>3. PICK to \in Lifecycle!PaymentState : to = Target(p) BY <2>2
  <2>4. WriteState(p, row[p].state, to) BY <2>1, <2>3 DEF WriteState
  <2>5. Lifecycle!Represent(p) \/ Lifecycle!Move(p, to)
    BY <2>1, <2>3, <2>4, LifecycleCommits
  <2> QED BY <2>5 DEF Lifecycle!LifecycleNext
<1>3. ASSUME NEW p \in Payments, NEW write \in late[p], LateCommit(p, write)
      PROVE  Lifecycle!LifecycleNext
  BY <1>3 DEF AllInv, RowInv, RowAt
<1>4. CASE UNCHANGED db BY <1>4, LifecycleStutters
<1>5. CASE UNCHANGED vars BY <1>4, <1>5 DEF vars
<1> QED
  BY <1>1, <1>2, <1>3, <1>4, <1>5
     DEF Next, WorkflowStep, ExecuteWorkflow, PostReturn, PersistRead,
         FailAttempt, GenerateTraceNumber, CheckIdempotency, StoreTraceNumber,
         SubmitToACH, ReceiveReturn, SettlementTimer, WakeUp, LateStep,
         LateSubmit

\* Without late effects the workflow, its activities with their retries, and
\* the stores implement the lifecycle of a payment.
THEOREM WorkflowImplementsLifecycle ==
  LateEffects = FALSE => (Spec => ImplementsLifecycle)
<1> SUFFICES ASSUME LateEffects = FALSE PROVE Spec => ImplementsLifecycle
  OBVIOUS
<1>1. Init => Lifecycle!LifecycleInit
  <2> SUFFICES ASSUME Init PROVE Lifecycle!LifecycleInit
    OBVIOUS
  <2>1. \A p \in Payments : row[p].state = "none" /\ Representments(p) = 0
    BY CountEmpty DEF Init, NoRow, NoState
  <2> QED BY <2>1 DEF Lifecycle!LifecycleInit
<1>2. AllInv /\ LogInv /\ [Next]_vars =>
        [Lifecycle!LifecycleNext]_(Lifecycle!lifecycle)
  BY LifecycleStep
<1>3. Spec => []AllInv BY AllInvariant
<1>4. Spec => [](TypeOK /\ LogInv) BY LogInvariant
<1> QED
  BY <1>1, <1>2, <1>3, <1>4, PTL
     DEF Spec, ImplementsLifecycle, Lifecycle!LifecycleSpec
=============================================================================
