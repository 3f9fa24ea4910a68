-------------------------- MODULE PaymentTiming_proofs --------------------------
(***************************************************************************)
(* Theorems about the days PaymentTiming counts, for every number of       *)
(* representments and every length of the outages: how long a payment may  *)
(* take, that a representment waits for its delay, and that the key of the *)
(* round in flight is not dropped.                                         *)
(***************************************************************************)
EXTENDS PaymentTiming, PaymentWorkflow_proofs, Integers

USE OutageAssumption, ConstantsAssumption

(***************************************************************************)
(* The steps of a workflow, by the stage of the round they are in.         *)
(***************************************************************************)

BeforeWait == { "pending", "round", "check", "store", "submitted", "submit" }

Decided == { "settled", "returned", "verdict" }

CalendarType ==
  /\ today \in Nat
  /\ outage \in 0 .. MaxOutage
  /\ due \in [Payments -> Nat]
  /\ startedOn \in [Payments -> Nat]
  /\ returnedOn \in [Payments -> Nat]
  /\ DOMAIN expires = redis

\* The local variables that the timers and the rounds are about.
SameRound(p) ==
  /\ representmentCount'[p] = representmentCount[p]
  /\ rcode'[p] = rcode[p]

\* The stages follow one another; a retry stays where it is.
Advances(p) ==
  \/ pc'[p] = pc[p] /\ pc[p] \in ActivityPoints /\ SameRound(p)
  \/ pc'[p] \in {"completed", "failed"}
  \/ pc[p] \in BeforeWait /\ pc'[p] \in BeforeWait \cup {"wait"} /\ SameRound(p)
  \/ /\ pc[p] = "wait" /\ pc'[p] \in {"settled", "returned"}
     /\ representmentCount'[p] = representmentCount[p]
  \/ pc[p] = "returned" /\ pc'[p] = "verdict" /\ SameRound(p)
  \/ /\ pc[p] = "verdict" /\ pc'[p] = "sleep" /\ SameRound(p)
     /\ rcode[p] \in RetryableCodes
  \/ /\ pc[p] = "sleep" /\ pc'[p] = "round" /\ rcode'[p] = rcode[p]
     /\ representmentCount'[p] = representmentCount[p] + 1

LEMMA StepAdvances ==
  ASSUME TypeInv, NEW p \in Payments, WorkflowStep(p)
  PROVE  Advances(p)
<1> TypeOK BY DEF TypeInv
<1>1. ASSUME pc[p] \in PersistPoints, Transitioned(p)
      PROVE  Advances(p)
  <2>1. pc'[p] = AfterPersist(p) /\ SameRound(p)
    BY <1>1 DEF Transitioned, Return, TypeOK, SameRound
  <2>2. CASE AfterPersist(p) = "sleep"
    BY <2>1, <2>2, <1>1, AfterPersistSleeps DEF Advances
  <2>3. CASE AfterPersist(p) # "sleep"
    <3>1. \/ pc[p] \in {"pending", "submitted"} /\ pc'[p] \in {"round", "submit"}
          \/ pc[p] = "returned" /\ pc'[p] = "verdict"
          \/ pc'[p] = "completed"
      BY <2>1, <2>3, <1>1 DEF AfterPersist, PersistPoints
    <3> QED BY <2>1, <3>1 DEF Advances, BeforeWait
  <2> QED BY <2>2, <2>3
<1>2. ASSUME pc[p] \in ActivityPoints, Retry(p), UNCHANGED locals
      PROVE  Advances(p)
  <2>1. pc'[p] \in {pc[p], "failed"} /\ SameRound(p)
    BY <1>2 DEF Retry, TypeOK, locals, SameRound
  <2> QED BY <1>2, <2>1 DEF Advances
<1>3. CASE PersistRead(p)
  <2>1. pc[p] \in ActivityPoints BY <1>3 DEF PersistRead, ActivityPoints
  <2>2. CASE UNCHANGED << pc, locals >>
    BY <2>1, <2>2 DEF Advances, SameRound, locals
  <2> QED BY <1>1, <1>2, <1>3, <2>1, <2>2 DEF PersistRead, locals
<1>4. CASE PersistCommit(p)
  BY <1>1, <1>2, <1>4 DEF PersistCommit, ActivityPoints
<1>5. CASE FailAttempt(p)
  BY <1>2, <1>5 DEF FailAttempt
<1>6. CASE CheckIdempotency(p) \/ StoreTraceNumber(p) \/ SubmitToACH(p)
  <2>1. /\ pc[p] \in {"check", "store", "submit"} /\ UNCHANGED locals
        /\ Retry(p) \/ \E point \in {"wait", "store", "submitted"} :
                         Return(p, point)
    BY <1>6 DEF CheckIdempotency, StoreTraceNumber, SubmitToACH, AfterCheck
  <2>2. CASE Retry(p) BY <1>2, <2>1, <2>2 DEF ActivityPoints
  <2>3. ASSUME NEW point \in {"wait", "store", "submitted"}, Return(p, point)
        PROVE  Advances(p)
    <3>1. pc'[p] = point BY <2>3 DEF Return, TypeOK
    <3>2. SameRound(p) BY <2>1 DEF SameRound, locals
    <3> QED BY <2>1, <3>1, <3>2 DEF Advances, BeforeWait
  <2> QED BY <2>1, <2>2, <2>3
<1>7. CASE GenerateTraceNumber(p)
  <2>1. pc[p] = "round" /\ pc'[p] = "check" /\ SameRound(p)
    BY <1>7 DEF GenerateTraceNumber, TypeOK, SameRound
  <2> QED BY <2>1 DEF Advances, BeforeWait
<1>8. CASE ReceiveReturn(p) \/ SettlementTimer(p)
  <2>1. /\ pc[p] = "wait" /\ pc'[p] \in {"settled", "returned"}
        /\ representmentCount'[p] = representmentCount[p]
    BY <1>8 DEF ReceiveReturn, SettlementTimer, TypeOK, locals
  <2> QED BY <2>1 DEF Advances
<1>9. CASE WakeUp(p)
  <2>1. /\ pc[p] = "sleep" /\ pc'[p] = "round" /\ rcode'[p] = rcode[p]
        /\ representmentCount'[p] = representmentCount[p] + 1
    BY <1>9 DEF WakeUp, NextCount, TypeOK
  <2> QED BY <2>1 DEF Advances
<1> QED
  BY <1>3, <1>4, <1>5, <1>6, <1>7, <1>8, <1>9 DEF WorkflowStep

\* A step of one workflow does not touch what the others remember or sent.
Untimed(q) ==
  /\ pc'[q] = pc[q]
  /\ SameRound(q)
  /\ traceNumber'[q] = traceNumber[q]
  /\ wire'[q] = wire[q]

LEMMA StepIsLocal ==
  ASSUME TypeInv, NEW p \in Payments, WorkflowStep(p), NEW q \in Payments \ {p}
  PROVE  Untimed(q)
<1> TypeOK BY DEF TypeInv
<1> DEFINE Kept == /\ pc'[q] = pc[q] /\ SameRound(q)
                   /\ traceNumber'[q] = traceNumber[q]
<1>0. ASSUME Retry(p), UNCHANGED locals
      PROVE  Kept
  BY <1>0 DEF Retry, TypeOK, locals, SameRound
<1>1. ASSUME Transitioned(p)
      PROVE  Kept
  BY <1>1 DEF Transitioned, Return, TypeOK, SameRound
<1>2. CASE PersistRead(p)
  <2>1. wire' = wire BY <1>2 DEF PersistRead, ach
  <2>2. ASSUME UNCHANGED << pc, attempt, late, locals >>
        PROVE  Kept
    BY <2>2 DEF SameRound, locals
  <2>3. ASSUME Retry(p), UNCHANGED << late, locals >>
        PROVE  Kept
    BY <1>0, <2>3
  <2>4. Kept BY <1>1, <1>2, <2>2, <2>3 DEF PersistRead
  <2> QED BY <2>1, <2>4 DEF Untimed
<1>3. CASE PersistCommit(p)
  <2>1. wire' = wire BY <1>3 DEF PersistCommit, ach
  <2>2. Kept BY <1>0, <1>1, <1>3 DEF PersistCommit
  <2> QED BY <2>1, <2>2 DEF Untimed
<1>4. CASE FailAttempt(p)
  <2>1. wire' = wire BY <1>4 DEF FailAttempt, ach
  <2>2. Kept BY <1>0, <1>4 DEF FailAttempt
  <2> QED BY <2>1, <2>2 DEF Untimed
<1>5. CASE CheckIdempotency(p) \/ StoreTraceNumber(p) \/ SubmitToACH(p)
  <2>1. /\ UNCHANGED locals
        /\ Retry(p) \/ \E point \in {"wait", "store", "submitted"} :
                         Return(p, point)
    BY <1>5 DEF CheckIdempotency, StoreTraceNumber, SubmitToACH, AfterCheck
  <2>2. pc'[q] = pc[q] BY <2>1 DEF Retry, Return, TypeOK
  <2>3. wire'[q] = wire[q]
    BY <1>5 DEF CheckIdempotency, StoreTraceNumber, SubmitToACH, TypeOK, ach
  <2> QED BY <2>1, <2>2, <2>3 DEF Untimed, SameRound, locals
<1>6. CASE GenerateTraceNumber(p)
  BY <1>6 DEF GenerateTraceNumber, TypeOK, ach, Untimed, SameRound
<1>7. CASE ReceiveReturn(p) \/ SettlementTimer(p)
  BY <1>7 DEF ReceiveReturn, SettlementTimer, TypeOK, ach, locals,
              Untimed, SameRound
<1>8. CASE WakeUp(p)
  BY <1>8 DEF WakeUp, TypeOK, ach, Untimed, SameRound
<1> QED
  BY <1>2, <1>3, <1>4, <1>5, <1>6, <1>7, <1>8 DEF WorkflowStep

(***************************************************************************)
(* The types, and the keys of redis.                                       *)
(***************************************************************************)

LEMMA DelaysAreDays ==
  ASSUME NEW code
  PROVE  /\ RetryDelayFor(code) \in 1 .. 2
         /\ code \in RetryableCodes => RetryDelayFor(code) >= Floor[code]
BY DEF RetryDelayFor, RetryDelayR01, RetryDelayR08, RetryDelayR09,
       RetryDelayDefault, Floor, RetryableCodes

LEMMA TimingTypeInit == TInit => TypeInv /\ CalendarType
BY TypeInit DEF TInit, CalendarType, Init

\* Every step is one of PaymentWorkflow, except that a day may drop keys.
LEMMA TimedSteps ==
  ASSUME TypeInv, CalendarType, [TNext]_<< vars, calendar >>
  PROVE  \/ [Next]_vars
         \/ redis' \in SUBSET redis /\ UNCHANGED << db, wire, exec, signals, locals, pc >>
<1>1. CASE Tick BY <1>1 DEF Tick, Unexpired
<1>2. ASSUME NEW p \in Payments, TimedStep(p) \/ TimedStart(p) \/ ClientStep(p)
      PROVE  Next
  BY <1>2 DEF TimedStep, TimedStart, ClientStep, Next
<1> QED BY <1>1, <1>2 DEF TNext

LEMMA TimingTypeStep ==
  TypeInv /\ CalendarType /\ [TNext]_<< vars, calendar >> => TypeInv' /\ CalendarType'
<1> SUFFICES ASSUME TypeInv, CalendarType, [TNext]_<< vars, calendar >>
             PROVE  TypeInv' /\ CalendarType'
  OBVIOUS
<1>1. TypeInv'
  <2>1. CASE [Next]_vars BY <2>1, TypeStep
  <2>2. CASE /\ redis' \in SUBSET redis
             /\ UNCHANGED << db, wire, exec, signals, locals, pc >>
    BY <2>2 DEF TypeInv, TypeOK, LocalsInStep, db, exec, signals, locals
  <2> QED BY <2>1, <2>2, TimedSteps
<1>2. CalendarType'
  <2>1. ASSUME NEW p \in Payments, TimedStep(p)
        PROVE  CalendarType'
    <3>1. /\ Armed(p) \in Nat /\ UNCHANGED << today, outage, startedOn >>
          /\ due' = [due EXCEPT ![p] = Armed(p)]
      BY <2>1, DelaysAreDays
         DEF Armed, CalendarType, SettlementWait, TimedStep
    <3>2. due' \in [Payments -> Nat] BY <3>1 DEF CalendarType
    <3>3. returnedOn' \in [Payments -> Nat]
      BY <2>1 DEF TimedStep, CalendarType
    <3>4. DOMAIN expires' = redis' BY <2>1 DEF TimedStep
    <3> QED BY <3>1, <3>2, <3>3, <3>4 DEF CalendarType
  <2>2. ASSUME NEW p \in Payments, TimedStart(p)
        PROVE  CalendarType'
    BY <2>2 DEF TimedStart, ExecuteWorkflow, CalendarType, ach
  <2>3. ASSUME NEW p \in Payments, ClientStep(p)
        PROVE  CalendarType'
    BY <2>3 DEF ClientStep, CreatePayment, PostReturn, CalendarType, calendar, ach
  <2>4. CASE Tick
    <3>1. outage' \in 0 .. MaxOutage BY <2>4 DEF Tick, CalendarType
    <3>2. DOMAIN expires' = redis' BY <2>4 DEF Tick
    <3> QED BY <2>4, <3>1, <3>2 DEF Tick, CalendarType
  <2>5. CASE UNCHANGED << vars, calendar >>
    BY <2>5 DEF vars, calendar, CalendarType, ach
  <2> QED BY <2>1, <2>2, <2>3, <2>4, <2>5 DEF TNext
<1> QED BY <1>1, <1>2

(***************************************************************************)
(* What a step is to one payment: a step of another, its own step, its     *)
(* start or its creation on the same day, or the passing of the day.       *)
(***************************************************************************)

SameDay == today' = today /\ outage' = outage

\* A day without loss passes only while the payment waits for its own day.
NextDay(q) ==
  /\ today' = today + 1
  /\ \/ outage' = outage + 1
     \/ outage' = outage /\ ~ WorkerBusy(q) /\ ~ TimerFires(q)

Stays(q) ==
  /\ Untimed(q)
  /\ due'[q] = due[q]
  /\ startedOn'[q] = startedOn[q]
  /\ returnedOn'[q] = returnedOn[q]

\* The API inserts the row, or starts the workflow.
Begins(q) ==
  /\ SameRound(q)
  /\ due'[q] = due[q] /\ returnedOn'[q] = returnedOn[q] /\ wire'[q] = wire[q]
  /\ \/ pc[q] = "absent" /\ pc'[q] = "created"
     \/ pc[q] = "created" /\ pc'[q] = "pending" /\ startedOn'[q] = today

LEMMA DayOfPayment ==
  ASSUME TypeInv, CalendarType, [TNext]_<< vars, calendar >>, NEW q \in Payments
  PROVE  \/ SameDay /\ (Stays(q) \/ Begins(q) \/ TimedStep(q))
         \/ Stays(q) /\ NextDay(q)
<1> TypeOK BY DEF TypeInv
<1>1. ASSUME NEW p \in Payments, TimedStep(p)
      PROVE  SameDay /\ (Stays(q) \/ TimedStep(q))
  <2>1. SameDay BY <1>1 DEF TimedStep, SameDay
  <2>2. CASE p # q
    <3>1. Untimed(q) BY <1>1, <2>2, StepIsLocal DEF TimedStep
    <3>2. due'[q] = due[q] /\ startedOn'[q] = startedOn[q]
      BY <1>1, <2>2 DEF TimedStep, CalendarType
    <3>3. returnedOn'[q] = returnedOn[q]
      BY <1>1, <2>2 DEF TimedStep, CalendarType
    <3> QED BY <2>1, <3>1, <3>2, <3>3 DEF Stays
  <2> QED BY <1>1, <2>1, <2>2
<1>2. ASSUME NEW p \in Payments, TimedStart(p)
      PROVE  SameDay /\ (Stays(q) \/ Begins(q))
  <2>1. SameDay BY <1>2 DEF TimedStart, SameDay
  <2>2. CASE p = q
    BY <1>2, <2>1, <2>2
       DEF TimedStart, ExecuteWorkflow, Begins, SameRound, locals, ach,
           CalendarType, TypeOK
  <2>3. CASE p # q
    BY <1>2, <2>1, <2>3
       DEF TimedStart, ExecuteWorkflow, Stays, Untimed, SameRound, locals, ach,
           CalendarType, TypeOK
  <2> QED BY <2>2, <2>3
<1>3. ASSUME NEW p \in Payments, ClientStep(p)
      PROVE  SameDay /\ (Stays(q) \/ Begins(q))
  <2>1. SameDay BY <1>3 DEF ClientStep, SameDay, calendar
  <2>2. /\ due'[q] = due[q] /\ returnedOn'[q] = returnedOn[q]
        /\ startedOn'[q] = startedOn[q]
    BY <1>3 DEF ClientStep, calendar
  <2>3. UNCHANGED locals /\ wire' = wire
    BY <1>3 DEF ClientStep, CreatePayment, PostReturn, ach
  <2>4. \/ pc'[q] = pc[q]
        \/ pc[q] = "absent" /\ pc'[q] = "created"
    BY <1>3 DEF ClientStep, CreatePayment, PostReturn, TypeOK
  <2> QED
    BY <2>1, <2>2, <2>3, <2>4 DEF Stays, Begins, Untimed, SameRound, locals
<1>4. CASE Tick
  <2>1. Stays(q)
    BY <1>4 DEF Tick, Stays, Untimed, SameRound, locals
  <2>2. NextDay(q)
    <3>1. ~ TimerFires(q) /\ today' = today + 1 BY <1>4 DEF Tick
    <3>2. outage' = outage + 1 \/ (outage' = outage /\ ~ WorkerBusy(q))
      BY <1>4 DEF Tick, CalendarType
    <3> QED BY <3>1, <3>2 DEF NextDay
  <2> QED BY <2>1, <2>2
<1>5. CASE UNCHANGED << vars, calendar >>
  BY <1>5 DEF vars, calendar, locals, ach, SameDay, Stays, Untimed, SameRound
<1> QED BY <1>1, <1>2, <1>3, <1>4, <1>5 DEF TNext

\* A workflow that waits, and has no work, waits for a day to come.
LEMMA WaitsForDay ==
  ASSUME NEW q \in Payments, NextDay(q), outage' = outage, outage \in Nat,
         pc[q] \in Running, today \in Nat, due \in [Payments -> Nat]
  PROVE  pc[q] \in {"wait", "sleep"} /\ today' <= due[q]
BY DEF NextDay, WorkerBusy, TimerFires

(***************************************************************************)
(* How long a payment takes.  A round takes no day before its timer is     *)
(* armed except those of an outage, three days of waiting, and two of      *)
(* sleep at most; the wait and the sleep are bounded by the day they end.  *)
(***************************************************************************)

Age(p) == today - startedOn[p]

\* The age a payment may have when its round begins.
RoundsBefore(p) == (SettlementWait + 2) * representmentCount[p] + outage

LifeAt(p) ==
  /\ pc[p] \in {"absent", "created"} => representmentCount[p] = 0
  /\ pc[p] \in BeforeWait => Age(p) <= RoundsBefore(p)
  /\ pc[p] \in {"wait"} \cup Decided =>
       Age(p) <= RoundsBefore(p) + SettlementWait
  /\ pc[p] = "wait" =>
       due[p] - startedOn[p] <= RoundsBefore(p) + SettlementWait
  /\ pc[p] = "sleep" =>
       /\ Age(p) <= RoundsBefore(p) + SettlementWait + 2
       /\ due[p] - startedOn[p] <= RoundsBefore(p) + SettlementWait + 2

LifeInv == TypeInv /\ CalendarType /\ \A p \in Payments : LifeAt(p)

LEMMA LifeInit == TInit => LifeInv
<1> SUFFICES ASSUME TInit PROVE LifeInv
  OBVIOUS
<1>1. TypeInv /\ CalendarType BY TimingTypeInit
<1>2. \A p \in Payments : pc[p] = "absent" /\ representmentCount[p] = 0
  BY DEF TInit, Init
<1> QED BY <1>1, <1>2 DEF LifeInv, LifeAt, BeforeWait, Decided

LEMMA LifeStep == LifeInv /\ [TNext]_<< vars, calendar >> => LifeInv'
<1> SUFFICES ASSUME LifeInv, [TNext]_<< vars, calendar >>
             PROVE  LifeInv'
  OBVIOUS
<1>1. TypeInv /\ CalendarType BY DEF LifeInv
<1>2. TypeInv' /\ CalendarType' BY <1>1, TimingTypeStep
<1>3. SUFFICES ASSUME NEW q \in Payments
               PROVE  LifeAt(q)'
  BY <1>2, <1>3 DEF LifeInv
<1>4. LifeAt(q) BY DEF LifeInv
<1>5. /\ today \in Nat /\ outage \in Nat /\ due[q] \in Nat
      /\ startedOn[q] \in Nat /\ representmentCount[q] \in Nat
      /\ pc[q] \in Points /\ due \in [Payments -> Nat]
  BY <1>1 DEF TypeInv, TypeOK, CalendarType
<1> USE DEF LifeAt, Age, RoundsBefore, SettlementWait
<1>6. CASE SameDay /\ Stays(q)
  BY <1>4, <1>6 DEF SameDay, Stays, Untimed, SameRound
<1>7. CASE SameDay /\ Begins(q)
  BY <1>4, <1>5, <1>7 DEF SameDay, Begins, SameRound, BeforeWait, Decided
<1>8. CASE Stays(q) /\ NextDay(q)
  <2>1. /\ pc'[q] = pc[q] /\ representmentCount'[q] = representmentCount[q]
        /\ due'[q] = due[q] /\ startedOn'[q] = startedOn[q]
        /\ today' = today + 1
    BY <1>8 DEF Stays, Untimed, SameRound, NextDay
  <2>2. CASE outage' = outage + 1
    BY <1>4, <1>5, <2>1, <2>2
  <2>3. CASE outage' = outage /\ pc[q] \in Running
    <3>1. pc[q] \in {"wait", "sleep"} /\ today' <= due[q]
      BY <1>5, <1>8, <2>3, WaitsForDay
    <3> QED BY <1>4, <1>5, <2>1, <2>3, <3>1 DEF BeforeWait, Decided
  <2>4. CASE pc[q] \notin Running
    BY <1>4, <2>1, <2>4
       DEF Running, ActivityPoints, PersistPoints, BeforeWait, Decided
  <2> QED BY <1>8, <2>2, <2>3, <2>4 DEF NextDay
<1>9. CASE SameDay /\ TimedStep(q)
  <2>1. Advances(q) BY <1>1, <1>9, StepAdvances DEF TimedStep
  <2>2. /\ today' = today /\ outage' = outage /\ startedOn'[q] = startedOn[q]
        /\ due'[q] = Armed(q)
        /\ pc[q] = "sleep" => today >= due[q]
    BY <1>1, <1>9
       DEF SameDay, TimedStep, CalendarType, WorkerBusy, Running
  <2>3. pc[q] \in Running
    BY <1>9 DEF TimedStep, WorkflowStep, PersistRead, PersistCommit,
                FailAttempt, GenerateTraceNumber, CheckIdempotency,
                StoreTraceNumber, SubmitToACH, ReceiveReturn, SettlementTimer,
                WakeUp, Running, ActivityPoints
  <2>4. CASE pc'[q] = pc[q] /\ pc[q] \in ActivityPoints /\ SameRound(q)
    <3>1. pc[q] \notin {"wait", "sleep", "absent", "created"}
      BY <2>4 DEF ActivityPoints, PersistPoints
    <3> QED BY <1>4, <2>2, <2>4, <3>1 DEF SameRound
  <2>5. CASE pc'[q] \in {"completed", "failed"}
    BY <2>5 DEF BeforeWait, Decided
  <2>6. CASE /\ pc[q] \in BeforeWait /\ pc'[q] \in BeforeWait \cup {"wait"}
             /\ SameRound(q)
    BY <1>4, <1>5, <2>2, <2>6 DEF SameRound, BeforeWait, Decided, Armed
  <2>7. CASE /\ pc[q] = "wait" /\ pc'[q] \in {"settled", "returned"}
             /\ representmentCount'[q] = representmentCount[q]
    BY <1>4, <2>2, <2>7 DEF BeforeWait, Decided
  <2>8. CASE pc[q] = "returned" /\ pc'[q] = "verdict" /\ SameRound(q)
    BY <1>4, <2>2, <2>8 DEF SameRound, BeforeWait, Decided
  <2>9. CASE pc[q] = "verdict" /\ pc'[q] = "sleep" /\ SameRound(q)
    <3>1. due'[q] = today + RetryDelayFor(rcode[q])
      BY <2>2, <2>9 DEF Armed
    <3> HIDE DEF RetryDelayFor
    <3>2. RetryDelayFor(rcode[q]) \in 1 .. 2 BY DelaysAreDays
    <3> QED BY <1>4, <1>5, <2>2, <2>9, <3>1, <3>2
            DEF SameRound, BeforeWait, Decided
  <2>10. CASE /\ pc[q] = "sleep" /\ pc'[q] = "round"
              /\ representmentCount'[q] = representmentCount[q] + 1
    BY <1>4, <1>5, <2>2, <2>10 DEF BeforeWait, Decided
  <2> QED
    BY <2>1, <2>4, <2>5, <2>6, <2>7, <2>8, <2>9, <2>10 DEF Advances
<1> QED BY <1>1, <1>6, <1>7, <1>8, <1>9, DayOfPayment

LEMMA LifeInvGives == LifeInv => LifeBounded
<1> SUFFICES ASSUME LifeInv, NEW p \in Payments, pc[p] \in Running
             PROVE  Age(p) <= (MaxRepresentments + 1) * SettlementWait
                                + MaxRepresentments * 2 + outage
  BY DEF LifeBounded, Age
<1>1. /\ LifeAt(p)
      /\ pc[p] \in BeforeWait \cup {"wait", "sleep"} \cup Decided
  BY DEF LifeInv, Running, ActivityPoints, PersistPoints, BeforeWait, Decided
<1>2. /\ representmentCount[p] \in 0 .. MaxRepresentments
      /\ pc[p] = "sleep" => representmentCount[p] < MaxRepresentments
      /\ Age(p) \in Int /\ outage \in Nat
  BY DEF LifeInv, TypeInv, TypeOK, LocalsInStep, CalendarType, Age
<1>3. \/ Age(p) <= 5 * representmentCount[p] + outage + 3
      \/ pc[p] = "sleep" /\ Age(p) <= 5 * representmentCount[p] + outage + 5
  BY <1>1, <1>2 DEF LifeAt, RoundsBefore, SettlementWait
<1>4. ASSUME NEW m \in Nat, NEW c \in 0 .. m, NEW o \in Nat, NEW age \in Int,
             age <= 5 * c + o + 3 \/ (c < m /\ age <= 5 * c + o + 5)
      PROVE  age <= (m + 1) * 3 + m * 2 + o
  BY <1>4
<1> QED BY <1>2, <1>3, <1>4 DEF SettlementWait

\* From the start of its workflow a payment is decided within the settlement
\* windows and the delays of its rounds, plus the days the worker was away
\* (payment_workflow.go 135 and 255, rules.go 26-41).
THEOREM LivesAreBounded == TSpec => []LifeBounded
<1>1. TInit => LifeInv BY LifeInit
<1>2. LifeInv /\ [TNext]_<< vars, calendar >> => LifeInv' BY LifeStep
<1>3. LifeInv => LifeBounded BY LifeInvGives
<1> QED BY <1>1, <1>2, <1>3, PTL DEF TSpec

(***************************************************************************)
(* When an entry of a later round is sent.                                 *)
(***************************************************************************)

DelayAt(p) ==
  /\ returnedOn[p] <= today
  /\ pc[p] \in {"absent", "created"} => representmentCount[p] = 0
  /\ pc[p] = "sleep" =>
       /\ rcode[p] \in RetryableCodes
       /\ due[p] >= returnedOn[p] + Floor[rcode[p]]
  /\ pc[p] \in BeforeWait /\ representmentCount[p] > 0 =>
       /\ rcode[p] \in RetryableCodes
       /\ today >= returnedOn[p] + Floor[rcode[p]]

DelayInv == TypeInv /\ CalendarType /\ \A p \in Payments : DelayAt(p)

LEMMA DelayInit == TInit => DelayInv
<1> SUFFICES ASSUME TInit PROVE DelayInv
  OBVIOUS
<1>1. TypeInv /\ CalendarType BY TimingTypeInit
<1>2. \A p \in Payments : /\ pc[p] = "absent" /\ representmentCount[p] = 0
                          /\ returnedOn[p] <= today
  BY DEF TInit, Init
<1> QED BY <1>1, <1>2 DEF DelayInv, DelayAt, BeforeWait

LEMMA DelayStep == DelayInv /\ [TNext]_<< vars, calendar >> => DelayInv'
<1> SUFFICES ASSUME DelayInv, [TNext]_<< vars, calendar >>
             PROVE  DelayInv'
  OBVIOUS
<1>1. TypeInv /\ CalendarType BY DEF DelayInv
<1>2. TypeInv' /\ CalendarType' BY <1>1, TimingTypeStep
<1>3. SUFFICES ASSUME NEW q \in Payments
               PROVE  DelayAt(q)'
  BY <1>2, <1>3 DEF DelayInv
<1>4. DelayAt(q) BY DEF DelayInv
<1>5. /\ today \in Nat /\ due[q] \in Nat /\ returnedOn[q] \in Nat
      /\ representmentCount[q] \in Nat
      /\ \A code \in RetryableCodes : Floor[code] \in Nat
  BY <1>1 DEF TypeInv, TypeOK, CalendarType, Floor
<1> USE DEF DelayAt
<1>6. CASE SameDay /\ Stays(q)
  BY <1>4, <1>6 DEF SameDay, Stays, Untimed, SameRound
<1>7. CASE SameDay /\ Begins(q)
  BY <1>4, <1>7 DEF SameDay, Begins, SameRound, BeforeWait
<1>8. CASE Stays(q) /\ NextDay(q)
  BY <1>4, <1>5, <1>8 DEF Stays, Untimed, SameRound, NextDay
<1>9. CASE SameDay /\ TimedStep(q)
  <2>1. Advances(q) BY <1>1, <1>9, StepAdvances DEF TimedStep
  <2>2. /\ today' = today /\ due'[q] = Armed(q)
        /\ returnedOn'[q] = IF pc[q] = "wait" /\ pc'[q] = "returned"
                              THEN today ELSE returnedOn[q]
        /\ pc[q] = "sleep" => today >= due[q]
    BY <1>1, <1>9
       DEF SameDay, TimedStep, CalendarType, WorkerBusy, Running
  <2>3. returnedOn'[q] <= today' BY <1>4, <1>5, <2>2
  <2>4. CASE pc'[q] = pc[q] /\ pc[q] \in ActivityPoints /\ SameRound(q)
    <3>1. pc[q] \notin {"wait", "sleep", "absent", "created"}
      BY <2>4 DEF ActivityPoints, PersistPoints
    <3> QED BY <1>4, <2>2, <2>3, <2>4, <3>1 DEF SameRound
  <2>5. CASE pc'[q] \in {"completed", "failed"}
    BY <2>3, <2>5 DEF BeforeWait
  <2>6. CASE /\ pc[q] \in BeforeWait /\ pc'[q] \in BeforeWait \cup {"wait"}
             /\ SameRound(q)
    BY <1>4, <2>2, <2>3, <2>6 DEF SameRound, BeforeWait
  <2>7. CASE pc[q] = "wait" /\ pc'[q] \in {"settled", "returned"}
    BY <2>3, <2>7 DEF BeforeWait
  <2>8. CASE pc[q] = "returned" /\ pc'[q] = "verdict"
    BY <2>3, <2>8 DEF BeforeWait
  <2>9. CASE /\ pc[q] = "verdict" /\ pc'[q] = "sleep" /\ SameRound(q)
             /\ rcode[q] \in RetryableCodes
    <3>1. due'[q] = today + RetryDelayFor(rcode[q])
      BY <2>2, <2>9 DEF Armed
    <3>2. /\ RetryDelayFor(rcode[q]) \in 1 .. 2
          /\ RetryDelayFor(rcode[q]) >= Floor[rcode[q]]
      BY <2>9, DelaysAreDays
    <3>3. returnedOn'[q] = returnedOn[q] BY <2>2, <2>9
    <3>4. due'[q] >= returnedOn[q] + Floor[rcode[q]]
      BY <1>4, <1>5, <2>9, <3>1, <3>2
    <3>5. /\ pc'[q] = "sleep" /\ rcode'[q] = rcode[q]
          /\ rcode[q] \in RetryableCodes
      BY <2>9 DEF SameRound
    <3> QED BY <2>3, <3>3, <3>4, <3>5 DEF BeforeWait
  <2>10. CASE pc[q] = "sleep" /\ pc'[q] = "round" /\ rcode'[q] = rcode[q]
    BY <1>4, <1>5, <2>2, <2>3, <2>10 DEF BeforeWait
  <2> QED
    BY <2>1, <2>4, <2>5, <2>6, <2>7, <2>8, <2>9, <2>10 DEF Advances
<1> QED BY <1>1, <1>6, <1>7, <1>8, <1>9, DayOfPayment

\* Only SubmitToACH sends.
LEMMA SentBySubmit ==
  ASSUME TypeInv, CalendarType, [TNext]_<< vars, calendar >>, NEW q \in Payments,
         wire'[q] # wire[q]
  PROVE  pc[q] = "submit"
<1>1. TimedStep(q) BY DayOfPayment DEF Stays, Untimed, Begins
<1> QED
  BY <1>1 DEF TimedStep, WorkflowStep, PersistRead, PersistCommit, FailAttempt,
              GenerateTraceNumber, CheckIdempotency, StoreTraceNumber,
              SubmitToACH, ReceiveReturn, SettlementTimer, WakeUp, ach

\* An entry of a later round is sent no earlier than the delay of the return
\* it answers, whenever that return was accepted (rules.go 26-41).
THEOREM RepresentmentsWait == TSpec => RepresentedAfterDelay
<1>1. TInit => DelayInv BY DelayInit
<1>2. DelayInv /\ [TNext]_<< vars, calendar >> => DelayInv' BY DelayStep
<1>3. DelayInv /\ [TNext]_<< vars, calendar >> =>
        [\A p \in Payments :
           wire'[p] # wire[p] /\ representmentCount[p] > 0 =>
             today >= returnedOn[p] + Floor[rcode[p]]]_<< vars, calendar >>
  <2> SUFFICES ASSUME DelayInv, [TNext]_<< vars, calendar >>,
                      NEW p \in Payments, wire'[p] # wire[p],
                      representmentCount[p] > 0
               PROVE  today >= returnedOn[p] + Floor[rcode[p]]
    OBVIOUS
  <2>1. pc[p] = "submit" BY SentBySubmit DEF DelayInv
  <2> QED BY <2>1 DEF DelayInv, DelayAt, BeforeWait
<1> QED BY <1>1, <1>2, <1>3, PTL DEF TSpec, RepresentedAfterDelay

(***************************************************************************)
(* How long the key of the round in flight is needed.  A trace number      *)
(* carries the day it was generated on, and its key is stored no earlier.  *)
(***************************************************************************)

KeysLast ==
  \A t \in redis :
    t[3] \in Nat /\ expires[t] \in Nat /\ expires[t] >= t[3] + 7

TraceAt(p) ==
  /\ pc[p] \in {"check", "store", "submitted", "submit"} =>
       /\ traceNumber[p][3] \in 0 .. today
       /\ today - traceNumber[p][3] <= outage
  /\ pc[p] = "wait" =>
       /\ traceNumber[p][3] \in 0 .. today
       /\ today - traceNumber[p][3] <= SettlementWait + outage
       /\ due[p] - traceNumber[p][3] <= SettlementWait + outage
  /\ pc[p] \in {"submitted", "submit", "wait"} => traceNumber[p] \in redis

TraceInv ==
  TypeInv /\ CalendarType /\ KeysLast /\ \A p \in Payments : TraceAt(p)

\* The points at which the trace number of the round is in use.
InRound == { "check", "store", "submitted", "submit", "wait" }

TraceAdvances(p) ==
  \/ pc'[p] \notin InRound
  \/ pc[p] = "round" /\ pc'[p] = "check"
  \/ /\ traceNumber'[p] = traceNumber[p]
     /\ \/ pc[p] \in InRound \ {"wait"} /\ pc'[p] = pc[p]
        \/ pc[p] = "check" /\ pc'[p] = "store"
        \/ pc[p] = "check" /\ pc'[p] = "wait" /\ traceNumber[p] \in redis
        \/ pc[p] = "store" /\ pc'[p] = "submitted" /\ traceNumber[p] \in redis'
        \/ pc[p] = "submitted" /\ pc'[p] = "submit"
        \/ pc[p] = "submit" /\ pc'[p] = "wait"

LEMMA TraceSteps ==
  ASSUME TypeInv, NEW p \in Payments, WorkflowStep(p)
  PROVE  TraceAdvances(p)
<1> TypeOK BY DEF TypeInv
<1>1. ASSUME pc[p] \in PersistPoints, Transitioned(p)
      PROVE  TraceAdvances(p)
  <2>1. pc'[p] = AfterPersist(p) /\ traceNumber'[p] = traceNumber[p]
    BY <1>1 DEF Transitioned, Return, TypeOK
  <2>2. pc'[p] = "submit" => pc[p] = "submitted"
    BY <2>1 DEF AfterPersist
  <2>3. pc'[p] \in {"submit", "round", "verdict", "sleep", "completed"}
    BY <2>1 DEF AfterPersist
  <2> QED BY <2>1, <2>2, <2>3 DEF TraceAdvances, InRound
<1>2. ASSUME pc'[p] = pc[p], pc[p] \in ActivityPoints,
             traceNumber'[p] = traceNumber[p]
      PROVE  TraceAdvances(p)
  BY <1>2 DEF ActivityPoints, PersistPoints, TraceAdvances, InRound
<1>3. ASSUME pc[p] \in ActivityPoints, Retry(p), UNCHANGED locals
      PROVE  TraceAdvances(p)
  <2>1. pc'[p] \in {pc[p], "failed"} /\ traceNumber'[p] = traceNumber[p]
    BY <1>3 DEF Retry, TypeOK, locals
  <2> QED BY <1>2, <1>3, <2>1 DEF TraceAdvances, InRound
<1>4. CASE PersistRead(p)
  <2>1. pc[p] \in ActivityPoints BY <1>4 DEF PersistRead, ActivityPoints
  <2>2. ASSUME UNCHANGED << pc, attempt, late, locals >>
        PROVE  TraceAdvances(p)
    BY <1>2, <2>1, <2>2 DEF locals
  <2>3. ASSUME Retry(p), UNCHANGED << late, locals >>
        PROVE  TraceAdvances(p)
    BY <1>3, <2>1, <2>3
  <2> QED BY <1>1, <1>4, <2>2, <2>3 DEF PersistRead
<1>5. CASE PersistCommit(p)
  BY <1>1, <1>3, <1>5 DEF PersistCommit, ActivityPoints
<1>6. CASE FailAttempt(p)
  BY <1>3, <1>6 DEF FailAttempt
<1>7. CASE CheckIdempotency(p)
  <2>1. /\ pc[p] = "check" /\ pc'[p] = AfterCheck(p)
        /\ traceNumber'[p] = traceNumber[p]
    BY <1>7 DEF CheckIdempotency, Return, TypeOK, locals
  <2> QED BY <2>1 DEF AfterCheck, TraceAdvances
<1>8. CASE StoreTraceNumber(p)
  <2>1. /\ pc[p] = "store" /\ UNCHANGED locals /\ traceNumber[p] \in redis'
        /\ Return(p, "submitted") \/ Retry(p)
    BY <1>8 DEF StoreTraceNumber
  <2>2. CASE Retry(p) BY <1>3, <2>1, <2>2 DEF ActivityPoints
  <2>3. CASE Return(p, "submitted")
    <3>1. pc'[p] = "submitted" /\ traceNumber'[p] = traceNumber[p]
      BY <2>1, <2>3 DEF Return, TypeOK, locals
    <3> QED BY <2>1, <3>1 DEF TraceAdvances
  <2> QED BY <2>1, <2>2, <2>3
<1>9. CASE SubmitToACH(p)
  <2>1. /\ pc[p] = "submit" /\ UNCHANGED locals
        /\ Return(p, "wait") \/ Retry(p)
    BY <1>9 DEF SubmitToACH
  <2>2. CASE Retry(p) BY <1>3, <2>1, <2>2 DEF ActivityPoints
  <2>3. CASE Return(p, "wait")
    <3>1. pc'[p] = "wait" /\ traceNumber'[p] = traceNumber[p]
      BY <2>1, <2>3 DEF Return, TypeOK, locals
    <3> QED BY <2>1, <3>1 DEF TraceAdvances
  <2> QED BY <2>1, <2>2, <2>3
<1>10. CASE GenerateTraceNumber(p)
  BY <1>10 DEF GenerateTraceNumber, TypeOK, TraceAdvances
<1>11. CASE ReceiveReturn(p) \/ SettlementTimer(p) \/ WakeUp(p)
  <2>1. pc'[p] \in {"returned", "settled", "round"}
    BY <1>11 DEF ReceiveReturn, SettlementTimer, WakeUp, TypeOK
  <2> QED BY <2>1 DEF TraceAdvances, InRound
<1> QED
  BY <1>4, <1>5, <1>6, <1>7, <1>8, <1>9, <1>10, <1>11 DEF WorkflowStep

\* On the day of a step no key is lost, and only StoreTraceNumber adds one.
LEMMA KeysOfDay ==
  ASSUME TypeInv, NEW p \in Payments, WorkflowStep(p)
  PROVE  \/ redis' = redis
         \/ pc[p] = "store" /\ redis' = redis \cup {traceNumber[p]}
BY DEF WorkflowStep, PersistRead, PersistCommit, FailAttempt,
       GenerateTraceNumber, CheckIdempotency, StoreTraceNumber, SubmitToACH,
       ReceiveReturn, SettlementTimer, WakeUp, ach

LEMMA KeysStep ==
  ASSUME TraceInv, [TNext]_<< vars, calendar >>
  PROVE  /\ KeysLast'
         /\ SameDay => redis \subseteq redis'
<1> TypeInv /\ CalendarType /\ KeysLast BY DEF TraceInv
<1>0. ASSUME UNCHANGED << redis, expires >>
      PROVE  KeysLast' /\ redis \subseteq redis'
  BY <1>0 DEF KeysLast
<1>1. ASSUME NEW p \in Payments, TimedStep(p)
      PROVE  KeysLast' /\ redis \subseteq redis'
  <2>1. \/ redis' = redis
        \/ pc[p] = "store" /\ redis' = redis \cup {traceNumber[p]}
    BY <1>1, KeysOfDay DEF TimedStep
  <2>2. expires' = [t \in redis' |-> IF t \in redis THEN expires[t]
                                                    ELSE ExpiryOf(today)]
    BY <1>1 DEF TimedStep
  <2>3. pc[p] = "store" => traceNumber[p][3] \in 0 .. today
    BY DEF TraceInv, TraceAt
  <2>4. ASSUME NEW t \in redis'
        PROVE  /\ t[3] \in Nat /\ expires'[t] \in Nat
               /\ expires'[t] >= t[3] + 7
    <3>1. CASE t \in redis BY <2>2, <3>1 DEF KeysLast
    <3>2. CASE t \notin redis
      <4>1. t[3] \in 0 .. today BY <2>1, <2>3, <2>4, <3>2
      <4>2. expires'[t] = today + 7 BY <2>2, <2>4, <3>2 DEF ExpiryOf
      <4> QED BY <4>1, <4>2 DEF CalendarType
    <3> QED BY <3>1, <3>2
  <2> QED BY <2>1, <2>4 DEF KeysLast
<1>2. ASSUME NEW p \in Payments, TimedStart(p) \/ ClientStep(p)
      PROVE  KeysLast' /\ redis \subseteq redis'
  BY <1>0, <1>2 DEF TimedStart, ExecuteWorkflow, ClientStep, CreatePayment,
                    PostReturn, ach, calendar
<1>3. CASE Tick
  <2>1. today' # today BY <1>3 DEF Tick, CalendarType
  <2>2. KeysLast' BY <1>3 DEF Tick, Unexpired, KeysLast
  <2> QED BY <2>1, <2>2 DEF SameDay
<1>4. CASE UNCHANGED << vars, calendar >>
  BY <1>0, <1>4 DEF vars, ach, calendar
<1> QED BY <1>1, <1>2, <1>3, <1>4 DEF TNext

LEMMA TraceInit == TInit => TraceInv
<1> SUFFICES ASSUME TInit PROVE TraceInv
  OBVIOUS
<1>1. TypeInv /\ CalendarType BY TimingTypeInit
<1>2. redis = {} /\ \A p \in Payments : pc[p] = "absent"
  BY DEF TInit, Init
<1> QED BY <1>1, <1>2 DEF TraceInv, TraceAt, KeysLast

LEMMA TraceStep ==
  ASSUME MaxOutage <= 3
  PROVE  TraceInv /\ [TNext]_<< vars, calendar >> => TraceInv'
<1> SUFFICES ASSUME TraceInv, [TNext]_<< vars, calendar >>
             PROVE  TraceInv'
  OBVIOUS
<1>1. TypeInv /\ CalendarType /\ KeysLast BY DEF TraceInv
<1>2. /\ TypeInv' /\ CalendarType' /\ KeysLast'
      /\ SameDay => redis \subseteq redis'
  BY <1>1, TimingTypeStep, KeysStep
<1>3. SUFFICES ASSUME NEW q \in Payments
               PROVE  TraceAt(q)'
  BY <1>2, <1>3 DEF TraceInv
<1>4. TraceAt(q) BY DEF TraceInv
<1>5. /\ today \in Nat /\ outage \in Nat /\ due[q] \in Nat
      /\ outage' \in 0 .. 3
      /\ pc[q] \in Points /\ due \in [Payments -> Nat]
  <2>1. outage \in 0 .. MaxOutage /\ outage' \in 0 .. MaxOutage
    BY <1>1, <1>2 DEF CalendarType
  <2>2. /\ today \in Nat /\ due \in [Payments -> Nat]
        /\ pc \in [Payments -> Points]
    BY <1>1 DEF TypeInv, TypeOK, CalendarType
  <2> QED BY <2>1, <2>2
<1> USE DEF TraceAt, SettlementWait
<1>6. CASE SameDay /\ Stays(q)
  BY <1>2, <1>4, <1>6 DEF SameDay, Stays, Untimed
<1>7. CASE SameDay /\ Begins(q)
  BY <1>7 DEF Begins
<1>8. CASE Stays(q) /\ NextDay(q)
  <2>1. /\ pc'[q] = pc[q] /\ traceNumber'[q] = traceNumber[q]
        /\ due'[q] = due[q] /\ today' = today + 1
    BY <1>8 DEF Stays, Untimed, NextDay
  <2>2. pc[q] \in InRound =>
          \/ outage' = outage + 1
          \/ outage' = outage /\ pc[q] = "wait" /\ today' <= due[q]
    BY <1>5, <1>8, WaitsForDay
       DEF NextDay, InRound, Running, ActivityPoints, PersistPoints
  <2>3. /\ pc[q] \in InRound \ {"wait"} =>
             /\ traceNumber[q][3] \in 0 .. today'
             /\ today' - traceNumber[q][3] <= outage'
        /\ pc[q] = "wait" =>
             /\ traceNumber[q][3] \in 0 .. today'
             /\ today' - traceNumber[q][3] <= 3 + outage'
             /\ due[q] - traceNumber[q][3] <= 3 + outage'
    BY <1>4, <1>5, <2>1, <2>2 DEF InRound
  <2>4. ASSUME pc[q] \in {"submitted", "submit", "wait"}
        PROVE  traceNumber[q] \in redis'
    <3>1. /\ traceNumber[q] \in redis
          /\ today' < traceNumber[q][3] + 7
      BY <1>4, <1>5, <2>1, <2>3, <2>4 DEF InRound
    <3>2. CASE SameDay BY <1>5, <2>1, <3>2 DEF SameDay
    <3>3. CASE ~ SameDay
      <4>1. Tick
        BY <1>5, <2>1, <3>3
           DEF TNext, TimedStep, TimedStart, ClientStep, SameDay, calendar
      <4>2. expires[traceNumber[q]] > today + 1
        BY <1>1, <1>5, <2>1, <3>1 DEF KeysLast
      <4> QED BY <3>1, <4>1, <4>2 DEF Tick, Unexpired
    <3> QED BY <3>2, <3>3
  <2> QED BY <2>1, <2>3, <2>4 DEF InRound
<1>9. CASE SameDay /\ TimedStep(q)
  <2>1. TraceAdvances(q) BY <1>1, <1>9, TraceSteps DEF TimedStep
  <2>2. /\ today' = today /\ outage' = outage
        /\ due'[q] = IF pc'[q] = "wait" THEN today + 3
                     ELSE IF pc'[q] = "sleep" /\ pc[q] # "sleep"
                       THEN today + RetryDelayFor(rcode[q])
                     ELSE due[q]
        /\ pc[q] = "round" => traceNumber'[q][3] = today
        /\ redis \subseteq redis'
    BY <1>1, <1>2, <1>9 DEF SameDay, TimedStep, CalendarType, Armed
  <2>3. CASE pc'[q] \notin InRound BY <2>3 DEF InRound
  <2>4. CASE pc[q] = "round" /\ pc'[q] = "check"
    BY <1>5, <2>2, <2>4
  <2>5. CASE /\ traceNumber'[q] = traceNumber[q] /\ pc'[q] \in InRound
             /\ pc[q] \in InRound \ {"wait"}
             /\ pc'[q] \in {"submitted", "submit", "wait"} =>
                  traceNumber[q] \in redis'
    BY <1>4, <1>5, <2>2, <2>5 DEF InRound
  <2>6. CASE /\ traceNumber'[q] = traceNumber[q]
             /\ \/ pc[q] \in InRound \ {"wait"} /\ pc'[q] = pc[q]
                \/ pc[q] = "check" /\ pc'[q] = "store"
                \/ /\ pc[q] = "check" /\ pc'[q] = "wait"
                   /\ traceNumber[q] \in redis
                \/ /\ pc[q] = "store" /\ pc'[q] = "submitted"
                   /\ traceNumber[q] \in redis'
                \/ pc[q] = "submitted" /\ pc'[q] = "submit"
                \/ pc[q] = "submit" /\ pc'[q] = "wait"
    <3>1. pc[q] \in InRound \ {"wait"} /\ pc'[q] \in InRound
      BY <2>6 DEF InRound
    <3>2. pc'[q] \in {"submitted", "submit", "wait"} => traceNumber[q] \in redis'
      BY <1>4, <2>2, <2>6
    <3> QED BY <2>5, <2>6, <3>1, <3>2
  <2> QED BY <2>1, <2>3, <2>4, <2>6 DEF TraceAdvances
<1> QED BY <1>1, <1>6, <1>7, <1>8, <1>9, DayOfPayment

\* The key of the round in flight outlives the settlement timer, whoever
\* stored it, when the worker is away for three days at most (client.go 18-21).
THEOREM TraceKeysHeld == MaxOutage <= 3 => (TSpec => []TraceKeyHeld)
<1> SUFFICES ASSUME MaxOutage <= 3 PROVE TSpec => []TraceKeyHeld
  OBVIOUS
<1>1. TInit => TraceInv BY TraceInit
<1>2. TraceInv /\ [TNext]_<< vars, calendar >> => TraceInv' BY TraceStep
<1>3. TraceInv => TraceKeyHeld BY DEF TraceInv, TraceAt, TraceKeyHeld
<1> QED BY <1>1, <1>2, <1>3, PTL DEF TSpec
=============================================================================
