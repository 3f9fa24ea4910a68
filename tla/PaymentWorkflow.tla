---------------------------- MODULE PaymentWorkflow ----------------------------
(***************************************************************************)
(* The payment workflow and everything one payment's steps touch: the      *)
(* API's create path, the Temporal workflow PaymentWorkflow, the           *)
(* activities it calls with their retries, the payments row and its audit  *)
(* log in PostgreSQL, the trace keys in Redis, the entries sent to ACH and *)
(* the return signals.                                                     *)
(*                                                                         *)
(* An activity runs in attempts.  An attempt may fail before it has any    *)
(* effect, or have its effect and lose its result (worker crash, 30 s      *)
(* StartToClose timeout); the workflow sees the result of one successful   *)
(* attempt, or fails once MaximumAttempts attempts have failed.            *)
(* PersistStateTransition reads the row and writes it in two steps.        *)
(***************************************************************************)
EXTENDS PaymentDomain, Naturals, Sequences, FiniteSets

CONSTANTS
  Payments,           \* payment ids
  RCodes,             \* the return codes postReturn may be given
  Prefix,             \* Prefix[p]: the first eight characters of p's UUID
  Seconds,            \* the values workflow.Now().Unix() may take
  MaxRepresentments,  \* rules.go: 2
  MaximumAttempts,    \* the activities' retry policy: 3
  FaultyAttempts,     \* bound: attempts 1..FaultyAttempts of an activity may fail
  LateEffects,        \* whether a timed-out attempt may still have its effect
  MaxSignals          \* bound: return signals accepted for one payment

ASSUME ConstantsAssumption ==
  /\ MaxRepresentments \in Nat
  /\ MaximumAttempts \in Nat \ {0}
  /\ FaultyAttempts \in 0 .. MaximumAttempts
  /\ LateEffects \in BOOLEAN
  /\ MaxSignals \in Nat

ASSUME PrefixAssumption == DOMAIN Prefix = Payments

NoState == "none"
NoCode  == "none"
NoTrace == << >>

ASSUME RCodesAssumption == NoCode \notin RCodes

VARIABLES
  row,                 \* the payments row
  audit,               \* the payment's audit_log rows, in commit order
  redis,               \* the trace numbers that have a key in Redis
  wire,                \* the traces SubmitToACH was executed with, in order
  pc,                  \* where the workflow of the payment is
  attempt,             \* the attempt of the activity at pc
  snapshot,            \* row.state as read by the running persist attempt
  late,                \* writes of timed-out attempts that may still happen
  unsent,              \* entries timed-out attempts may still submit
  inbox,               \* return signals accepted and not received yet
  accepted,            \* how many signals were accepted
  representmentCount,  \* the workflow's local variables ...
  traceNumber,
  rcode,               \* the code of the last signal received
  webhook              \* the state fireWebhook was called with

db      == << row, audit >>
ach     == << redis, wire >>
exec    == << attempt, snapshot, late, unsent >>
signals == << inbox, accepted >>
locals  == << representmentCount, traceNumber, rcode, webhook >>
vars    == << db, ach, exec, signals, locals, pc >>

(***************************************************************************)
(* The control points of PaymentWorkflow, in the order of the code.        *)
(***************************************************************************)
PersistPoints == { "pending", "submitted", "settled", "returned", "verdict" }

ActivityPoints == PersistPoints \cup { "check", "store", "submit" }

Running == ActivityPoints \cup { "round", "wait", "sleep" }

Points == Running \cup { "absent", "created", "completed", "failed" }

NoRow ==
  [ state |-> NoState, representmentCount |-> 0,
    settledAt |-> FALSE, failedAt |-> FALSE ]

Init ==
  /\ row = [p \in Payments |-> NoRow]
  /\ audit = [p \in Payments |-> << >>]
  /\ redis = {}
  /\ wire = [p \in Payments |-> << >>]
  /\ pc = [p \in Payments |-> "absent"]
  /\ attempt = [p \in Payments |-> 1]
  /\ snapshot = [p \in Payments |-> NoState]
  /\ late = [p \in Payments |-> {}]
  /\ unsent = [p \in Payments |-> {}]
  /\ inbox = [p \in Payments |-> << >>]
  /\ accepted = [p \in Payments |-> 0]
  /\ representmentCount = [p \in Payments |-> 0]
  /\ traceNumber = [p \in Payments |-> NoTrace]
  /\ rcode = [p \in Payments |-> NoCode]
  /\ webhook = [p \in Payments |-> NoState]

(***************************************************************************)
(* handlers.go, createPayment: the insert, then the start of the workflow. *)
(* The server may stop, or ExecuteWorkflow fail, between the two.          *)
(***************************************************************************)
CreatePayment(p) ==
  /\ pc[p] = "absent"
  /\ row' = [row EXCEPT ![p].state = "INITIATED"]
  /\ pc' = [pc EXCEPT ![p] = "created"]
  /\ UNCHANGED << audit, ach, exec, signals, locals >>

ExecuteWorkflow(p) ==
  /\ pc[p] = "created"
  /\ pc' = [pc EXCEPT ![p] = "pending"]
  /\ UNCHANGED << db, ach, exec, signals, locals >>

(***************************************************************************)
(* postReturn and SimulateReturn: the signal is accepted while the         *)
(* workflow runs, whatever it is doing, and is buffered for it.            *)
(***************************************************************************)
PostReturn(p, code) ==
  /\ pc[p] \in Running
  /\ accepted[p] < MaxSignals
  /\ inbox' = [inbox EXCEPT ![p] = Append(@, code)]
  /\ accepted' = [accepted EXCEPT ![p] = @ + 1]
  /\ UNCHANGED << db, ach, exec, locals, pc >>

(***************************************************************************)
(* The retry policy of the activities.                                     *)
(***************************************************************************)

\* Mutant: the retry policy has no MaximumAttempts.
MutRetryForever(p) ==
  /\ snapshot' = [snapshot EXCEPT ![p] = NoState]
  /\ UNCHANGED << attempt, pc >>

\* The attempt failed: the next one starts, or the error reaches the
\* workflow, which returns it.
Retry(p) ==
  /\ snapshot' = [snapshot EXCEPT ![p] = NoState]
  /\ IF attempt[p] < MaximumAttempts
       THEN /\ attempt' = [attempt EXCEPT ![p] = @ + 1]
            /\ pc' = pc
       ELSE /\ attempt' = [attempt EXCEPT ![p] = 1]
            /\ pc' = [pc EXCEPT ![p] = "failed"]

\* The activity returned to the workflow, which goes on at point.
Return(p, point) ==
  /\ pc' = [pc EXCEPT ![p] = point]
  /\ attempt' = [attempt EXCEPT ![p] = 1]
  /\ snapshot' = [snapshot EXCEPT ![p] = NoState]

MayFail(p) == attempt[p] <= FaultyAttempts

(***************************************************************************)
(* What the workflow decides after a return: lines 181 to 264.             *)
(***************************************************************************)

\* Mutant: one representment too many.
MutVerdictOffByOne(code, count) ==
  CASE RouteRCode(code) = "NonRetryable"         -> "FAILED_NON_RETRYABLE"
    [] RouteRCode(code) = "ComplianceEscalation" -> "COMPLIANCE_ESCALATION"
    [] OTHER -> IF count > MaxRepresentments THEN "FAILED_RETRYABLE_EXHAUSTED"
                                             ELSE "PENDING"

Verdict(code, count) ==
  CASE RouteRCode(code) = "NonRetryable"         -> "FAILED_NON_RETRYABLE"
    [] RouteRCode(code) = "ComplianceEscalation" -> "COMPLIANCE_ESCALATION"
    [] OTHER -> IF count >= MaxRepresentments THEN "FAILED_RETRYABLE_EXHAUSTED"
                                              ELSE "PENDING"

\* The ToState of the persistTransition call at pc[p].
Target(p) ==
  CASE pc[p] = "pending"   -> "PENDING"
    [] pc[p] = "submitted" -> "SUBMITTED"
    [] pc[p] = "settled"   -> "SETTLED"
    [] pc[p] = "returned"  -> "RETURNED"
    [] OTHER               -> Verdict(rcode[p], representmentCount[p])

\* Mutant: a payment is closed without being submitted.
MutSkipSubmit(p) ==
  CASE pc[p] = "pending"   -> "round"
    [] pc[p] = "submitted" -> "wait"
    [] pc[p] = "returned"  -> "verdict"
    [] OTHER -> IF Target(p) = "PENDING" THEN "sleep" ELSE "completed"

\* Mutant: the workflow leaves the loop after the first representment delay.
MutGiveUpAfterReturn(p) ==
  CASE pc[p] = "pending"   -> "round"
    [] pc[p] = "submitted" -> "submit"
    [] pc[p] = "returned"  -> "verdict"
    [] OTHER               -> "completed"

\* Mutant: the "return nil" after a failure verdict is missing.
MutNoReturn(p) ==
  CASE pc[p] = "pending"   -> "round"
    [] pc[p] = "submitted" -> "submit"
    [] pc[p] = "returned"  -> "verdict"
    [] pc[p] = "settled"   -> "completed"
    [] OTHER               -> "sleep"

\* Where the workflow goes once the row is in Target(p).
AfterPersist(p) ==
  CASE pc[p] = "pending"   -> "round"
    [] pc[p] = "submitted" -> "submit"
    [] pc[p] = "returned"  -> "verdict"
    [] OTHER -> IF Target(p) = "PENDING" THEN "sleep" ELSE "completed"

\* persistTransition returned nil; before a "return nil" the workflow fires
\* the webhook with the state it persisted.
Transitioned(p) ==
  /\ Return(p, AfterPersist(p))
  /\ webhook' = [webhook EXCEPT ![p] =
                   IF AfterPersist(p) = "completed" THEN Target(p) ELSE @]
  /\ UNCHANGED << representmentCount, traceNumber, rcode >>

(***************************************************************************)
(* PersistStateTransition and UpdatePaymentState.                          *)
(***************************************************************************)

\* Mutant: failed_at is set for the states whose name says FAILED only.
MutStampFailed(r, to) ==
  [r EXCEPT !.state = to,
            !.settledAt = @ \/ to = "SETTLED",
            !.failedAt = @ \/ to \in FailureState \ {"COMPLIANCE_ESCALATION"}]

\* UPDATE payments SET state, settled_at and failed_at with COALESCE.
Updated(r, to) ==
  [r EXCEPT !.state = to,
            !.settledAt = @ \/ to = "SETTLED",
            !.failedAt = @ \/ to \in FailureState]

\* Mutant: an error of the INSERT is ignored and the UPDATE committed.
MutIgnoreAuditError(p, from, to) ==
  /\ row' = [row EXCEPT ![p] = Updated(@, to)]
  /\ \/ audit' = [audit EXCEPT ![p] = Append(@, [from |-> from, to |-> to])]
     \/ UNCHANGED audit

\* Mutant: the audit row is written in a transaction of its own, before.
MutAuditWithoutUpdate(p, from, to) ==
  /\ row' = IF to = "RETURNED" THEN row ELSE [row EXCEPT ![p] = Updated(@, to)]
  /\ audit' = [audit EXCEPT ![p] = Append(@, [from |-> from, to |-> to])]

\* Mutant: the UPDATE has no WHERE clause.
MutUpdateAllRows(p, from, to) ==
  /\ row' = [q \in Payments |-> IF row[q] = NoRow THEN NoRow
                                                 ELSE Updated(row[q], to)]
  /\ audit' = [audit EXCEPT ![p] = Append(@, [from |-> from, to |-> to])]

\* The transaction: the UPDATE has no condition on the state it overwrites.
WriteState(p, from, to) ==
  /\ row' = [row EXCEPT ![p] = Updated(@, to)]
  /\ audit' = [audit EXCEPT ![p] = Append(@, [from |-> from, to |-> to])]

\* Mutant: the check for a transition an earlier attempt made is left out.
MutNotApplied(p) == FALSE

\* Mutant: a payment that was submitted once counts as submitted.
MutAppliedByPayment(p) ==
  \/ row[p].state = Target(p)
  \/ Target(p) = "SUBMITTED" /\ representmentCount[p] > 0

AlreadyApplied(p) == row[p].state = Target(p)

\* The attempt reads the row: it is in ToState already, or the transition
\* is allowed and will be written, or the attempt fails.
PersistRead(p) ==
  /\ pc[p] \in PersistPoints
  /\ snapshot[p] = NoState
  /\ \/ /\ AlreadyApplied(p)
        /\ Transitioned(p)
     \/ /\ ~ AlreadyApplied(p)
        /\ IsTransitionAllowed(row[p].state, Target(p))
        /\ snapshot' = [snapshot EXCEPT ![p] = row[p].state]
        /\ UNCHANGED << pc, attempt, locals >>
     \/ /\ ~ AlreadyApplied(p)
        /\ ~ IsTransitionAllowed(row[p].state, Target(p))
        /\ Retry(p)
        /\ UNCHANGED locals
  /\ UNCHANGED << db, ach, late, unsent, signals >>

\* The transaction commits; its result reaches the workflow or is lost.
PersistCommit(p) ==
  /\ pc[p] \in PersistPoints
  /\ snapshot[p] # NoState
  /\ WriteState(p, snapshot[p], Target(p))
  /\ \/ Transitioned(p)
     \/ /\ MayFail(p)
        /\ Retry(p)
        /\ UNCHANGED locals
  /\ UNCHANGED << ach, late, unsent, signals >>

\* The write a timed-out persist attempt may still make.
AbandonedWrite(p) ==
  IF LateEffects /\ snapshot[p] # NoState
    THEN { [from |-> snapshot[p], to |-> Target(p),
            round |-> representmentCount[p], attempt |-> attempt[p]] }
    ELSE {}

\* The entry a timed-out submission may still send.
AbandonedEntry(p) ==
  IF LateEffects /\ pc[p] = "submit"
    THEN { [trace |-> traceNumber[p], attempt |-> attempt[p]] }
    ELSE {}

\* The attempt ends without an effect: a database, Redis or network error, a
\* worker crash, or a timeout.  The server counts it as failed; an attempt
\* that timed out may still be running.
FailAttempt(p) ==
  /\ pc[p] \in ActivityPoints
  /\ MayFail(p)
  /\ Retry(p)
  /\ \/ UNCHANGED << late, unsent >>
     \/ /\ late' = [late EXCEPT ![p] = @ \cup AbandonedWrite(p)]
        /\ unsent' = [unsent EXCEPT ![p] = @ \cup AbandonedEntry(p)]
  /\ UNCHANGED << db, ach, signals, locals >>

\* A timed-out attempt that is still running writes the row.
LateCommit(p, write) ==
  /\ WriteState(p, write.from, write.to)
  /\ late' = [late EXCEPT ![p] = @ \ {write}]
  /\ UNCHANGED << ach, attempt, snapshot, unsent, signals, locals, pc >>

\* A timed-out attempt that is still running submits the entry.
LateSubmit(p, entry) ==
  /\ wire' = [wire EXCEPT ![p] = Append(@, entry.trace)]
  /\ unsent' = [unsent EXCEPT ![p] = @ \ {entry}]
  /\ UNCHANGED << db, redis, attempt, snapshot, late, signals, locals, pc >>

(***************************************************************************)
(* One round of the loop: trace number, idempotency check, submission.     *)
(***************************************************************************)

Trace(p, second) == << Prefix[p], representmentCount[p], second >>

GenerateTraceNumber(p) ==
  /\ pc[p] = "round"
  /\ \E second \in Seconds :
       traceNumber' = [traceNumber EXCEPT ![p] = Trace(p, second)]
  /\ pc' = [pc EXCEPT ![p] = "check"]
  /\ UNCHANGED << db, ach, exec, signals, representmentCount, rcode, webhook >>

\* EXISTS in Redis: a hit skips the store, the transition and the submission.
AfterCheck(p) == IF traceNumber[p] \in redis THEN "wait" ELSE "store"

CheckIdempotency(p) ==
  /\ pc[p] = "check"
  /\ Return(p, AfterCheck(p))
  /\ UNCHANGED << db, ach, late, unsent, signals, locals >>

\* SETNX in Redis: whether the key was there is not reported.
StoreTraceNumber(p) ==
  /\ pc[p] = "store"
  /\ redis' = redis \cup {traceNumber[p]}
  /\ \/ Return(p, "submitted")
     \/ MayFail(p) /\ Retry(p)
  /\ UNCHANGED << db, wire, late, unsent, signals, locals >>

SubmitToACH(p) ==
  /\ pc[p] = "submit"
  /\ wire' = [wire EXCEPT ![p] = Append(@, traceNumber[p])]
  /\ \/ Return(p, "wait")
     \/ MayFail(p) /\ Retry(p)
  /\ UNCHANGED << db, redis, late, unsent, signals, locals >>

\* Mutant: attempts have no deadline of their own.
MutOutlive(p) == UNCHANGED << late, unsent >>

\* A timer or a sleep of days is over, and with it the 30-second contexts of
\* all attempts that were given up before.
ContextsEnd(p) ==
  /\ late' = [late EXCEPT ![p] = {}]
  /\ unsent' = [unsent EXCEPT ![p] = {}]

(***************************************************************************)
(* The selector: a signal already accepted, or else whichever comes first. *)
(***************************************************************************)

\* Mutant: the channel is emptied, duplicates and all.
MutDrainChannel(p) ==
  /\ pc[p] = "wait"
  /\ inbox[p] # << >>
  /\ rcode' = [rcode EXCEPT ![p] = Head(inbox[p])]
  /\ inbox' = [inbox EXCEPT ![p] = << >>]
  /\ pc' = [pc EXCEPT ![p] = "returned"]
  /\ UNCHANGED << db, ach, exec, accepted, representmentCount, traceNumber,
                  webhook >>

ReceiveReturn(p) ==
  /\ pc[p] = "wait"
  /\ inbox[p] # << >>
  /\ rcode' = [rcode EXCEPT ![p] = Head(inbox[p])]
  /\ inbox' = [inbox EXCEPT ![p] = Tail(@)]
  /\ pc' = [pc EXCEPT ![p] = "returned"]
  /\ UNCHANGED << db, ach, exec, accepted, representmentCount, traceNumber,
                  webhook >>

SettlementTimer(p) ==
  /\ pc[p] = "wait"
  /\ inbox[p] = << >>
  /\ pc' = [pc EXCEPT ![p] = "settled"]
  /\ ContextsEnd(p)
  /\ UNCHANGED << db, ach, attempt, snapshot, signals, locals >>

\* Mutant: the counter is not incremented after the delay.
MutForgetCount(count) == count

NextCount(count) == count + 1

\* workflow.Sleep(RetryDelayFor(code)) is over.
WakeUp(p) ==
  /\ pc[p] = "sleep"
  /\ representmentCount' = [representmentCount EXCEPT ![p] = NextCount(@)]
  /\ pc' = [pc EXCEPT ![p] = "round"]
  /\ ContextsEnd(p)
  /\ UNCHANGED << db, ach, attempt, snapshot, signals, traceNumber, rcode,
                  webhook >>

-----------------------------------------------------------------------------

\* What the Temporal server and the worker do for a running workflow.
WorkflowStep(p) ==
  \/ PersistRead(p)
  \/ PersistCommit(p)
  \/ FailAttempt(p)
  \/ GenerateTraceNumber(p)
  \/ CheckIdempotency(p)
  \/ StoreTraceNumber(p)
  \/ SubmitToACH(p)
  \/ ReceiveReturn(p)
  \/ SettlementTimer(p)
  \/ WakeUp(p)

\* What attempts do that the server has given up.
LateStep(p) ==
  \/ \E write \in late[p] : LateCommit(p, write)
  \/ \E entry \in unsent[p] : LateSubmit(p, entry)

Next ==
  \E p \in Payments :
    \/ CreatePayment(p)
    \/ ExecuteWorkflow(p)
    \/ \E code \in RCodes : PostReturn(p, code)
    \/ WorkflowStep(p)
    \/ LateStep(p)

Spec == Init /\ [][Next]_vars

(***************************************************************************)
(* Temporal persists the workflow and its timers and dispatches its tasks  *)
(* as long as a worker polls, so a running workflow takes its next step.   *)
(* Nothing is assumed of clients, of the API server or of late effects.    *)
(***************************************************************************)
FairSpec == Spec /\ \A p \in Payments : WF_vars(WorkflowStep(p))

-----------------------------------------------------------------------------
(***************************************************************************)
(* Properties.                                                             *)
(***************************************************************************)

Terminal == { state \in PaymentState : IsTerminalState(state) }

AuditEntry == [from : PaymentState, to : PaymentState]

TraceNumbers ==
  { Prefix[p] : p \in Payments } \X (0 .. MaxRepresentments) \X Seconds

LateWrite ==
  [from : PaymentState, to : PaymentState,
   round : 0 .. MaxRepresentments, attempt : 1 .. MaximumAttempts]

LateEntry == [trace : TraceNumbers, attempt : 1 .. MaximumAttempts]

\* The type of the state.
TypeOK ==
  /\ row \in [Payments -> [state : PaymentState \cup {NoState},
                           representmentCount : {0},
                           settledAt : BOOLEAN, failedAt : BOOLEAN]]
  /\ audit \in [Payments -> Seq(AuditEntry)]
  /\ redis \in SUBSET TraceNumbers
  /\ wire \in [Payments -> Seq(TraceNumbers)]
  /\ pc \in [Payments -> Points]
  /\ attempt \in [Payments -> 1 .. MaximumAttempts]
  /\ snapshot \in [Payments -> PaymentState \cup {NoState}]
  /\ late \in [Payments -> SUBSET LateWrite]
  /\ unsent \in [Payments -> SUBSET LateEntry]
  /\ inbox \in [Payments -> Seq(RCodes)]
  /\ accepted \in [Payments -> 0 .. MaxSignals]
  /\ representmentCount \in [Payments -> 0 .. MaxRepresentments]
  /\ traceNumber \in [Payments -> TraceNumbers \cup {NoTrace}]
  /\ rcode \in [Payments -> RCodes \cup {NoCode}]
  /\ webhook \in [Payments -> PaymentState \cup {NoState}]

\* The number of entries of the audit log from one state to another.
AuditCount(p, from, to) ==
  Cardinality({ i \in DOMAIN audit[p] :
                  audit[p][i] = [from |-> from, to |-> to] })

Submissions(p)   == AuditCount(p, "PENDING", "SUBMITTED")
Representments(p) == AuditCount(p, "RETURNED", "PENDING")

\* The traces sent for a payment, retries of the same submission counted once.
Debits(p) == { wire[p][i] : i \in DOMAIN wire[p] }

\* The states the row may be in while the workflow is at pc[p].
RowStates(p) ==
  CASE pc[p] = "absent"    -> {NoState}
    [] pc[p] = "created"   -> {"INITIATED"}
    [] pc[p] = "pending"   -> {"INITIATED", "PENDING"}
    [] pc[p] = "submitted" -> {"PENDING", "SUBMITTED"}
    [] pc[p] = "submit"    -> {"SUBMITTED"}
    [] pc[p] = "wait"      -> {"PENDING", "SUBMITTED"}
    [] pc[p] = "settled"   -> {"PENDING", "SUBMITTED", "SETTLED"}
    [] pc[p] = "returned"  -> {"PENDING", "SUBMITTED", "RETURNED"}
    [] pc[p] = "verdict"   -> {"RETURNED", Target(p)}
    [] pc[p] = "completed" -> Terminal
    [] pc[p] = "failed"    -> PaymentState
    [] OTHER               -> {"PENDING"}  \* round, check, store, sleep

\* The workflow keeps no copy of the row's state and the activities ignore
\* FromState: wherever the workflow is, retries and lost results included,
\* the row is where the code at that point takes it to be, and a persist
\* attempt between its read and its write has read what the row still says.
\* (At "wait" and after it PENDING is the row of a skipped submission.)
RowInStep ==
  \A p \in Payments :
    /\ row[p].state \in RowStates(p)
    /\ snapshot[p] # NoState => snapshot[p] = row[p].state

(***************************************************************************)
(* The audit log (UpdatePaymentState, one transaction): its entries are    *)
(* allowed edges that follow one another from INITIATED to the state of    *)
(* the row, so the log is the history of the row.                          *)
(***************************************************************************)
AuditIsHistory ==
  \A p \in Payments :
    LET log == audit[p]
    IN  /\ \A i \in DOMAIN log :
             /\ IsTransitionAllowed(log[i].from, log[i].to)
             /\ log[i].from = IF i = 1 THEN "INITIATED" ELSE log[i - 1].to
        /\ log # << >> => log[Len(log)].to = row[p].state

\* The weaker fact that holds even when timed-out attempts write late: the
\* last entry names the row's state and no entry records an illegal edge.
AuditMatchesRow ==
  \A p \in Payments :
    LET log == audit[p]
    IN  /\ \A i \in DOMAIN log : IsTransitionAllowed(log[i].from, log[i].to)
        /\ log # << >> => log[Len(log)].to = row[p].state
        /\ log = << >> => row[p].state \in {NoState, "INITIATED"}

\* payment.go 105-112: settled_at is set in SETTLED alone, failed_at in the
\* failure states alone, through every COALESCE on the way.
StampsMatchState ==
  \A p \in Payments :
    /\ row[p].settledAt <=> row[p].state = "SETTLED"
    /\ row[p].failedAt <=> row[p].state \in FailureState

\* repository.go 181-182: COALESCE never clears a stamp, so no row may pass
\* through two final states, whatever attempts write late.
OneFinalStamp ==
  \A p \in Payments : ~ (row[p].settledAt /\ row[p].failedAt)

\* NACHA's limit (rules.go 19): whatever activities are retried and whatever
\* returns arrive, at most MaxRepresentments + 1 different entries are sent
\* for a payment, one per round.
DebitLimit ==
  \A p \in Payments :
    \A i, j \in DOMAIN wire[p] :
      /\ wire[p][i][2] <= MaxRepresentments
      /\ wire[p][i][2] = wire[p][j][2] => wire[p][i] = wire[p][j]

\* After a return that is not R01, R08 or R09 nothing is sent for the payment
\* (the reason compliance and non-retryable codes end the workflow).
NoDebitAfterFinalReturn ==
  [][\A p \in Payments :
       wire'[p] # wire[p] => rcode[p] \in RetryableCodes \cup {NoCode}]_vars

\* An entry is sent only after the row said SUBMITTED for that round: the log
\* has a PENDING -> SUBMITTED entry for each different entry sent.
DebitsAudited ==
  \A p \in Payments :
    \A i \in DOMAIN wire[p] : wire[p][i][2] < Submissions(p)

\* activities.go 68: a retry of SubmitToACH sends the entry again, and so may
\* an attempt that was given up; nothing else does: the copies of an entry
\* follow one another and are no more than the attempts of one activity.
RepeatedOnlyByRetry ==
  \A p \in Payments :
    \A i, j \in DOMAIN wire[p] :
      i < j /\ wire[p][i] = wire[p][j] =>
        /\ j - i < MaximumAttempts
        /\ \A k \in i .. j : wire[p][k] = wire[p][i]

\* Lines 146-178: a return the workflow has taken from the channel is in the
\* log, once: the returns accepted are the ones logged and the ones still in
\* the channel, but for the one whose transition is under way or failed.
ReturnsAudited ==
  \A p \in Payments :
    LET taken  == accepted[p] - Len(inbox[p])
        logged == AuditCount(p, "SUBMITTED", "RETURNED")
    IN  \/ logged = taken
        \/ /\ \/ pc[p] = "returned" /\ row[p].state # "RETURNED"
              \/ pc[p] = "failed"
           /\ logged + 1 = taken

\* The log counts the representments: one RETURNED -> PENDING entry for each
\* round begun or about to begin.  A failed workflow may have written the
\* entry of a round it never began.
RepresentmentsAudited ==
  \A p \in Payments :
    LET waiting == \/ pc[p] = "sleep"
                   \/ pc[p] = "verdict" /\ row[p].state = "PENDING"
        due     == representmentCount[p] + IF waiting THEN 1 ELSE 0
    IN  \/ Representments(p) = due
        \/ /\ pc[p] = "failed" /\ row[p].state = "PENDING"
           /\ Representments(p) = due + 1

\* A final state of the row is justified by what happened: SETTLED by an
\* entry on the wire for the current trace, the others by the last return.
OutcomeJustified ==
  \A p \in Payments :
    /\ row[p].state = "SETTLED" =>
         wire[p] # << >> /\ wire[p][Len(wire[p])] = traceNumber[p]
    /\ row[p].state = "COMPLIANCE_ESCALATION" => rcode[p] \in ComplianceCodes
    /\ row[p].state = "FAILED_NON_RETRYABLE" =>
         rcode[p] \in RCodes \ (RetryableCodes \cup ComplianceCodes)
    /\ row[p].state = "FAILED_RETRYABLE_EXHAUSTED" =>
         /\ rcode[p] \in RetryableCodes
         /\ Submissions(p) = MaxRepresentments + 1

\* README "Terminal state enforcement": no step changes the state of a row
\* that is in a terminal state.
TerminalAbsorbing ==
  [][\A p \in Payments :
       IsTerminalState(row[p].state) => row'[p].state = row[p].state]_vars

\* payment_workflow.go 162-264: a webhook carries the terminal state the row
\* has, and the row keeps it; none is fired for a state that is not final.
WebhookMatchesRow ==
  \A p \in Payments :
    webhook[p] # NoState => /\ webhook[p] = row[p].state
                            /\ IsTerminalState(row[p].state)

\* Every workflow that starts closes, even if every attempt may fail.
WorkflowCloses ==
  \A p \in Payments :
    pc[p] = "pending" ~> pc[p] \in {"completed", "failed"}

\* activities.go 107-115, lines 52-68: when only transient faults happen
\* (FaultyAttempts < MaximumAttempts) and no trace number collides, retries
\* and lost results never make a workflow fail: a workflow that has closed
\* has left its row in a terminal state.
ClosedMeansResolved ==
  \A p \in Payments :
    pc[p] \in Points \ (Running \cup {"absent", "created"}) =>
      IsTerminalState(row[p].state)
=============================================================================
