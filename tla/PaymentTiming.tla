----------------------------- MODULE PaymentTiming -----------------------------
(***************************************************************************)
(* PaymentWorkflow with a calendar.  The unit of time is a day: the 72 h   *)
(* settlement timer, the 24 h and 48 h representment delays of rules.go    *)
(* and the 7-day TTL of the trace keys are all multiples of it, and the    *)
(* seconds the activities and their retries take vanish in it.             *)
(*                                                                         *)
(* Temporal fires a timer on its day, whether or not a worker polls.  What *)
(* the worker has to do is done the same day, except on the days it is     *)
(* away; MaxOutage bounds those.  Attempts that were given up have no      *)
(* effects here: none lasts a day.                                         *)
(***************************************************************************)
EXTENDS PaymentWorkflow

CONSTANT MaxOutage   \* bound: days on which no worker polls

ASSUME OutageAssumption == MaxOutage \in Nat

\* rules.go 26-41 and payment_workflow.go 135, in days.
RetryDelayR01     == 1
RetryDelayR09     == 2
RetryDelayR08     == 1
RetryDelayDefault == 1
SettlementWait    == 3

\* RetryDelayFor of rules.go.
RetryDelayFor(code) ==
  CASE code = "R01" -> RetryDelayR01
    [] code = "R08" -> RetryDelayR08
    [] code = "R09" -> RetryDelayR09
    [] OTHER        -> RetryDelayDefault

\* Mutant: the keys live as long as the settlement timer.
MutShortTTL(day) == day + SettlementWait

\* client.go: TraceTTL, seven days after the day the key was written.
ExpiryOf(day) == day + 7

VARIABLES
  today,       \* the day
  outage,      \* days without a worker so far
  due,         \* the day the timer or the sleep of the payment ends
  expires,     \* the day each key in redis expires
  startedOn,   \* the day ExecuteWorkflow was called
  returnedOn   \* the day the workflow received its last return

calendar == << today, outage, due, expires, startedOn, returnedOn >>

TInit ==
  /\ Init
  /\ today = 0
  /\ outage = 0
  /\ due = [p \in Payments |-> 0]
  /\ expires = << >>
  /\ startedOn = [p \in Payments |-> 0]
  /\ returnedOn = [p \in Payments |-> 0]

\* Mutant: the sleep ends when the settlement timer would have fired.
MutDueFromStart(p) ==
  CASE pc'[p] = "wait" -> today + SettlementWait
    [] OTHER           -> due[p]

\* NewTimer and Sleep: the day the workflow arms when it starts to wait.
Armed(p) ==
  CASE pc'[p] = "wait"                      -> today + SettlementWait
    [] pc'[p] = "sleep" /\ pc[p] # "sleep"  -> today + RetryDelayFor(rcode[p])
    [] OTHER                                -> due[p]

\* The timer has fired: Temporal puts it before any return accepted later.
TimerFires(p) == pc[p] = "wait" /\ inbox[p] = << >> /\ today >= due[p]

\* The worker has something to do for the payment.
WorkerBusy(p) ==
  \/ pc[p] \in Running \ {"wait", "sleep"}
  \/ pc[p] = "wait" /\ inbox[p] # << >>
  \/ pc[p] = "sleep" /\ today >= due[p]

\* One step of the workflow, no earlier than its timer allows, with today's
\* clock in the trace number (workflow.Now) and in the expiry of the key.
TimedStep(p) ==
  /\ WorkflowStep(p)
  /\ pc[p] = "wait" => TimerFires(p) \/ WorkerBusy(p)
  /\ pc[p] = "sleep" => WorkerBusy(p)
  /\ pc[p] = "round" => traceNumber'[p][3] = today
  /\ due' = [due EXCEPT ![p] = Armed(p)]
  /\ returnedOn' = [returnedOn EXCEPT ![p] =
                      IF pc[p] = "wait" /\ pc'[p] = "returned" THEN today ELSE @]
  /\ expires' = [t \in redis' |->
                   IF t \in redis THEN expires[t] ELSE ExpiryOf(today)]
  /\ UNCHANGED << today, outage, startedOn >>

TimedStart(p) ==
  /\ ExecuteWorkflow(p)
  /\ startedOn' = [startedOn EXCEPT ![p] = today]
  /\ UNCHANGED << today, outage, due, expires, returnedOn >>

ClientStep(p) ==
  /\ CreatePayment(p) \/ \E code \in RCodes : PostReturn(p, code)
  /\ UNCHANGED calendar

\* Redis drops the keys whose day has come.
Unexpired == { t \in redis : expires[t] > today + 1 }

\* A day passes while some workflow waits; it is lost if the worker had work.
Tick ==
  /\ \E p \in Payments : pc[p] \in Running
  /\ \A p \in Payments : ~ TimerFires(p)
  /\ today' = today + 1
  /\ outage' = outage + IF \E p \in Payments : WorkerBusy(p) THEN 1 ELSE 0
  /\ outage' <= MaxOutage
  /\ redis' = Unexpired
  /\ expires' = [t \in Unexpired |-> expires[t]]
  /\ UNCHANGED << db, wire, exec, signals, locals, pc, due, startedOn,
                  returnedOn >>

TNext ==
  \/ \E p \in Payments : TimedStep(p) \/ TimedStart(p) \/ ClientStep(p)
  \/ Tick

TSpec == TInit /\ [][TNext]_<< vars, calendar >>

-----------------------------------------------------------------------------

\* rules.go 23-37 (24 h is the floor, 48 h for uncollected funds): an entry of
\* a later round is sent no earlier than that after the return it answers,
\* also when that return was accepted during an earlier round or the sleep.
Floor == [code \in RetryableCodes |-> IF code = "R09" THEN 2 ELSE 1]

RepresentedAfterDelay ==
  [][\A p \in Payments :
       wire'[p] # wire[p] /\ representmentCount[p] > 0 =>
         today >= returnedOn[p] + Floor[rcode[p]]]_<< vars, calendar >>

\* README 143: "48-hour workflow.Sleep between representments for
\* R01/R08/R09".  The code keeps it for R09 alone.
RepresentedAfter48Hours ==
  [][\A p \in Payments :
       wire'[p] # wire[p] /\ representmentCount[p] > 0 =>
         today >= returnedOn[p] + 2]_<< vars, calendar >>

\* From the start of its workflow a payment is decided within three
\* settlement windows and two of the longest delays, plus the days the worker
\* was away: retries, returns and duplicates never stretch it further.
LifeBounded ==
  \A p \in Payments :
    pc[p] \in Running =>
      today - startedOn[p] <=
        (MaxRepresentments + 1) * SettlementWait + MaxRepresentments * 2 + outage

\* client.go 18-21: the key of the round in flight is still there when the
\* round is decided (for outages of at most three days).
TraceKeyHeld ==
  \A p \in Payments :
    pc[p] \in {"submitted", "submit", "wait"} => traceNumber[p] \in redis
=============================================================================
