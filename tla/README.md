# ACH-Orchestrator in TLA+

Models, model-checking runs and proofs for the payment orchestrator: an HTTP
API that creates payments and accepts ACH returns, a Temporal workflow per
payment that submits, represents, settles or fails it, PostgreSQL for the
payment row and its audit log, and Redis for trace-number idempotency.

Paths below are relative to the repository root (`src/` here).

## 1. Inventory

| Part | State it keeps | Operations | Interacts with |
|---|---|---|---|
| `internal/domain` | none (tables) | `IsTransitionAllowed`, `IsTerminalState`, `RouteRCode`, `RetryDelayFor` | everyone |
| `internal/workflow` `PaymentWorkflow` | durable in Temporal: program point, representment count, trace number, last return, buffered signals | persist, check, store, submit, wait, route, sleep, loop | activities, signals from the API |
| `internal/activities` | none | `PersistStateTransition`, `CheckIdempotency`, `StoreTraceNumber`, `SubmitToACH`, `NotifyWebhook`; run at least once, in up to 3 attempts | repository, Redis, ACH gateway (a stub that logs), webhook receiver |
| `internal/db` | `payments` row, `audit_log`, `return_events` | `CreatePayment`, `UpdatePaymentState` (row and audit entry in one transaction), reads, `InsertReturnEvent` (tests only) | PostgreSQL |
| `internal/redis` | key `ach:trace:<trace>` with 7-day TTL | `EXISTS`, `SETNX` | Redis |
| `internal/api` | none | create payment, post return, read payment, audit and list; `HealthHandler` (not mounted) | repository, Temporal, simulator |
| `internal/simulator` | none | one return, or a file of returns, turned into signals | NACHA package, Temporal |
| `internal/nacha` | none | `ParseFile`, `GenerateReturnFile` | simulator |
| `cmd/server`, `cmd/worker` | none | wiring, start-up, shutdown | |
| dashboard, Docker, terraform, CI | none | presentation, deployment | |

What is hard here:

* **at-least-once activities**: an attempt may take effect and lose its
  result, or be timed out by the server while it still runs on a worker;
* **two steps that are not atomic**: read the row, then update it; `EXISTS`,
  then `SETNX`; persist SUBMITTED, then submit; insert the row, then start the
  workflow;
* **returns at any time**: buffered while the workflow persists, submits or
  sleeps; duplicated by clients; racing the settlement timer; consumed by a
  later round, because their trace number is not compared with anything;
* **limits**: two representments, three attempts;
* **three stories of one payment**: the row, the audit log and the entries
  sent must agree whatever fails.

What makes each part correct:

* domain: each code has one category; unknown codes stop the payment;
* repository: row and log change together, along allowed edges, and final
  states are final;
* activities and Redis: a retry does not do twice what was done once;
* workflow: at most `MaxRepresentments + 1` entries, none after a final
  return, an outcome justified by what happened, and an end to every workflow;
* API, simulator: an accepted payment or return is acted upon, once;
* NACHA: parsing what was generated gives it back; entries and addenda pair up.

Every hazard, at its line, is listed under `hazards` in `PROJECT.json` with the
properties that cover it, or the reason why none does.

## 2. Modules

| Module | Models | Built on |
|---|---|---|
| `PaymentDomain` | constant-level: states, allowed edges, return-code routing | |
| `PaymentWorkflow` | the core: create and return, the workflow, its activities and retries, row, audit log, Redis, entries sent | `PaymentDomain` |
| `PaymentLifecycle` | the abstract specification: allowed edges, at most `MaxRepresentments` representments, exhausted only after that many | `PaymentDomain` |
| `PaymentWorkflowClaims` | the refinement mapping to `PaymentLifecycle`, and documented statements the code does not keep | `PaymentWorkflow` |
| `PaymentTiming` | the core with a calendar: settlement timer, representment delays, TTL of the keys, days without a worker | `PaymentWorkflow` |
| `PaymentAPI` | the HTTP handlers, call by call, over the workflows | `PaymentWorkflow` |
| `WebhookDelivery` | `fireWebhook` and `NotifyWebhook` against the 30 s of the activity | |
| `NachaFile` | `ParseFile` line by line, and `GenerateReturnFile` | |
| `ReturnFile` | `SimulateReturnFromFile`: parsing composed with the signals and the workflows | `PaymentWorkflow`, `NachaFile` |
| `HealthCheck` | one call of `HealthHandler` | |
| `ServerProcess` | start-up, serving and shutdown of `cmd/server` | |
| `MC_*` | values of the constants for TLC | |
| `*_proofs` | the theorems of section 5 | |

### How `PaymentWorkflow` corresponds to the code

`pc[p]` is where `PaymentWorkflow` is. Five points are calls of
`persistTransition`: `pending`, `submitted`, `settled`, `returned` and
`verdict` (the last stands for the branches of the switch at lines 181-264,
chosen by `Verdict`). `check`, `store` and `submit` are the other activities,
`round` the top of the loop, `wait` the selector, `sleep` the representment
delay. `absent` and `created` are before the workflow starts; `completed` is
`return nil`, `failed` is `return err`.

| Variable | Code |
|---|---|
| `row` | the row of `payments`: `state`, `representment_count`, whether `settled_at`, `failed_at` are set |
| `audit` | the rows of `audit_log`, in commit order |
| `redis` | trace numbers that have a key |
| `wire` | the trace number of each execution of `SubmitToACH` |
| `attempt`, `snapshot` | the running attempt; the state `GetPaymentByID` returned to it (a persist attempt between read and write) |
| `late` | writes that persist attempts may still make after the server timed them out |
| `unsent` | entries that submissions may still send after the server timed them out |
| `inbox`, `accepted` | buffered signals; how many were accepted (only to bound them) |
| `representmentCount`, `traceNumber`, `rcode` | the workflow's locals |
| `webhook` | the state `fireWebhook` was called with |

One action per step: `CreatePayment` and `ExecuteWorkflow` are the two effects
of `createPayment`; `PostReturn` is a return accepted by `SignalWorkflow`;
`PersistRead` and `PersistCommit` are `PersistStateTransition` split where
another transaction can come in between; `FailAttempt` is an attempt without
effect; an attempt with effect and lost result is the second disjunct of
`PersistCommit`, `StoreTraceNumber` and `SubmitToACH`. With `LateEffects` an
attempt the server has timed out may still be running on its worker:
`FailAttempt` may leave its write (`late`) or its entry (`unsent`) behind, and
`LateCommit` and `LateSubmit` have the effect at any later time, until
`ContextsEnd`: the contexts of attempts last 30 seconds (`payment_workflow.go`
58), so what was given up before a settlement timer or a representment delay of
days began is over when that ends (a worker whose clock stands still for a day
is left out). A late `SETNX` or `EXISTS` changes nothing the first
did not. `Retry` is the retry
policy, which also covers the state machine's refusal, because no error is
declared non-retryable. Signal and timer: a signal in the channel when the
selector is entered, or accepted before the timer fires, wins; a signal
accepted after it is buffered, and the workflow closes without reading it.
Worker restarts need no action of their own: the workflow is replayed to the
same point, and an activity in progress fails with or without its effect.

Abstractions: amounts, accounts, reasons and timestamps are left out; a delay
is "some time later"; a trace number is the triple of UUID prefix, round and
second; of an audit entry only its two states are kept.

Not in the core: time, keys that expire, the delivery of the webhook and the handlers
around the workflow are in the modules below.

### `PaymentTiming`

The unit is a day, because 72 h, 24 h, 48 h and seven days are multiples of it
and activities with their retries take seconds. `due` is when the timer or the
sleep of a payment ends, armed on the step that begins the wait; `expires` is
the TTL of each key; `Tick` lets a day pass when no timer is due, and counts it
in `outage` if a worker had something to do: a day passes in that case only
because no worker polled. Each `TimedStep` is a whole step of `WorkflowStep`
with its guard on the calendar. A signal accepted before the timer's day is
taken first; a timer that is due comes before a signal accepted later.

### `PaymentAPI`

A request is in `handler[r]`: the next call its handler makes. A call can fail
without effect (`CallFails`, 500; the 30 s of the router only cancel the
context, and the handler answers when its call returns), or have its effect and
lose the answer (the 500 alternatives of `InsertPayment`, `StartWorkflow` and
`SignalWorkflow`). A request whose server stops takes no further step, which a
behaviour always allows. Requests refused with 400 change nothing and are not
enumerated. `getAudit` is two steps, `ReadRow` and `ReadLog`, because it is two
statements and the workflow, and attempts that were given up, go on between
them. The log is returned as a set (`Entries`): it is sorted by `created_at`,
which every attempt takes from the clock of its worker before its transaction
(`repository.go` 162), and nothing in the code relates that order to the order
of the transitions.

### `WebhookDelivery`

`Delays` is the list of back-offs, one POST for each, `Deadline` the time from
schedule to close; `MC_WebhookDelivery` gives them the code's values. `phase`
is where the activity is: `scheduled`, in `doPost` (`posting`), in the
back-off, or over. The workflow schedules the activity in the task that
completes it and does not wait, so the server may drop it (`Drop`); with one
attempt, a worker that stops loses it (`Crash`). A POST may be kept open until
the deadline; `Tick` is a second.

### `NachaFile` and `ReturnFile`

A line is a record of the fields the parser takes from it; each action is one
case of the switch on the first character with its early return. `padLeft` is
`AmountField`: it keeps the last digits. Positions, padding and the hash are
left out. `ReturnFile` runs `ParseFile` on a file and then the loop over its
entries: skip an unknown trace, signal (accepted, or accepted and the answer
lost), refused because the workflow is closed, or failed. The first call of
`ParseFile` in a behaviour is another caller's, with any file of up to
`MaxLines` lines or any generated one, so one instance checks the parser by
itself and composed.

### `HealthCheck` and `ServerProcess`

`HealthCheck` has one goroutine for each of `Deps` (three in the code), the mutex (`holder`), the wait group
(`counter`) and the context's three seconds. `ServerProcess` has the clients
that are open, each connection from `Accept` to its end, and `main` from the
first connect to the deferred closes. Connections that stay open for a second
request are not modelled: between requests they are idle, and `Shutdown` closes
them.

## 3. Runs

| Run | Instance | Question |
|---|---|---|
| `core_one` | 1 payment, 4 codes (one of each category and an unknown one), the code's 2 representments and 3 attempts, all of which may fail, up to 4 returns, fair | do row, log, stamps, returns, entries, outcome and webhook agree, is the row a `PaymentLifecycle`, and does the workflow end? |
| `late_effects` | 1 payment, limit 1, 2 attempts, 2 returns, timed-out attempts that still write or submit | what holds when attempts that were given up have their effect later? |
| `timing` | 1 payment, the code's timers, limit and 3 attempts, the first of which may fail, 2 codes with different delays, 3 returns, up to 3 days without a worker | how long does a payment live, does it end in a final state, is a delay kept, does a key outlive its round? |
| `api` | 1 payment, 3 requests of any kind, limit 0, 2 attempts that may both fail, 2 signals, late effects | is what a client was told true of the workflow, the row and the log? |
| `webhook` | the real 30 s, 3 POSTs | are POSTs spaced and bounded, and does the activity end? |
| `return_file` | any file of up to 5 lines and every generated one; 2 runs of 3 files against 2 payments with the same trace numbers, limit 1, 2 attempts that may both fail | does parsing give what the lines say, does a run signal what the file says, and do payments whose traces collide disturb one another? |
| `health` | 3 dependencies, 3 s | does the response tell what the probes found, and come? |
| `shutdown` | 3 connections, times in units of 5 s | is a request that began before the signal ever cut? |
| `claim_terminal`, `claim_dedup`, `claim_retry`, `claim_delay` | small instances | documented statements that do not hold (section 6) |

### Bounds

Payments share nothing but Redis keys, so one payment, and two that collide
(`return_file`), are all the cases; four returns exhaust the
two representments and leave one over; each fault is possible at each attempt,
and three attempts is the code's own number. Where late effects or a second
payment multiply the states the limit is one representment and two attempts,
which still gives a second round and a retry; `late_effects` has two returns,
so a second representment is there to be refused. In `api` the limit is zero:
the requests are about the workflow's start, its signals and its end, and a log
with a late write in it needs one round. The bounds that are not the code's:

* `FaultyAttempts`, `MaxSignals` (core): constants, for every value of which
  the theorems hold. A signal is an element of a queue nothing compares with
  the others, so one more than the rounds can take is enough.
* `FaultyAttempts = 1` (`timing`): faults are transient there, which
  `ClosedMeansResolved` is about. It is also about one payment: the trace
  numbers of two may collide, and then the skipped one may fail in PENDING.
* `MaxOutage` (`timing`): three days. `TraceKeyHeld` depends on it: a worker
  that is away for longer than the TTL leaves, when it comes back, a round
  whose key is gone.
* three requests (`api`): a create, a return and a read, or any other three;
  the reads of two requests and a third that moves the payment on are the
  largest case the properties relate. `SYMMETRY` is sound: requests are
  interchangeable and the run checks invariants only. `MaxSignals` there is the
  number of returns that can have been accepted and matter.
* amounts (`api`, `return_file`): one that fits the amount field and one that
  does not; the field has two digits instead of ten.
* `MaxLines` (`return_file`): five lines hold an entry without an addenda
  between two others, and every way a record closes one.
* `MaxRuns` (`return_file`): a file, and once more after it failed.
* `Horizon` (`shutdown`): a drain of six units that begins at any of the first
  units ends before it. `SYMMETRY` as above.

`CHECK_DEADLOCK FALSE` in every run: each system stops, when every workflow is
closed, the requests are answered, the activity is over, the process has ended.

### Fairness

`FairSpec` assumes weak fairness of each running workflow's steps, failed
attempts included. Temporal persists workflows and timers and dispatches their
tasks for as long as a worker polls, and activity attempts are bounded by the
timeout and `MaximumAttempts`. Nothing is assumed of clients, of the API server
between the insert and the start of the workflow, or of late effects.
`core_one` is checked under it: the workflow closes although every attempt may
fail, but it may fail in an intermediate state.

`WSpec` (webhook) and `HSpec` (health) assume that time passes, that the code
runs, and that a context that has ended makes what waits for it return. No
receiver and no dependency need ever answer. `PaymentTiming`, `PaymentAPI`,
`ReturnFile` and `ServerProcess` state no fairness; what has to happen in time
there (timers, drains) is in the guards of their ticks.

## 4. Properties

The core:

* `AuditIsHistory`, `AuditMatchesRow`: the log is the chain of allowed edges
  from INITIATED to the row's state; with late writes only its end and its
  edges are right (the second is what `late_effects` checks).
* `RowInStep`: the row is where the workflow, which keeps no copy of it and
  whose `FromState` nobody checks, takes it to be.
* `StampsMatchState`, `OneFinalStamp`: `settled_at` and `failed_at` through the
  COALESCEs; whatever is written late, no row has both.
* `DebitLimit`, `NoDebitAfterFinalReturn`, `DebitsAudited`,
  `RepeatedOnlyByRetry`: one entry per round, three at most, none after a final
  return, none before its audit entry, and copies only by the attempts of one
  submission, those that were given up included. `NoDebitAfterFinalReturn` does
  not hold with late effects (a submission that was given up may go out after
  the return of the one that was not), so it is stated without them. It is about the last return received: a
  return still in the inbox does not stop a submission in the code either.
* `ReturnsAudited`: the returns accepted are the ones in the log and the ones
  still in the channel, so none is lost or handled twice while it is taken,
  persisted and retried. A return accepted too late stays in the channel.
* `RepresentmentsAudited`, `OutcomeJustified`, `WebhookMatchesRow`: the log
  counts the representments; a final state follows from what was sent and
  returned; the webhook tells the state the row has.
* `TerminalAbsorbing`: final states are final.
* `WorkflowCloses`: liveness. `ClosedMeansResolved`: with transient faults a
  closed workflow leaves its row in a final state; without them `WorkflowCloses`
  is what remains.
* `ImplementsLifecycle`: refinement.

Around it:

* `LifeBounded`, `RepresentedAfterDelay`, `TraceKeyHeld` (timing): three
  settlement windows and two delays are the longest life, plus outages; no
  representment before its delay, also when the return was accepted rounds
  earlier; the key is there until the round is decided.
* `CreatedMeansStarted`, `AnsweredReturnsAccepted`, `ReadsAgree` (API): a 201
  has a workflow, a 200 a signal of its own, and what was read of the row is
  explained by the log, whose entries begin where others end. A payment whose
  creation was not answered 201 may stay INITIATED for ever: none of these says
  it does not.
* `PostsSpaced`, `NothingAfterAck`, `WebhookEnds` (webhook). That a notification
  is delivered is not promised, and no property.
* `ParsedAsSaid`, `RoundTrip`, `FileDelivered` (files): against definitions of
  what the lines say that have no loop. What a run has signalled is at every
  moment the known payments of the entries before its position, also when it
  ends with an error.
* `AnswerTellsProbes`, `HealthAnswered` (health), `DrainCoversRequests`
  (shutdown).

Every property has a mutant in `PROJECT.json`: a plausible error in one mapped
definition that makes TLC find the property violated. The mutated definitions
are the operators named `Mut...` next to the ones they replace.

## 5. Proofs

The theorems hold for every value of the constants, under the named assumptions
of the modules. In the core these say that the constants are numbers of the
right kind, that every payment has a UUID prefix and that "none" is not a
return code; payments, codes, seconds, limits and bounds are otherwise any.
Around it they say that an amount field has at least one value and amounts are
numbers, that the addenda of a bad line is no return code, that the traces of
the simulator's table belong to payments, that dependencies are finite, that
there is a list of back-offs and a deadline, and that a request's timeout is no
longer than the drain.

| Module | Theorem | Property | Hypothesis |
|---|---|---|---|
| `PaymentWorkflow_proofs` | `TypeCorrect` | `TypeOK` | |
| | `AuditAgreesWithRow` | `AuditMatchesRow` | |
| | `RowFollowsWorkflow` | `RowInStep` | no late effects |
| | `WebhookTellsRow` | `WebhookMatchesRow` | no late effects |
| | `TerminalIsFinal` | `TerminalAbsorbing` | no late effects |
| | `AuditLogIsHistory` | `AuditIsHistory` | no late effects |
| | `StampsTellState` | `StampsMatchState` | no late effects |
| `PaymentDebit_proofs` | `DebitsLimited` | `DebitLimit` | |
| | `NoDebitAfterFinal` | `NoDebitAfterFinalReturn` | no late effects |
| | `CopiesAreRetries` | `RepeatedOnlyByRetry` | |
| | `DebitsAreAudited` | `DebitsAudited` | no late effects |
| | `RepresentmentsAreAudited` | `RepresentmentsAudited` | no late effects |
| | `OutcomesAreJustified` | `OutcomeJustified` | no late effects |
| | `WorkflowImplementsLifecycle` | `ImplementsLifecycle` | no late effects |
| `PaymentTiming_proofs` | `LivesAreBounded` | `LifeBounded` | |
| | `RepresentmentsWait` | `RepresentedAfterDelay` | |
| | `TraceKeysHeld` | `TraceKeyHeld` | outages of three days at most |
| `PaymentAPI_proofs` | `RequestsImplementWorkflow` | `ASpec => Spec` | |
| | `CreatedIsStarted` | `CreatedMeansStarted` | |
| | `ReturnsAreAccepted` | `AnsweredReturnsAccepted` | |
| | `ReadsAreExplained` | `ReadsAgree` | |
| `ReturnFile_proofs` | `ParserFindsWhatIsSaid` | `ParsedAsSaid` | |
| | `GeneratedFilesRoundTrip` | `RoundTrip` | |
| | `FilesAreDelivered` | `FileDelivered` | |
| | `FilesActAsReturns` | `FSpec => Spec` | |
| | `FilesJustifyOutcomes` | `OutcomeJustified` | no late effects |
| `WebhookDelivery_proofs` | `PostsAreSpaced`, `NothingPostedAfterAck` | `PostsSpaced`, `NothingAfterAck` | |
| `HealthCheck_proofs` | `ResponseTellsProbes` | `AnswerTellsProbes` | |
| `ServerProcess_proofs` | `DrainCovers` | `DrainCoversRequests` | |

With these every safety and action property that a passing run checks has a
theorem but `ReturnsAudited`, `OneFinalStamp` and `ClosedMeansResolved`. "No
late effects" is the hypothesis `LateEffects = FALSE`: `claim_terminal` is a
counterexample to `TerminalAbsorbing` without it, and `RowInStep`,
`AuditIsHistory` and the refinement fail with it for the same reason. (A late
write over a final state does not change what explains it, so `ReadsAgree`
holds with late effects, and a late entry is counted, so do `DebitLimit` and
`RepeatedOnlyByRetry`.) The three days of `TraceKeysHeld` are what the TTL of seven
leaves beside the settlement window of three, so that the key does not expire
on the day the round ends; only outages can make a round longer.

The inductive invariants, and why the properties alone are not enough:

* `TypeInv`. `TypeOK` bounds the counter and the rounds in trace numbers by
  `MaxRepresentments`; the step that increments keeps it only because the
  workflow sleeps with a representment left (`LocalsInStep`).
* `AuditInv` adds `PendingWrites`: every write that may still happen, late ones
  included, is along an allowed edge.
* `RowInv` says for each program point which states the row may be in, and that
  a running persist attempt has read the state the row still has. From it a
  write never leaves a terminal state, each audit entry begins where the last
  one ended, and both stamps are unset before each write.
* `DebitInv`: an entry of the current round exists only after the round's
  submission and equals the current trace number; before a new return the last
  one was retryable. `CopyInv` adds that rounds on the wire never decrease, and
  that the copies sent and the entries that attempts given up may still send
  are, together, fewer than the number of the attempt that runs. An entry that
  may still be sent is of the current round, because a round ends with a wait
  that outlasts it (`ContextsEnd`).
* `LogInv` relates the log to the workflow's counter: outside failed workflows
  `Submissions` is `representmentCount`, plus one from the SUBMITTED transition
  to the end of the round (`Recorded`), and `Representments` likewise from the
  decision to the wake-up (`Waiting`). An entry is sent in between, so it is in
  the log; a payment is exhausted when the counter is at its limit, so the log
  has that many representments. The counting lemmas (`CountAppended`,
  `CountWritten`) come from the theorems about finite sets.
* The refinement maps `state` to the row's state and `representments` to the
  count of the log. `CreatePayment` is `Create`; a commit is `Represent` from
  RETURNED to PENDING and `Move` elsewhere; every other step stutters. That a
  `Represent` is below the limit, and an exhaustion at it, is `LogInv`.
* `LifeInv` (timing) bounds, by the stage of the round, how many windows and
  delays have been used, and `due` by what is left of the present one; a day
  passes only before `due` or into `outage`. `DelayInv` says that from the sleep
  to the submission the delay of the last return lies behind or is waited for.
  `TraceInv` says that a key lasts seven days from the day of its trace number
  or longer, whoever stored it, and how old the trace number of a round can be
  at each of its points. All three rest on lemmas about which point follows
  which (`StepAdvances`, `TraceSteps`).
* `CallInv` (API) says at which call each handler can be and what it has in
  hand. A request that is answered 201 has started the workflow in that step,
  and a started workflow is never unstarted (`StartedStays`). `ReturnsInv`
  counts: the requests answered 200 are a finite set no larger than the signals
  accepted. That requests implement the workflows needs `CallInv` as well: a
  signal is sent for a payment and a code of the core only.
* `KnownInv` (API) says that the log of a payment explains the state of its row,
  the state the running attempt has read, the states that abandoned writes
  begin in, and the beginning of each of its entries: whoever writes, and
  however late, appends an entry that begins in a state the row once had. With
  it `ReadAt` says of every request that what it saw is explained by what it
  read next; a log only grows (`LogGrows`), so it stays explained.
* `ParserInv` (files) is the loop invariant of `ParseFile`: the entries found
  and the one that waits are, in order, the entries of the lines read so far,
  each with what those lines say of it; one waits exactly while the last entry
  is not closed; no line read was bad. One line more changes what the lines say
  of one entry at most (`SaidAppended`, `ClosingAppended`), and moves no entry
  (`RanksAppended`). The induction is that of the steps, one per line, so it
  holds for files of any length.
* `GeneratedInv` (files) says what has been found after each of the six lines
  of a generated file; that the amount is given back exactly when it fits is
  then arithmetic about `AmountField`.
* `LoopInv` (files) says that the positions signalled are the known ones before
  `position`, or that one too after an error, and that the parser is done before
  the loop begins. With it each
  signal is a `PostReturn` of the core (`FilesActAsReturns`), and all theorems
  about `Spec` hold of return files; `FilesJustifyOutcomes` is one of them.
* `WebhookInv`, for any list of delays: in the back-off `wake` is the time of the
  last POST plus its delay or later, and each phase has its number of POSTs.
* `HealthInv`, for any finite set of dependencies: `counter` is the number of goroutines that have not called
  `Done`; a status is "ok" until its goroutine has called it, and then what its
  ping returned.
* `ServerInv`: a request that began before the signal has, while the server
  drains, `RequestTimeout` left at most, so the drain ends no earlier; the
  clients are open until it has ended. What is left after a drain cut short began
  at the signal or later. `TimesAssumption` is the code's relation
  of the two times.

Only model-checked: the liveness properties (`WorkflowCloses`, `WebhookEnds`,
`HealthAnswered`), which need fairness and `ENABLED` and are out of the prover's
reach, and the three safety properties named above. `PaymentTiming` does not implement
the core, because its keys expire; what its proofs need of the core they take
from lemmas about single steps.

## 6. Where documents and code differ

Checked, each by a run that finds a violation:

| Run | Statement | What the code does |
|---|---|---|
| `claim_terminal` | README 147: every state change is gated, the database is never touched by an illegal one; `activities.go` 97: a database constraint protects against repeated calls | the gate looks at a row read before the transaction, the UPDATE has no condition on the state, and there is no such constraint: an attempt to persist RETURNED that was timed out and retried, and still runs, commits after the retry and the verdict have, and the row goes from a failure state back to RETURNED |
| `claim_dedup` | README 161: atomic check-and-set across concurrent requests | `EXISTS` and `SETNX` are separate activities and the answer of `SETNX` is dropped; needs two payments with the same eight-character UUID prefix that begin a round in the same second |
| `claim_retry` | README 144: `SETNX` prevents duplicate debits if an activity fires more than once; `activities.go` 65-67: a retry does not submit twice | `SubmitToACH` does not consult the key: an attempt that submitted and lost its result is followed by one that submits the same entry. What holds instead is `RepeatedOnlyByRetry` |
| `claim_delay` | README 78, 101 and 143: 48 hours between representments for R01, R08 and R09 | R01 and R08 wait 24 hours (`rules.go` 26 and 37), as `tests/rcode_unit_test.go` 85 expects. What holds instead is `RepresentedAfterDelay` |

Seen while reading, visible in the models but without a run of their own:

* `payment.go` 29 says SUBMITTED means the entry has been sent; SUBMITTED is
  persisted before the submission, which may fail for good.
* README 315 says the workflow acts on a return; one accepted after the timer
  fired is answered 200 and dropped.
* `payment.go` 86 says `representment_count` counts; nothing writes it.
* README 252: a failure between the insert and `ExecuteWorkflow` (`handlers.go`
  208) leaves a payment INITIATED for ever.
* `repository.go` 119 says the struct has what the database stored; the rounded
  amount is not among the returned columns.
* `.env.example` 31 says a POST is sent whenever a payment reaches a terminal
  state; the activity is scheduled by the task that completes the workflow and
  may never be dispatched.
* `payment_workflow.go` 275 says three attempts; a receiver that keeps the
  first POST open uses up all 30 seconds (`notify_webhook.go` 83). The payload's
  amount is always zero (`payment_workflow.go` 279).
* `parser.go` 108 says flush and finish; the loop goes on after the file
  control record.
* `return_simulator.go` 87 says every payment of the file is signalled; the
  loop ends at the first that is closed (114).
* `repository.go` 336 says chronological order; `created_at` is the worker's
  clock before the transaction (162), and nothing relates the clocks of two
  workers. Not in the models.
* `cmd/server/main.go` 115 logs a clean shutdown after a forced one too.
* README 347 documents `/health` and `terraform/main.tf` 409 probes it; the
  router has no such route.
* `cmd/worker/main.go` 79 registers `NotifyWebhook`, which the registration of
  the struct before it already has; the SDK does not accept a name twice.

## 7. Not modelled

* `cmd/worker`: a sequence of start-up calls without another actor and without
  state that lasts. What a worker does afterwards is in the core.
* Migrations, the list of payments with the dashboard, `InsertReturnEvent`
  (called by tests only), Docker, terraform, CI: declarations, one read, and
  presentation.
* The rounding of amounts by `NUMERIC(19,4)`: amounts take no part in control
  flow outside the return files, where they are modelled. (One that would round
  to zero is refused by the `CHECK` of migration 001.)
* The time stamps of the audit log and the order it is returned in.
* Routing to `HealthHandler`: the handler is modelled as called.
* Waiting inside `pgxpool.Close` for connections in use.
* Character positions of NACHA records, texts, logs.

## 8. What is left

* `TraceKeyHeld` for outages as a function of the TTL, instead of three days.
* The safety of the core when keys expire: which of its theorems hold of
  `PaymentTiming` too.
* Proofs of `ReturnsAudited`, `OneFinalStamp` and `ClosedMeansResolved`.
* `WorkflowCloses` for two payments whose trace numbers collide.
