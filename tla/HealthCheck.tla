------------------------------ MODULE HealthCheck ------------------------------
(***************************************************************************)
(* One call of HealthHandler: a goroutine per dependency pings it under a  *)
(* context of three seconds and records a failure under a mutex; the       *)
(* handler waits for all of them and reads what they wrote without it.     *)
(***************************************************************************)
EXTENDS Naturals, FiniteSets

CONSTANTS
  Deps,      \* health.go 36: PostgreSQL, Redis and Temporal
  Timeout    \* health.go 27: 3 seconds

NoProbe == "nobody"

ASSUME HealthAssumption ==
  /\ IsFiniteSet(Deps)
  /\ NoProbe \notin Deps
  /\ Timeout \in Nat

VARIABLES
  probe,     \* "pinging", "failed", "writing" or "done"
  outcome,   \* what the ping returned, "none" until it has
  status,    \* pgStatus, rdStatus, tpStatus
  holder,    \* the probe that holds mu, or "nobody"
  counter,   \* the counter of wg
  answer,    \* the status code written, 0 before
  now        \* seconds since the context was made

health == << probe, outcome, status, holder, counter, answer, now >>

HInit ==
  /\ probe = [d \in Deps |-> "pinging"]
  /\ outcome = [d \in Deps |-> "none"]
  /\ status = [d \in Deps |-> "ok"]
  /\ holder = NoProbe
  /\ counter = Cardinality(Deps)
  /\ answer = 0
  /\ now = 0

\* wg.Done, deferred: the last thing the goroutine does.
Done(d) ==
  /\ probe' = [probe EXCEPT ![d] = "done"]
  /\ counter' = counter - 1

PingOk(d) ==
  /\ probe[d] = "pinging"
  /\ outcome' = [outcome EXCEPT ![d] = "ok"]
  /\ Done(d)
  /\ UNCHANGED << status, holder, answer, now >>

\* Mutant: the ping is not given the context.
MutPingWithoutContext(d) ==
  /\ probe[d] = "pinging"
  /\ now < Timeout
  /\ outcome' = [outcome EXCEPT ![d] = "error"]
  /\ probe' = [probe EXCEPT ![d] = "failed"]
  /\ UNCHANGED << status, holder, counter, answer, now >>

\* Mutant: wg.Done is called when the ping returns, not deferred.
MutDoneEarly(d) ==
  /\ probe[d] = "pinging"
  /\ outcome' = [outcome EXCEPT ![d] = "error"]
  /\ probe' = [probe EXCEPT ![d] = "failed"]
  /\ counter' = counter - 1
  /\ UNCHANGED << status, holder, answer, now >>

\* The dependency is down, or has not answered when the context ends.
PingFails(d) ==
  /\ probe[d] = "pinging"
  /\ outcome' = [outcome EXCEPT ![d] = "error"]
  /\ probe' = [probe EXCEPT ![d] = "failed"]
  /\ UNCHANGED << status, holder, counter, answer, now >>

Lock(d) ==
  /\ probe[d] = "failed"
  /\ holder = NoProbe
  /\ holder' = d
  /\ probe' = [probe EXCEPT ![d] = "writing"]
  /\ UNCHANGED << outcome, status, counter, answer, now >>

WriteStatus(d) ==
  /\ probe[d] = "writing"
  /\ status' = [status EXCEPT ![d] = "error"]
  /\ holder' = NoProbe
  /\ Done(d)
  /\ UNCHANGED << outcome, answer, now >>

\* wg.Wait returns and the response is made of the three fields.
Respond ==
  /\ counter = 0
  /\ answer = 0
  /\ answer' = IF \E d \in Deps : status[d] # "ok" THEN 503 ELSE 200
  /\ UNCHANGED << probe, outcome, status, holder, counter, now >>

Tick ==
  /\ now < Timeout
  /\ now' = now + 1
  /\ UNCHANGED << probe, outcome, status, holder, counter, answer >>

Goroutine(d) == Lock(d) \/ WriteStatus(d)

HNext ==
  \/ \E d \in Deps : PingOk(d) \/ PingFails(d) \/ Goroutine(d)
  \/ Respond
  \/ Tick

\* Time passes, goroutines are scheduled, a ping ends with its context; no
\* dependency need ever answer.
HSpec ==
  /\ HInit /\ [][HNext]_health
  /\ WF_health(Tick)
  /\ WF_health(Respond)
  /\ \A d \in Deps :
       /\ WF_health(Goroutine(d))
       /\ WF_health(now = Timeout /\ PingFails(d))

-----------------------------------------------------------------------------

\* README 363: "Each dependency is checked independently. A Redis outage does
\* not mask a Temporal outage": whatever order the probes fail and write in,
\* the response names exactly the dependencies whose ping failed, and is 200
\* only when none did.
AnswerTellsProbes ==
  answer # 0 =>
    /\ \A d \in Deps : status[d] = outcome[d]
    /\ answer = 200 <=> \A d \in Deps : outcome[d] = "ok"

\* The check answers even if every dependency hangs.
HealthAnswered == <>(answer # 0)
=============================================================================
