----------------------------- MODULE ServerProcess -----------------------------
(***************************************************************************)
(* The process cmd/server: it connects to PostgreSQL, Redis and Temporal,  *)
(* serves, and on a signal shuts down with a 30-second drain and closes    *)
(* its clients; requests run in goroutines of their own, each under the    *)
(* 30-second timeout of the router.  The unit of time is some seconds;     *)
(* main is at once where no other process has to answer.                   *)
(***************************************************************************)
EXTENDS Naturals, Sequences, FiniteSets

CONSTANTS
  Requests,         \* connections that may be made to the server
  Drain,            \* server main.go 110: 30 s
  RequestTimeout,   \* handlers.go 127: 30 s
  NewAge,           \* net/http: how long a new connection may stay silent
  Horizon           \* bound: the time at which the clock stops

\* The code's values: a request that runs is over within the drain, and a
\* connection without one is closed in it.
ASSUME TimesAssumption ==
  /\ Drain \in Nat \ {0}
  /\ RequestTimeout \in 0 .. Drain
  /\ NewAge \in 0 .. Drain
  /\ Horizon \in Nat

VARIABLES
  server,    \* what main of cmd/server is doing
  open,      \* the clients that are connected: opened and not closed
  now,
  signalAt,  \* when the signal came
  request,   \* what became of each connection
  since      \* when it was accepted, then when its request began

process == << server, open, now, signalAt, request, since >>

Clients == << "postgres", "redis", "temporal" >>

PInit ==
  /\ server = "starting"
  /\ open = {}
  /\ now = 0
  /\ signalAt = 0
  /\ request = [r \in Requests |-> "none"]
  /\ since = [r \in Requests |-> 0]

\* The next client answers its ping or dial; after the last, the server
\* listens.
Connect ==
  LET i == Cardinality(open) + 1
  IN  /\ server = "starting"
      /\ open' = open \cup {Clients[i]}
      /\ server' = IF i = Len(Clients) THEN "serving" ELSE "starting"
      /\ UNCHANGED << now, signalAt, request, since >>

Cutoff == [r \in Requests |->
             IF request[r] \in {"accepted", "running"} THEN "cut" ELSE request[r]]

\* log.Fatalf: a client that does not answer, or ListenAndServe failing.  The
\* deferred closes do not run.
Fatal ==
  /\ server \in {"starting", "serving"}
  /\ server' = "fatal"
  /\ request' = Cutoff
  /\ UNCHANGED << open, now, signalAt, since >>

Accept(r) ==
  /\ server = "serving"
  /\ request[r] = "none"
  /\ request' = [request EXCEPT ![r] = "accepted"]
  /\ since' = [since EXCEPT ![r] = now]
  /\ UNCHANGED << server, open, now, signalAt >>

\* The first request of a connection is read and gets its goroutine; while
\* the server drains too, if the connection is new.
Begin(r) ==
  /\ server \in {"serving", "draining"}
  /\ request[r] = "accepted"
  /\ request' = [request EXCEPT ![r] = "running"]
  /\ since' = [since EXCEPT ![r] = now]
  /\ UNCHANGED << server, open, now, signalAt >>

\* The handler has written its answer.
Finish(r) ==
  /\ request[r] = "running"
  /\ request' = [request EXCEPT ![r] = "done"]
  /\ UNCHANGED << server, open, now, signalAt, since >>

Signal ==
  /\ server = "serving"
  /\ server' = "draining"
  /\ signalAt' = now
  /\ UNCHANGED << open, now, request, since >>

\* Mutant: Close instead of Shutdown.
MutCloseAtOnce == server = "draining"

\* Shutdown returns: nothing is active, or its context has ended.
ShutdownReturns ==
  /\ server = "draining"
  /\ \/ \A r \in Requests : request[r] \notin {"accepted", "running"}
     \/ now >= signalAt + Drain

\* What Shutdown does with a connection that never sent a request.
Silent(r) == request[r] = "accepted" /\ now >= since[r] + NewAge

CloseSilent(r) ==
  /\ server = "draining"
  /\ Silent(r)
  /\ request' = [request EXCEPT ![r] = "closed"]
  /\ UNCHANGED << server, open, now, signalAt, since >>

Shutdown ==
  /\ ShutdownReturns
  /\ server' = "closing"
  /\ UNCHANGED << open, now, signalAt, request, since >>

\* The deferred Close calls, last opened first; then the process ends and
\* what still runs is cut.
CloseNext == Clients[Cardinality(open)]

CloseClient ==
  /\ server = "closing"
  /\ open # {}
  /\ open' = open \ {CloseNext}
  /\ UNCHANGED << server, now, signalAt, request, since >>

Exit ==
  /\ server = "closing"
  /\ open = {}
  /\ server' = "exited"
  /\ request' = Cutoff
  /\ UNCHANGED << open, now, signalAt, since >>

-----------------------------------------------------------------------------

\* A request is over within its timeout, since every call it makes is made
\* with its context; Shutdown acts when its time has come.
MustHappenFirst ==
  \/ \E r \in Requests :
       \/ request[r] = "running" /\ now >= since[r] + RequestTimeout
       \/ server = "draining" /\ Silent(r)
  \/ server = "draining" /\ now >= signalAt + Drain
  \/ server = "closing"

Tick ==
  /\ now < Horizon
  /\ ~ MustHappenFirst
  /\ now' = now + 1
  /\ UNCHANGED << server, open, signalAt, request, since >>

PNext ==
  \/ Connect
  \/ Fatal
  \/ \E r \in Requests : Accept(r) \/ Begin(r) \/ Finish(r) \/ CloseSilent(r)
  \/ Signal
  \/ Shutdown
  \/ CloseClient
  \/ Exit
  \/ Tick

PSpec == PInit /\ [][PNext]_process

-----------------------------------------------------------------------------

\* server main.go 16, 82-115: the drain is as long as the timeout of a
\* request, so one that began before the signal is never cut by the shutdown
\* and finds every client open until it is done.
DrainCoversRequests ==
  server \in {"draining", "closing", "exited"} =>
    \A r \in Requests :
      /\ request[r] = "cut" => since[r] >= signalAt
      /\ request[r] = "running" /\ since[r] < signalAt =>
           open = { Clients[i] : i \in DOMAIN Clients }
===============================================================================
