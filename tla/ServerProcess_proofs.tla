------------------------- MODULE ServerProcess_proofs -------------------------
(***************************************************************************)
(* The drain of cmd/server, for every set of connections and all times     *)
(* with RequestTimeout and NewAge at most Drain.                           *)
(***************************************************************************)
EXTENDS ServerProcess, FiniteSetTheorems, TLAPS

USE TimesAssumption

AllClients == { "postgres", "redis", "temporal" }

ServerType ==
  /\ server \in { "starting", "serving", "draining", "closing", "exited", "fatal" }
  /\ now \in Nat
  /\ signalAt \in Nat
  /\ request \in [Requests -> { "none", "accepted", "running", "done",
                                "closed", "cut" }]
  /\ since \in [Requests -> Nat]

\* The clients are opened in order, and are all open while the server serves
\* and drains.
ClientsOpen ==
  /\ server = "starting" =>
       open \in { {}, {"postgres"}, {"postgres", "redis"} }
  /\ server \in { "serving", "draining" } => open = AllClients

\* No request outlives its timeout, and once a tick of the drain has passed no
\* connection is silent for longer than NewAge.
InTime ==
  \A r \in Requests :
    /\ request[r] = "running" => now <= since[r] + RequestTimeout
    /\ request[r] = "accepted" /\ server = "draining" /\ now > signalAt =>
         now <= since[r] + NewAge

\* Nothing is cut while the server drains; what is left then, and what is cut
\* at the exit, began at the signal or later.
OnlyLateLeft ==
  /\ server \in { "starting", "serving", "draining", "closing" } =>
       \A r \in Requests : request[r] # "cut"
  /\ server \in { "closing", "exited" } =>
       \A r \in Requests :
         request[r] \in { "accepted", "running", "cut" } => since[r] >= signalAt

ServerInv == ServerType /\ ClientsOpen /\ InTime /\ OnlyLateLeft

LEMMA ClientsFacts ==
  /\ Len(Clients) = 3 /\ Clients[1] = "postgres" /\ Clients[2] = "redis"
  /\ Clients[3] = "temporal"
  /\ { Clients[i] : i \in DOMAIN Clients } = AllClients
BY DEF Clients, AllClients

LEMMA OpenCounts ==
  /\ Cardinality({}) = 0
  /\ Cardinality({"postgres"}) = 1
  /\ Cardinality({"postgres", "redis"}) = 2
<1>1. IsFiniteSet({}) /\ Cardinality({}) = 0
  BY FS_EmptySet
<1>2. IsFiniteSet({"postgres"}) /\ Cardinality({"postgres"}) = 1
  BY FS_Singleton
<1>3. Cardinality({"postgres"} \cup {"redis"}) = 2
  BY <1>2, FS_AddElement
<1>4. {"postgres"} \cup {"redis"} = {"postgres", "redis"}
  OBVIOUS
<1> QED BY <1>1, <1>2, <1>3, <1>4

\* The invariant says what the property says.
LEMMA InvGives == ServerInv => DrainCoversRequests
BY ClientsFacts DEF ServerInv, ServerType, ClientsOpen, OnlyLateLeft,
                    DrainCoversRequests

LEMMA ServerInit == PInit => ServerInv
BY DEF PInit, ServerInv, ServerType, ClientsOpen, InTime, OnlyLateLeft

LEMMA ServerStep == ServerInv /\ [PNext]_process => ServerInv'
<1> SUFFICES ASSUME ServerInv, [PNext]_process
             PROVE  ServerInv'
  OBVIOUS
<1> USE DEF ServerInv, ServerType
<1>1. CASE Connect
  <2>1. ClientsOpen'
    <3>1. CASE open = {}
      BY <1>1, <3>1, ClientsFacts, OpenCounts DEF Connect, ClientsOpen
    <3>2. CASE open = {"postgres"}
      BY <1>1, <3>2, ClientsFacts, OpenCounts DEF Connect, ClientsOpen
    <3>3. CASE open = {"postgres", "redis"}
      BY <1>1, <3>3, ClientsFacts, OpenCounts
         DEF Connect, ClientsOpen, AllClients
    <3> QED BY <1>1, <3>1, <3>2, <3>3 DEF Connect, ClientsOpen
  <2>2. server = "starting" /\ server' \in { "starting", "serving" }
    BY <1>1 DEF Connect
  <2> QED BY <1>1, <2>1, <2>2 DEF Connect, InTime, OnlyLateLeft
<1>2. CASE Fatal
  BY <1>2 DEF Fatal, Cutoff, ClientsOpen, InTime, OnlyLateLeft
<1>3. ASSUME NEW r \in Requests, Accept(r)
      PROVE  ServerInv'
  BY <1>3 DEF Accept, ClientsOpen, InTime, OnlyLateLeft
<1>4. ASSUME NEW r \in Requests, Begin(r)
      PROVE  ServerInv'
  BY <1>4 DEF Begin, ClientsOpen, InTime, OnlyLateLeft
<1>5. ASSUME NEW r \in Requests, Finish(r)
      PROVE  ServerInv'
  BY <1>5 DEF Finish, ClientsOpen, InTime, OnlyLateLeft
<1>6. ASSUME NEW r \in Requests, CloseSilent(r)
      PROVE  ServerInv'
  BY <1>6 DEF CloseSilent, ClientsOpen, InTime, OnlyLateLeft
<1>7. CASE Signal
  BY <1>7 DEF Signal, ClientsOpen, InTime, OnlyLateLeft
<1>8. CASE Shutdown
  <2>1. ASSUME NEW r \in Requests, request[r] \in { "accepted", "running" }
        PROVE  since[r] >= signalAt
    <3>1. now >= signalAt + Drain
      BY <1>8, <2>1 DEF Shutdown, ShutdownReturns
    <3>2. now <= since[r] + Drain
      BY <1>8, <2>1, <3>1 DEF InTime, Shutdown, ShutdownReturns
    <3> QED BY <3>1, <3>2
  <2> QED BY <1>8, <2>1 DEF Shutdown, ShutdownReturns, ClientsOpen, InTime,
                            OnlyLateLeft
<1>9. CASE CloseClient
  BY <1>9 DEF CloseClient, ClientsOpen, InTime, OnlyLateLeft
<1>10. CASE Exit
  BY <1>10 DEF Exit, Cutoff, ClientsOpen, InTime, OnlyLateLeft
<1>11. CASE Tick
  <2>1. InTime'
    BY <1>11 DEF Tick, MustHappenFirst, Silent, InTime
  <2> QED BY <1>11, <2>1 DEF Tick, ClientsOpen, OnlyLateLeft
<1>12. CASE UNCHANGED process
  BY <1>12 DEF process, ClientsOpen, InTime, OnlyLateLeft
<1> QED BY <1>1, <1>2, <1>3, <1>4, <1>5, <1>6, <1>7, <1>8, <1>9, <1>10, <1>11,
           <1>12 DEF PNext

\* server main.go 16, 82-115: a request that began before the signal is not
\* cut by the shutdown and finds every client open until it is done, for any
\* number of connections.
THEOREM DrainCovers == PSpec => []DrainCoversRequests
<1>1. PInit /\ [][PNext]_process => []ServerInv
  BY ServerInit, ServerStep, PTL
<1> QED BY <1>1, InvGives, PTL DEF PSpec
=============================================================================
