-------------------------- MODULE HealthCheck_proofs --------------------------
(***************************************************************************)
(* Theorems about HealthCheck, for any dependencies and time limit.        *)
(***************************************************************************)
EXTENDS HealthCheck, FiniteSetTheorems, TLAPS

USE HealthAssumption

Undone == { d \in Deps : probe[d] # "done" }

HealthType ==
  /\ probe \in [Deps -> { "pinging", "failed", "writing", "done" }]
  /\ outcome \in [Deps -> { "none", "ok", "error" }]
  /\ status \in [Deps -> { "ok", "error" }]
  /\ counter \in Int

\* A probe that is not done has written nothing; one that is done has written
\* what its ping returned.
Written ==
  \A d \in Deps :
    /\ probe[d] # "done" => status[d] = "ok"
    /\ probe[d] = "done" => status[d] = outcome[d]
    /\ probe[d] \in { "failed", "writing" } => outcome[d] = "error"

\* The wait group counts the probes that are not done, and the handler answers
\* when there are none.
HealthInv ==
  /\ HealthType
  /\ Written
  /\ counter = Cardinality(Undone)
  /\ answer # 0 => Undone = {}
  /\ AnswerTellsProbes

LEMMA DepsFinite ==
  IsFiniteSet(Deps) /\ \A S \in SUBSET Deps : IsFiniteSet(S)
BY FS_Subset

LEMMA HealthInit == HInit => HealthInv
<1> SUFFICES ASSUME HInit PROVE HealthInv
  OBVIOUS
<1>1. Undone = Deps
  BY DEF HInit, Undone
<1>2. Cardinality(Deps) \in Nat
  BY DepsFinite, FS_CardinalityType
<1> QED BY <1>1, <1>2 DEF HInit, HealthInv, HealthType, Written, AnswerTellsProbes

\* A goroutine ends: the counter keeps counting the ones that have not.
LEMMA DoneCounts ==
  ASSUME HealthInv, NEW d \in Deps, probe[d] # "done",
         probe' = [probe EXCEPT ![d] = "done"], counter' = counter - 1
  PROVE  /\ counter' \in Int
         /\ counter' = Cardinality(Undone')
         /\ probe' \in [Deps -> { "pinging", "failed", "writing", "done" }]
<1>1. Undone' = Undone \ {d} /\ d \in Undone
  BY DEF HealthInv, HealthType, Undone
<1>2. IsFiniteSet(Undone)
  BY DepsFinite DEF Undone
<1>3. Cardinality(Undone \ {d}) = Cardinality(Undone) - 1
  BY <1>1, <1>2, FS_RemoveElement
<1>4. Cardinality(Undone) \in Int
  BY <1>2, FS_CardinalityType
<1> QED BY <1>1, <1>3, <1>4 DEF HealthInv, HealthType

LEMMA HealthStep == HealthInv /\ [HNext]_health => HealthInv'
<1> SUFFICES ASSUME HealthInv, [HNext]_health
             PROVE  HealthInv'
  OBVIOUS
<1> USE DEF HealthInv, HealthType
<1>1. ASSUME NEW d \in Deps, PingOk(d)
      PROVE  HealthInv'
  <2>1. probe[d] = "pinging" /\ d \in Undone /\ answer = 0 /\ answer' = answer
    BY <1>1 DEF PingOk, Undone
  <2>2. counter' = Cardinality(Undone')
        /\ counter' \in Int
        /\ probe' \in [Deps -> { "pinging", "failed", "writing", "done" }]
    BY <1>1, DoneCounts DEF PingOk, Done
  <2>3. Written' /\ outcome' \in [Deps -> { "none", "ok", "error" }]
    BY <1>1 DEF PingOk, Done, Written
  <2> QED BY <1>1, <2>1, <2>2, <2>3 DEF PingOk, AnswerTellsProbes
<1>2. ASSUME NEW d \in Deps, PingFails(d)
      PROVE  HealthInv'
  <2>1. probe[d] = "pinging" /\ d \in Undone /\ answer = 0 /\ answer' = answer
    BY <1>2 DEF PingFails, Undone
  <2>2. Undone' = Undone
    BY <1>2 DEF PingFails, Undone
  <2>3. HealthType' /\ Written'
    BY <1>2 DEF PingFails, Written
  <2> QED BY <1>2, <2>1, <2>2, <2>3 DEF PingFails, AnswerTellsProbes
<1>3. ASSUME NEW d \in Deps, Lock(d)
      PROVE  HealthInv'
  <2>1. probe[d] = "failed" /\ d \in Undone /\ answer = 0 /\ answer' = answer
    BY <1>3 DEF Lock, Undone
  <2>2. Undone' = Undone
    BY <1>3 DEF Lock, Undone
  <2>3. HealthType' /\ Written'
    BY <1>3 DEF Lock, Written
  <2> QED BY <1>3, <2>1, <2>2, <2>3 DEF Lock, AnswerTellsProbes
<1>4. ASSUME NEW d \in Deps, WriteStatus(d)
      PROVE  HealthInv'
  <2>1. probe[d] = "writing" /\ d \in Undone /\ answer = 0 /\ answer' = answer
    BY <1>4 DEF WriteStatus, Undone
  <2>2. counter' = Cardinality(Undone')
        /\ counter' \in Int
        /\ probe' \in [Deps -> { "pinging", "failed", "writing", "done" }]
    BY <1>4, DoneCounts DEF WriteStatus, Done
  <2>3. Written' /\ status' \in [Deps -> { "ok", "error" }]
    BY <1>4 DEF WriteStatus, Done, Written
  <2> QED BY <1>4, <2>1, <2>2, <2>3 DEF WriteStatus, AnswerTellsProbes
<1>5. CASE Respond
  <2>1. Undone = {}
    BY <1>5, DepsFinite, FS_EmptySet DEF Respond, Undone
  <2>2. \A d \in Deps : status[d] = outcome[d]
    BY <2>1 DEF Written, Undone
  <2>3. HealthType' /\ Written' /\ Undone' = {} /\ counter' = Cardinality(Undone')
    BY <1>5, <2>1 DEF Respond, Written, Undone
  <2>4. AnswerTellsProbes'
    BY <1>5, <2>2 DEF Respond, AnswerTellsProbes
  <2> QED BY <2>3, <2>4
<1>6. CASE Tick \/ UNCHANGED health
  BY <1>6 DEF Tick, health, Written, Undone, AnswerTellsProbes
<1> QED BY <1>1, <1>2, <1>3, <1>4, <1>5, <1>6 DEF HNext, Goroutine

\* health.go 38-92: however many dependencies there are, the response names
\* exactly the ones whose ping failed, in whatever order the probes end and
\* write.
THEOREM ResponseTellsProbes == HSpec => []AnswerTellsProbes
<1>1. HInit /\ [][HNext]_health => []HealthInv
  BY HealthInit, HealthStep, PTL
<1>2. HealthInv => AnswerTellsProbes
  BY DEF HealthInv
<1> QED BY <1>1, <1>2, PTL DEF HSpec
=============================================================================
