---------------------------- MODULE PaymentLifecycle ----------------------------
(***************************************************************************)
(* What the system promises of a payment, without the workflow, the        *)
(* activities or the stores: the payment moves along the allowed edges, is *)
(* represented at most MaxRepresentments times, and is given up as         *)
(* exhausted only after that many.  PaymentWorkflow implements it.         *)
(***************************************************************************)
EXTENDS PaymentDomain, Naturals

CONSTANTS Payments, MaxRepresentments

VARIABLES
  state,           \* the state of each payment, "none" before it is created
  representments   \* how often it went back to PENDING after a return

lifecycle == << state, representments >>

LifecycleInit ==
  /\ state = [p \in Payments |-> "none"]
  /\ representments = [p \in Payments |-> 0]

Create(p) ==
  /\ state[p] = "none"
  /\ state' = [state EXCEPT ![p] = "INITIATED"]
  /\ UNCHANGED representments

\* An allowed edge that is not a representment.
Move(p, to) ==
  /\ IsTransitionAllowed(state[p], to)
  /\ << state[p], to >> # << "RETURNED", "PENDING" >>
  /\ to = "FAILED_RETRYABLE_EXHAUSTED" => representments[p] = MaxRepresentments
  /\ state' = [state EXCEPT ![p] = to]
  /\ UNCHANGED representments

Represent(p) ==
  /\ state[p] = "RETURNED"
  /\ representments[p] < MaxRepresentments
  /\ state' = [state EXCEPT ![p] = "PENDING"]
  /\ representments' = [representments EXCEPT ![p] = @ + 1]

LifecycleNext ==
  \E p \in Payments :
    \/ Create(p)
    \/ \E to \in PaymentState : Move(p, to)
    \/ Represent(p)

LifecycleSpec == LifecycleInit /\ [][LifecycleNext]_lifecycle
=============================================================================
