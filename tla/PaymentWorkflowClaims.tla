------------------------- MODULE PaymentWorkflowClaims -------------------------
(***************************************************************************)
(* The abstract specification PaymentWorkflow is shown to implement, and   *)
(* statements of the repository's documents that the code does not keep.   *)
(***************************************************************************)
EXTENDS PaymentWorkflow

Lifecycle ==
  INSTANCE PaymentLifecycle
    WITH state <- [p \in Payments |-> row[p].state],
         representments <- [p \in Payments |-> Representments(p)]

\* The rows of the payments, with the representments their audit logs count,
\* behave as PaymentLifecycle says.
ImplementsLifecycle == Lifecycle!LifecycleSpec

\* README 161: trace numbers are deduplicated across concurrent requests.
TraceSubmittedByOnePayment ==
  \A p, q \in Payments : p # q => Debits(p) \cap Debits(q) = {}

\* README 144, activities.go 65-67: an activity that fires more than once does
\* not submit the entry of its trace number more than once.
EntrySentOnce ==
  \A p \in Payments :
    \A i, j \in DOMAIN wire[p] : wire[p][i] = wire[p][j] => i = j

\* README 147, activities.go 97: the state machine gates every database write,
\* so a payment in a terminal state is never put back to RETURNED.
FinalNotReturned ==
  [][\A p \in Payments :
       IsTerminalState(row[p].state) => row'[p].state # "RETURNED"]_vars
=============================================================================
