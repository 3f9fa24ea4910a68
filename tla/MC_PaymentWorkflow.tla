-------------------------- MODULE MC_PaymentWorkflow --------------------------
(***************************************************************************)
(* Instances of PaymentWorkflow for TLC.                                   *)
(***************************************************************************)
EXTENDS PaymentWorkflowClaims

CONSTANTS p1, p2

\* One code of each category and one that is in no table.
OneCodeEach == { "R01", "R16", "R02", "R99" }

\* Two codes: one that is retried and one that ends the workflow.
TwoCodes == { "R01", "R16" }

DistinctPrefix == [p \in Payments |-> p]

\* Two payments whose UUIDs begin with the same eight characters.
SamePrefix == [p \in Payments |-> "prefix"]

OneSecond == { 1 }

=============================================================================
