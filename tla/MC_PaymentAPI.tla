----------------------------- MODULE MC_PaymentAPI -----------------------------
(***************************************************************************)
(* Instances of PaymentAPI for TLC: one payment and a few requests.        *)
(***************************************************************************)
EXTENDS PaymentAPI, TLC

CONSTANTS p1, r1, r2, r3

RetryOrStop == { "R01", "R16" }

OwnPrefix == [p \in Payments |-> p]

OneSecond == { 1 }

\* With a field of two digits: an amount that fits and one that does not.
TwoSizes == { 42, 142 }

\* Requests that were not made yet are interchangeable.
AnyRequest == Permutations(Requests)
=============================================================================
