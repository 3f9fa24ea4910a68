--------------------------- MODULE MC_PaymentTiming ---------------------------
(***************************************************************************)
(* An instance of PaymentTiming for TLC: one payment.                      *)
(***************************************************************************)
EXTENDS PaymentTiming

CONSTANT p1

\* A code of each delay.
DelayCodes == { "R01", "R09" }

OwnPrefix == [p \in Payments |-> p]

\* workflow.Now as the day: the longest life and the outages fit in it.
Days == 0 .. 16
=============================================================================
