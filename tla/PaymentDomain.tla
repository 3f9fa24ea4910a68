----------------------------- MODULE PaymentDomain -----------------------------
(***************************************************************************)
(* The vocabulary of package internal/domain: the payment states, the      *)
(* finite state machine of rules.go and the return-code routing table of   *)
(* rcode.go.  Everything here is constant-level; PaymentWorkflow uses it.  *)
(***************************************************************************)

(* payment.go: the eight PaymentState constants. *)
PaymentState ==
  { "INITIATED", "PENDING", "SUBMITTED", "RETURNED", "SETTLED",
    "FAILED_NON_RETRYABLE", "FAILED_RETRYABLE_EXHAUSTED",
    "COMPLIANCE_ESCALATION" }

(* The targets for which UpdatePaymentState sets failed_at. *)
FailureState ==
  { "FAILED_NON_RETRYABLE", "FAILED_RETRYABLE_EXHAUSTED",
    "COMPLIANCE_ESCALATION" }

(* rules.go: the map of sets AllowedTransitions, as the set of its edges. *)
AllowedTransitions ==
  { <<"INITIATED", "PENDING">>,
    <<"PENDING",   "SUBMITTED">>,
    <<"PENDING",   "FAILED_NON_RETRYABLE">>,
    <<"SUBMITTED", "SETTLED">>,
    <<"SUBMITTED", "RETURNED">>,
    <<"SUBMITTED", "FAILED_NON_RETRYABLE">>,
    <<"SUBMITTED", "COMPLIANCE_ESCALATION">>,
    <<"RETURNED",  "PENDING">>,
    <<"RETURNED",  "FAILED_NON_RETRYABLE">>,
    <<"RETURNED",  "FAILED_RETRYABLE_EXHAUSTED">>,
    <<"RETURNED",  "COMPLIANCE_ESCALATION">> }

(* Mutant of IsTransitionAllowed: PENDING may be settled without having    *)
(* been submitted (one edge too many in the map).                          *)
MutSettleFromPending(from, to) ==
  \/ <<from, to>> \in AllowedTransitions
  \/ from = "PENDING" /\ to = "SETTLED"

IsTransitionAllowed(from, to) == <<from, to>> \in AllowedTransitions

IsTerminalState(state) ==
  /\ state \in PaymentState
  /\ \A to \in PaymentState : ~ IsTransitionAllowed(state, to)

(***************************************************************************)
(* rcode.go: rCodeTable by category.  A code that is in none of the sets   *)
(* is unknown.                                                             *)
(***************************************************************************)
RetryableCodes == { "R01", "R08", "R09" }

ComplianceCodes == { "R05", "R14", "R15", "R16" }

NonRetryableCodes ==
  { "R02", "R03", "R04", "R06", "R07", "R10", "R11", "R12", "R13", "R17",
    "R18", "R19", "R20", "R21", "R22", "R23", "R24", "R25", "R26", "R27",
    "R28", "R29", "R30", "R31", "R32", "R33" }

(* Mutant of RouteRCode: an unknown code is retried instead of halted. *)
MutRetryUnknownCode(code) ==
  CASE code \in NonRetryableCodes -> "NonRetryable"
    [] code \in ComplianceCodes   -> "ComplianceEscalation"
    [] OTHER                      -> "Retryable"

(* An unknown code defaults to NonRetryable. *)
RouteRCode(code) ==
  CASE code \in RetryableCodes  -> "Retryable"
    [] code \in ComplianceCodes -> "ComplianceEscalation"
    [] OTHER                    -> "NonRetryable"
=============================================================================
