SPECIFICATION Spec
CONSTANTS
  p1 = p1
  p2 = p2
  Payments = {p1, p2}
  RCodes <- TwoCodes
  Prefix <- SamePrefix
  Seconds <- OneSecond
  MaxRepresentments = 0
  MaximumAttempts = 1
  FaultyAttempts = 0
  LateEffects = FALSE
  MaxSignals = 0
INVARIANTS
  TraceSubmittedByOnePayment
CHECK_DEADLOCK FALSE
