SPECIFICATION Spec
CONSTANTS
  p1 = p1
  p2 = p2
  Payments = {p1}
  RCodes <- TwoCodes
  Prefix <- DistinctPrefix
  Seconds <- OneSecond
  MaxRepresentments = 0
  MaximumAttempts = 2
  FaultyAttempts = 1
  LateEffects = TRUE
  MaxSignals = 1
PROPERTIES
  FinalNotReturned
CHECK_DEADLOCK FALSE
