SPECIFICATION TSpec
CONSTANTS
  p1 = p1
  Payments = {p1}
  RCodes <- DelayCodes
  Prefix <- OwnPrefix
  Seconds <- Days
  MaxRepresentments = 2
  MaximumAttempts = 3
  FaultyAttempts = 1
  LateEffects = FALSE
  MaxSignals = 3
  MaxOutage = 3
INVARIANTS
  LifeBounded
  TraceKeyHeld
  ClosedMeansResolved
PROPERTIES
  RepresentedAfterDelay
CHECK_DEADLOCK FALSE
