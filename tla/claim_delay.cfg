SPECIFICATION TSpec
CONSTANTS
  p1 = p1
  Payments = {p1}
  RCodes <- DelayCodes
  Prefix <- OwnPrefix
  Seconds <- Days
  MaxRepresentments = 1
  MaximumAttempts = 1
  FaultyAttempts = 0
  LateEffects = FALSE
  MaxSignals = 1
  MaxOutage = 0
PROPERTIES
  RepresentedAfter48Hours
CHECK_DEADLOCK FALSE
