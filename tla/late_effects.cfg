SPECIFICATION Spec
CONSTANTS
  p1 = p1
  p2 = p2
  Payments = {p1}
  RCodes <- TwoCodes
  Prefix <- DistinctPrefix
  Seconds <- OneSecond
  MaxRepresentments = 1
  MaximumAttempts = 2
  FaultyAttempts = 2
  LateEffects = TRUE
  MaxSignals = 2
INVARIANTS
  AuditMatchesRow
  DebitLimit
  DebitsAudited
  RepeatedOnlyByRetry
  OneFinalStamp
CHECK_DEADLOCK FALSE
