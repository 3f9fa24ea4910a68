SPECIFICATION ASpec
CONSTANTS
  p1 = p1
  r1 = r1
  r2 = r2
  r3 = r3
  Payments = {p1}
  Requests = {r1, r2, r3}
  ReturnCents <- TwoSizes
  FieldLimit = 100
  RCodes <- RetryOrStop
  Prefix <- OwnPrefix
  Seconds <- OneSecond
  MaxRepresentments = 0
  MaximumAttempts = 2
  FaultyAttempts = 2
  LateEffects = TRUE
  MaxSignals = 2
INVARIANTS
  CreatedMeansStarted
  AnsweredReturnsAccepted
  ReadsAgree
SYMMETRY AnyRequest
CHECK_DEADLOCK FALSE
