SPECIFICATION FSpec
CONSTANTS
  p1 = p1
  p2 = p2
  Payments = {p1, p2}
  Traces <- ThreeTraces
  Codes <- TwoReturns
  Cents <- TwoSizes
  AmountLimit = 100
  MaxLines = 5
  Files <- ThreeFiles
  paymentIDByTrace <- TwoOfThem
  MaxRuns = 2
  RCodes <- FileCodes
  Prefix <- SamePrefix
  Seconds <- OneSecond
  MaxRepresentments = 1
  MaximumAttempts = 2
  FaultyAttempts = 2
  LateEffects = FALSE
  MaxSignals = 4
INVARIANTS
  ParsedAsSaid
  RoundTrip
  FileDelivered
  OutcomeJustified
  RowInStep
PROPERTIES
  TerminalAbsorbing
CHECK_DEADLOCK FALSE
