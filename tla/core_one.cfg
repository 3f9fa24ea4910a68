SPECIFICATION FairSpec
CONSTANTS
  p1 = p1
  p2 = p2
  Payments = {p1}
  RCodes <- OneCodeEach
  Prefix <- DistinctPrefix
  Seconds <- OneSecond
  MaxRepresentments = 2
  MaximumAttempts = 3
  FaultyAttempts = 3
  LateEffects = FALSE
  MaxSignals = 4
INVARIANTS
  TypeOK
  RowInStep
  AuditIsHistory
  StampsMatchState
  DebitLimit
  DebitsAudited
  RepresentmentsAudited
  OutcomeJustified
  ReturnsAudited
  WebhookMatchesRow
PROPERTIES
  WorkflowCloses
  NoDebitAfterFinalReturn
  ImplementsLifecycle
CHECK_DEADLOCK FALSE
