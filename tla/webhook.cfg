SPECIFICATION WSpec
CONSTANTS
  Delays <- CodeDelays
  Deadline = 30
  Enabled = TRUE
INVARIANTS
  PostsSpaced
PROPERTIES
  NothingAfterAck
  WebhookEnds
CHECK_DEADLOCK FALSE
