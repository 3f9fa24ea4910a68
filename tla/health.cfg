SPECIFICATION HSpec
CONSTANTS
  Deps = {"postgres", "redis", "temporal"}
  Timeout = 3
INVARIANTS
  AnswerTellsProbes
PROPERTIES
  HealthAnswered
CHECK_DEADLOCK FALSE
