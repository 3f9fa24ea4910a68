SPECIFICATION PSpec
CONSTANTS
  r1 = r1
  r2 = r2
  r3 = r3
  Requests = {r1, r2, r3}
  Drain = 6
  RequestTimeout = 6
  NewAge = 1
  Horizon = 10
INVARIANTS
  DrainCoversRequests
SYMMETRY AnyRequest
CHECK_DEADLOCK FALSE
