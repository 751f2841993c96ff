SPECIFICATION MCSpec
CONSTANTS
  Calls = {r1, r2}
  GroupLimit = 3
  TutorLimit = 2
  Window = 2
  MaxCount = 5
  LimitFaults = {"redis", "ttl"}
CHECK_DEADLOCK FALSE
PROPERTY DeniedOnlyAboveTheLimit
