SPECIFICATION MCSpec
CONSTANTS
  Events = {e1, e2}
  Uploads = {u1, u2}
  MaxDay = 0
  MaxRunning = 2
  Faults = {"save", "reply"}
CHECK_DEADLOCK FALSE
INVARIANTS OrderlyStatsMatchTheLog
PROPERTY StoredIsCredited
