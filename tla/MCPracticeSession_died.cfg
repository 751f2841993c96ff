SPECIFICATION MCSpec
CONSTANTS
  Sessions = {s1}
  Questions = {q1}
  Requests = {r1, r2, r3}
  MaxDay = 0
  MaxRunning = 1
  Faults = {"crash"}
SYMMETRY Symmetry
CHECK_DEADLOCK FALSE
INVARIANT PaidAtMostOnce
