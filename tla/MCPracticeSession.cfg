SPECIFICATION MCSpec
CONSTANTS
  Sessions = {s1}
  Questions = {q1, q2}
  Requests = {r1, r2, r3}
  MaxDay = 0
  MaxRunning = 2
  Faults = {"complete", "crash"}
SYMMETRY Symmetry
CHECK_DEADLOCK FALSE
INVARIANTS TypeOK CountsAreOfAnswers MistakesStayQueued OrderlyCompletions
