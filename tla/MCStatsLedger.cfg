SPECIFICATION MCSpec
CONSTANTS
  Requests = {r1, r2, r3}
  Kinds = {"practice", "exam", "sync"}
  MaxAnswers = 1
  MaxDay = 2
  MaxInFlight = 3
  Faults = {"read", "write", "crash", "midnight"}
VIEW Live
SYMMETRY RequestSymmetry
CHECK_DEADLOCK FALSE
INVARIANTS TypeOK RowConsistent NeverOverCredited StreakEarned NothingLostWhileCurrent StreakIsConsecutiveWhilePunctual
PROPERTY LastActivityAdvances
