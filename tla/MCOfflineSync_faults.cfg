SPECIFICATION Spec
CONSTANTS
  Events = {e1, e2}
  Uploads = {u1, u2}
  MaxDay = 1
  MaxRunning = 2
  Faults = {"save", "call", "mistake", "read", "write", "reply", "crash", "midnight"}
SYMMETRY Symmetry
CHECK_DEADLOCK FALSE
INVARIANTS TypeOK CreditedAtMostOnce NothingForgotten
PROPERTY KeepsTheLedger
