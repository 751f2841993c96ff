SPECIFICATION Spec
CONSTANTS
  Events = {e1}
  Uploads = {u1, u2}
  MaxDay = 0
  MaxRunning = 1
  Faults = {"write"}
CHECK_DEADLOCK FALSE
INVARIANT AcceptedIsCredited
