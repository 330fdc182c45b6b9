SPECIFICATION Spec
CONSTANTS
  a = a
  b = b
  Tabs = {a}
  MaxSockets = 3
  MaxSessions = 2
  MaxClicks = 2
  MaxEdits = 1
  MaxPauses = 0
  MaxFaults = 1
  Env = {"early","drop"}
INVARIANT OneHistory
CHECK_DEADLOCK FALSE
