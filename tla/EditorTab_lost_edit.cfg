SPECIFICATION Spec
CONSTANTS
  a = a
  b = b
  Tabs = {a}
  MaxSockets = 3
  MaxSessions = 2
  MaxClicks = 2
  MaxEdits = 2
  MaxPauses = 0
  MaxFaults = 1
  Env = {"drop"}
INVARIANT AllReceivedAlways
CHECK_DEADLOCK FALSE
