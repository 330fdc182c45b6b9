SPECIFICATION Spec
CONSTANTS
  a = a
  b = b
  Tabs = {a, b}
  MaxSockets = 4
  MaxSessions = 2
  MaxClicks = 2
  MaxEdits = 2
  MaxPauses = 0
  MaxFaults = 1
  Env = {"restore", "unasked"}
SYMMETRY Symmetry
INVARIANTS TypeOK OneHistory
CHECK_DEADLOCK FALSE
