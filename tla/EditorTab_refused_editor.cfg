SPECIFICATION Spec
CONSTANTS
  a = a
  b = b
  Tabs = {a, b}
  MaxSockets = 3
  MaxSessions = 2
  MaxClicks = 2
  MaxEdits = 1
  MaxPauses = 0
  MaxFaults = 1
  Env = {"unasked"}
INVARIANT EditsComeFromEditors
CHECK_DEADLOCK FALSE
