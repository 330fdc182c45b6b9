SPECIFICATION FairSpec
CONSTANTS
  a = a
  b = b
  Tabs = {a}
  MaxSockets = 3
  MaxSessions = 2
  MaxClicks = 2
  MaxEdits = 1
  MaxPauses = 1
  MaxFaults = 1
  Env = {"drop"}
PROPERTIES FreezesEnd
CHECK_DEADLOCK FALSE
