SPECIFICATION FairSpec
CONSTANTS
  a = a
  b = b
  Tabs = {a}
  MaxSockets = 3
  MaxSessions = 5
  MaxClicks = 3
  MaxEdits = 2
  MaxPauses = 1
  MaxFaults = 1
  Env = {"drop", "lockdown", "sleep", "expiry", "restore", "delete", "unfocus"}
INVARIANTS OneHistory AllReceivedTrue ReadyMeansQuiet NoStraySocket
PROPERTIES EditorsGetLive
CHECK_DEADLOCK FALSE
