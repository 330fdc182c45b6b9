SPECIFICATION FairSpec
CONSTANTS
  doc1 = doc1
  Docs = {doc1}
  NTabs = 2
  MaxSockets = 2
  MaxPorts = 1
  MaxClicks = 1
  MaxChanges = 0
  MaxFaults = 1
  Env = {"drop", "sleep", "close"}
PROPERTIES OneLeader
CHECK_DEADLOCK FALSE
