SPECIFICATION FairSpec
CONSTANTS
  doc1 = doc1
  Docs = {doc1}
  NTabs = 2
  MaxSockets = 2
  MaxPorts = 1
  MaxClicks = 2
  MaxChanges = 1
  MaxFaults = 0
  Env = {}
PROPERTIES FallbackActivityShown
CHECK_DEADLOCK FALSE
