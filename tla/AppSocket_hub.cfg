SPECIFICATION FairSpec
CONSTANTS
  doc1 = doc1
  Docs = {doc1}
  NTabs = 2
  MaxSockets = 1
  MaxPorts = 1
  MaxClicks = 3
  MaxChanges = 1
  MaxFaults = 1
  Env = {"worker", "drop", "sleep"}
INVARIANTS HubKnowsTabs
PROPERTIES ActivityShown
CHECK_DEADLOCK FALSE
