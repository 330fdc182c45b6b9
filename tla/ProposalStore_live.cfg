SPECIFICATION FairSpec
CONSTANTS
  t1 = t1
  t2 = t2
  boot = boot
  s1 = s1
  s2 = s2
  Tasks = {t1, t2}
  Boot = boot
  Sections = {s1}
  MaxProposals = 2
  MaxWrites = 1
  MaxCrashes = 1
  MaxFails = 1
  Env = {"git_fails", "late_fails", "rollback_fails"}
PROPERTIES CommittingEnds ServerComesBack
CHECK_DEADLOCK FALSE
