SPECIFICATION Spec
CONSTANTS
  t1 = t1
  t2 = t2
  boot = boot
  s1 = s1
  s2 = s2
  Tasks = {t1, t2}
  Boot = boot
  Sections = {s1, s2}
  MaxProposals = 2
  MaxWrites = 2
  MaxCrashes = 1
  MaxFails = 1
  Env = {"git_fails"}
SYMMETRY Symmetry
INVARIANTS TypeOK AckedWritesKept OneHolder OnePlace TreeIsHead
PROPERTIES HeadChangesUnderLock ImplementsLifecycle
CHECK_DEADLOCK FALSE
