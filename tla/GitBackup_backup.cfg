SPECIFICATION FairSpec
CONSTANTS
  old = old
  new = new
  Servers = {old, new}
  First = old
  MaxOps = 3
  MaxCommits = 2
  MaxWrites = 2
  MaxFaults = 1
  Env = {"git_fails", "answer_lost", "crash", "disk_lost", "late_write"}
INVARIANTS BackupIsOneMoment SnapshotFastForwards RecordedBackupIsThere ReadyTreeIsHead
PROPERTIES LockdownLifts
CHECK_DEADLOCK FALSE
