SPECIFICATION Spec
CONSTANTS
    k1 = k1
    k2 = k2
    Sockets = {k1, k2}
    MaxSessions = 2
    MaxAttempts = 3
    MaxEdits = 2
    Structural = {2}
    Env = {"drop", "force", "timeout", "publish_fails", "quiesce", "settle_fails"}
SYMMETRY Symmetry
INVARIANTS TypeOK AckedEditsKept EditorsFrozen
PROPERTIES CommitCoversFrontier
CHECK_DEADLOCK FALSE
