SPECIFICATION Spec
CONSTANTS
    k1 = k1
    k2 = k2
    Sockets = {k1, k2}
    MaxSessions = 2
    MaxAttempts = 3
    MaxEdits = 2
    Structural = {1, 2}
    Env = {"force", "settle_fails"}
SYMMETRY Symmetry
INVARIANTS AckedEditsKept
CHECK_DEADLOCK FALSE
