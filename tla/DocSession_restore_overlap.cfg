SPECIFICATION Spec
CONSTANTS
    k1 = k1
    k2 = k2
    Sockets = {k1, k2}
    MaxSessions = 2
    MaxAttempts = 3
    MaxEdits = 1
    Structural = {1}
    Env = {"restore"}
SYMMETRY Symmetry
INVARIANTS AckedEditsKept
CHECK_DEADLOCK FALSE
