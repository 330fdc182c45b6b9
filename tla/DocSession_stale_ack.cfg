SPECIFICATION Spec
CONSTANTS
    k1 = k1
    k2 = k2
    Sockets = {k1, k2}
    MaxSessions = 1
    MaxAttempts = 5
    MaxEdits = 2
    Structural = {}
    Env = {"force", "timeout"}
SYMMETRY Symmetry
PROPERTIES NothingInFlightAtCommit
CHECK_DEADLOCK FALSE
