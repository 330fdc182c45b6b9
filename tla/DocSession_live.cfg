SPECIFICATION FairSpec
CONSTANTS
    k1 = k1
    k2 = k2
    Sockets = {k1, k2}
    MaxSessions = 2
    MaxAttempts = 3
    MaxEdits = 1
    Structural = {}
    Env = {"drop", "force", "timeout"}
PROPERTIES AttemptsEnd FrozenEditorsThaw
CHECK_DEADLOCK FALSE
