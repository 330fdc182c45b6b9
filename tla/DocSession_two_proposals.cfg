SPECIFICATION Spec
CONSTANTS
    k1 = k1
    k2 = k2
    Sockets = {k1, k2}
    MaxSessions = 2
    MaxAttempts = 3
    MaxEdits = 2
    Structural = {}
    Env = {"drop"}
SYMMETRY Symmetry
INVARIANTS OneProposal
CHECK_DEADLOCK FALSE
