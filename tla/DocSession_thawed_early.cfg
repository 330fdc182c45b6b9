SPECIFICATION Spec
CONSTANTS
    k1 = k1
    k2 = k2
    Sockets = {k1, k2}
    MaxSessions = 2
    MaxAttempts = 3
    MaxEdits = 1
    Structural = {}
    Env = {"drop", "delete", "force"}
SYMMETRY Symmetry
INVARIANTS EditorsFrozen
CHECK_DEADLOCK FALSE
