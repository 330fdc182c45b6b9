SPECIFICATION Spec
CONSTANTS
    k1 = k1
    k2 = k2
    Sockets = {k1, k2}
    MaxSessions = 2
    MaxAttempts = 2
    MaxEdits = 2
    Structural = {2}
    Env = {"drop", "force", "restore", "delete"}
SYMMETRY Symmetry
INVARIANTS AckedBodyEditsKept EditsStayInSession OnePublisher OneLiveSession
CHECK_DEADLOCK FALSE
