SPECIFICATION Spec
CONSTANTS
    p1 = p1
    p2 = p2
    Proposals = {p1, p2}
    Blank = Blank
    Common = Common
    MaxOps = 2
    Env = {"write", "nest_leaf"}
SYMMETRY Symmetry
PROPERTY OnlyTouchedChange
CHECK_DEADLOCK FALSE
