SPECIFICATION Spec
CONSTANTS
    p1 = p1
    p2 = p2
    Proposals = {p1, p2}
    Blank = Blank
    Common = Common
    MaxOps = 1
    Env = {"create", "clash"}
SYMMETRY Symmetry
INVARIANT DistinctSiblings
CHECK_DEADLOCK FALSE
