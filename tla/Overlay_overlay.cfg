SPECIFICATION Spec
CONSTANTS
    p1 = p1
    p2 = p2
    Proposals = {p1, p2}
    Blank = Blank
    Common = Common
    MaxOps = 2
    Env = {"write", "create", "nest", "nest_leaf", "delete", "delete_parent", "rename", "move", "reorder", "queued"}
SYMMETRY Symmetry
INVARIANTS FilesThere OneBodyHolder
PROPERTIES OtherSectionsStand PublishesPreview
CHECK_DEADLOCK FALSE
