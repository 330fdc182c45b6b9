SPECIFICATION Spec
CONSTANTS
  Names = {"D"}
  Levels = {1, 2}
  InitialSkeletons <- NestedDocs
  Changes = {"parent-split"}
  MaxEdits = 2
  MaxDirty = 1
PROPERTIES SettleKeepsText
