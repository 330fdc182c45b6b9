SPECIFICATION Spec
CONSTANTS
  Names = {"A", "C"}
  Levels = {1, 2}
  InitialSkeletons <- AllDocs
  Changes = {"root-split", "section-split", "preceding-split", "heading-rename", "heading-level-change", "heading-deletion"}
  MaxEdits = 3
  MaxDirty = 1
INVARIANTS SettleSucceeds CleanIsDurable
PROPERTIES SettleKeepsText PublishKeepsText
