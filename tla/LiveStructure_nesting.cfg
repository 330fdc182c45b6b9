SPECIFICATION Spec
CONSTANTS
  Names = {"A", "B", "C"}
  Levels = {1, 2, 3}
  InitialSkeletons <- NestedDocs
  Changes = {"root-split", "section-split", "preceding-split", "heading-rename", "heading-level-change", "heading-deletion"}
  MaxEdits = 2
  MaxDirty = 1
INVARIANTS TypeOK SettleSucceeds RegisteredIsLayout UniqueAddresses
PROPERTIES SettleKeepsText ReopenKeepsText
