SPECIFICATION Spec
CONSTANTS
  Names = {"B", "C"}
  Levels = {1, 2}
  InitialSkeletons <- NestedDocs
  Changes = {"preceding-split", "section-split", "parent-deletion"}
  MaxEdits = 2
  MaxDirty = 1
INVARIANTS UniqueAddresses
