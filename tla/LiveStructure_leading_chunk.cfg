SPECIFICATION Spec
CONSTANTS
  Names = {"C"}
  Levels = {1}
  InitialSkeletons <- FlatDocs
  Changes = {"leading-chunk"}
  MaxEdits = 2
  MaxDirty = 1
INVARIANTS CleanIsDurable
