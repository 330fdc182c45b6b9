SPECIFICATION Spec
CONSTANTS
  Names = {"C"}
  Levels = {1}
  InitialSkeletons <- FlatDocs
  Changes = {"section-split", "preceding-split"}
  MaxEdits = 2
  MaxDirty = 2
INVARIANTS CleanIsDurable
\* A settle that throws is fatal to the process.
CHECK_DEADLOCK FALSE
