SPECIFICATION Spec
CONSTANTS
  Names = {"C"}
  Levels = {1, 2}
  InitialSkeletons <- NestedDocs
  Changes = {"heading-rename"}
  MaxEdits = 2
  MaxDirty = 2
INVARIANTS SettleSucceeds
