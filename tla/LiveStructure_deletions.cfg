SPECIFICATION Spec
CONSTANTS
  Names = {"A"}
  Levels = {1}
  InitialSkeletons <- DeepDocs
  Changes = {"heading-deletion", "parent-deletion"}
  MaxEdits = 3
  MaxDirty = 1
INVARIANTS CleanIsDurable NestingFollowsLevels
