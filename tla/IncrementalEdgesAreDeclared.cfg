SPECIFICATION FollowSpec
CONSTANTS
  Files = {1, 2}
  Labels = {1, 2}
  ModuleLabel = 1
  Naming <- LabelNames
  External = {}
  Placeholders = {}
  Kinds = {"UsesType"}
  Aliases = {NONE}
  MaxDeclarations = 2
  MaxRelationships = 2
  FollowedDeclarations = 1
  FollowedLabels = {2}
  MaxEdits = 1
  NONE = NONE
CHECK_DEADLOCK FALSE
INVARIANT EdgesAreDeclared
