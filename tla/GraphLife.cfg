SPECIFICATION LifeSpec
CONSTANTS
  Files = {1, 2}
  Labels = {1, 2, 3}
  ModuleLabel = 1
  Naming <- SymbolNames
  react = react
  External = {react}
  Placeholders = {unresolved}
  Kinds = {"Imports"}
  Aliases = {NONE, alias}
  MaxDeclarations = 2
  MaxRelationships = 2
  FollowedDeclarations = 1
  FollowedLabels = {2}
  MaxEdits = 2
  NONE = NONE
CHECK_DEADLOCK FALSE
INVARIANTS
  Coherent
  BuiltGraphIsDeclared
  LookupIsExact
  Addressable
  DeclaredIsPresent
PROPERTIES
  NeighboursKept
