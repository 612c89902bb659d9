SPECIFICATION Spec
CONSTANTS
  Revisions = {1, 2, 3}
  Graphs = {g1, g2}
  Layouts = {v1, v2}
  Keeps = {0, 1, 2}
  MaxSequence = 4
  SaveBound = 4
  NONE = NONE
INVARIANTS
  TypeOK
  CounterCoversIndex
  ListedMatchLayout
  RecordedRevisionLoads
  RetentionBounds
PROPERTIES
  RetentionKeepsNewest
  ImplementsHistory
