SPECIFICATION Spec
CONSTANTS
  clean = clean
  forbidden = forbidden
  lean = lean
  empty = empty
  Trees <- MCTrees
  Empty = empty
  Breaking <- MCBreaking
  FieldLoss <- MCFieldLoss
  Tampered <- MCTampered
  NONE = NONE
  MaxCommits = 3
  MaxStray = 2
INVARIANTS
  SilenceMeansChecked
  BaselineIsCommit
PROPERTIES
  BlockedOnEvidence
  HookReturns
