SPECIFICATION SessionSpec
CONSTANTS
  Roots = {root}
  Root = root
  Watcher = watcher
  Calls = {a}
  Nobody = nobody
  MaxEdits = 4
  MaxNoise = 1
INVARIANT
  NoEditForgotten
PROPERTIES
  CatchesUp
  StoreAdvances
  CallsReturn
