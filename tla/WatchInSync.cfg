SPECIFICATION Spec
CONSTANTS
  Roots = {root}
  Root = root
  Watcher = watcher
  Calls = {}
  Nobody = nobody
  MaxEdits = 3
  MaxNoise = 1
PROPERTY KeepsInSync
