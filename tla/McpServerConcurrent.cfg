SPECIFICATION ServerSpec
CONSTANTS
  Roots = {root}
  Root = root
  Calls = {a, b}
  Nobody = nobody
  MaxEdits = 2
INVARIANT RefreshIsSyncPoint
