SPECIFICATION ServerSpec
CONSTANTS
  Roots = {root, sub}
  Root = root
  Calls = {a, b}
  Nobody = nobody
  MaxEdits = 2
INVARIANTS
  CallsHoldStores
  SerialRefreshIsSyncPoint
  MemoryMatchesStore
PROPERTY CallsReturn
