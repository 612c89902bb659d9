SPECIFICATION Spec
CONSTANTS
  testA = testA
  testB = testB
  srcA = srcA
  srcB = srcB
  Symbols = {1, 2, 3}
  Files <- MCHelperFiles
  FileOf <- MCHelperFileOf
  TestFiles <- MCTestFiles
  Lines = {1}
  MaxReferences = 2
  Masks = {{"Tests"}, {"Calls", "Tests"}}
  Depths = {3}
  MaxChanged = 2
  NONE = NONE
INVARIANT NothingIsMissing
