SPECIFICATION QuestionsSpec
CONSTANTS
  testA = testA
  testB = testB
  srcA = srcA
  srcB = srcB
  Symbols = {1, 2, 3, 4, 5}
  Files <- MCFiles
  FileOf <- MCFileOf
  TestFiles <- MCTestFiles
  Lines = {1}
  MaxReferences = 3
  Masks = {{"Tests"}, {"Calls", "Tests"}}
  Depths = {0, 2}
  MaxChanged = 2
  ComparedFiles = {1, 2, 3, 4}
  Names = {1, 2, 3}
  ComparedTests = {3}
  ComparedStructural = {4}
  LanguageOf <- MCLanguageOf
  Occurs = {}
  Globs <- MCGlobs
  Thresholds = {0, 1}
  Baselines <- MCBaselines
  Spare <- MCSpare
  Words = {8, 9}
  MaxEdits = 3
  ComparedLines = {1, 2}
  NONE = NONE
INVARIANTS
  AnswerIsNeighbourhood
  ImpactNamesEveryDependent
  CoverageIsExact
  TrustIsEarned
  EverySymbolIsAccountedFor
  RefactoringLosesNothing
  StaleReferenceIsReported
  VerdictIsCertain
  AnEntryHidesOneFinding
