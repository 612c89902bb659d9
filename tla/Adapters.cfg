SPECIFICATION AdaptersSpec
CONSTANTS
  NONE = NONE
  TsFiles <- MCTsFiles
  TsKnown <- MCTsKnown
  TsMinified = {5}
  TsRelative <- MCTsRelative
  TsPatterns <- MCTsPatterns
  TsMatches <- MCTsMatches
  TsConfigs <- MCTsConfigs
  RootConfig = "tsconfig"
  TsRoot = "root"
  TsProbe <- MCTsProbe
  TsBuiltin = {8}
  MaxExtends = 2
  MaxReexports = 1
  PyFiles <- MCPyFiles
  PyDirectory <- MCPyDirectory
  PyStem <- MCPyStem
  PyInit = 20
  PyInterfaces = {9}
  PyBuiltin <- MCBuiltinPaths
  PyGenerated = {}
  MaxInits = 1
  RsFiles <- MCRsFiles
  RsPath <- MCRsPath
  RsManifests <- MCRsManifests
  RsBuiltin <- MCBuiltinPaths
  RsAlwaysExternal = {109}
  RsSuperLike = {}
  RsGenerated = {}
  MaxPubUses = 2
  GoFiles <- MCGoFiles
  GoDirectory <- MCGoDirectory
  GoMods <- MCGoMods
  GoBuiltin <- MCBuiltinPaths
  GoGenerated = {}
  CFiles <- MCCFiles
  CPath <- MCCPath
  CBuiltin <- MCBuiltinPaths
  CGenerated = {}
  Beginnings <- MCBeginnings
  Writable <- MCWritable
  MaxWrites = 3
CHECK_DEADLOCK FALSE
INVARIANTS
  NothingIsLostSilently
  UsesFollowImports
  ReexportsAreTransparent
  CrateNamesAgree
  MembersAreOfTheirType
PROPERTY ResolutionIsLocal
