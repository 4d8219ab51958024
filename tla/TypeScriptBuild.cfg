\* TypeScript, sources reverted, builds killed, files removed.
SPECIFICATION MCSpec
CONSTANTS
  a = a
  b = b
  Package <- MCPackage
  Root = Root
  Source <- MCSource
  SourcesOf <- TypeScriptSources
  ManifestsOf <- Chain
  Compilers = {1, 2}
  Target = "typescript"
  Absent = Absent
  Torn = Torn
  Disturbances = {"revert", "crash", "remove"}
  MaxEdits = 2
  MaxBuilds = 3
INVARIANTS
  TypeOK
  ReuseIsSound
  SuccessIsClean
  ForcedBuildIsClean
  NullBuildIsFresh
  DepHashesComplete
  OutputsMatchGraph
CHECK_DEADLOCK FALSE
