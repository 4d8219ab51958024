\* wasm, sources edited under a running build, builds killed, --emit mir.
SPECIFICATION MCSpec
CONSTANTS
  a = a
  b = b
  Package <- MCPackage
  Root = Root
  Source <- MCSource
  SourcesOf <- WasmSources
  ManifestsOf <- Chain
  Compilers = {1}
  Target = "wasm"
  Absent = Absent
  Torn = Torn
  Disturbances = {"revert", "midedit", "crash", "emit"}
  MaxEdits = 2
  MaxBuilds = 3
INVARIANTS
  DepsAreLoadable
  NeverMixesVersions
  BuildInv
CHECK_DEADLOCK FALSE
