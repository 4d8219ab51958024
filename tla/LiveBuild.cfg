\* Every build ends, also with circular dependencies.
SPECIFICATION MCFairSpec
CONSTANTS
  a = a
  b = b
  Package <- MCPackage
  Root = Root
  Source <- MCSource
  SourcesOf <- LiveSources
  ManifestsOf <- MaybeCyclic
  Compilers = {1}
  Target = "typescript"
  Absent = Absent
  Torn = Torn
  Disturbances = {"revert", "midedit", "crash", "emit"}
  MaxEdits = 2
  MaxBuilds = 2
PROPERTIES
  BuildTerminates
CHECK_DEADLOCK FALSE
