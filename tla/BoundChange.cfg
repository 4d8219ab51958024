\* A trait bound is added to a dependency.
SPECIFICATION MCSpec
CONSTANTS
  a = a
  b = b
  Package <- MCPackage
  Root = Root
  Source <- MCSource
  SourcesOf <- BoundSources
  ManifestsOf <- Chain
  Compilers = {1}
  Target = "typescript"
  Absent = Absent
  Torn = Torn
  Disturbances = {"revert"}
  MaxEdits = 2
  MaxBuilds = 3
INVARIANTS
  SameSvhMeansCompatible
CHECK_DEADLOCK FALSE
