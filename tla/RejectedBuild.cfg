\* A rejected build, then the old source again.
SPECIFICATION MCSpec
CONSTANTS
  a = a
  b = b
  Package <- MCPackage
  Root = Root
  Source <- MCSource
  SourcesOf <- RejectedSources
  ManifestsOf <- Chain
  Compilers = {1}
  Target = "typescript"
  Absent = Absent
  Torn = Torn
  Disturbances = {"revert"}
  MaxEdits = 2
  MaxBuilds = 3
INVARIANTS
  FreshMeansUsable
CHECK_DEADLOCK FALSE
