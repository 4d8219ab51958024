\* Three packages with lists from a set, in one run; a few versions, with fetching,
\* killed runs, edits and new versions, in two.
SPECIFICATION MCSpec
CONSTANTS
  a = a
  b = b
  c = c
  Package <- MCPackage
  Root = Root
  Version <- MCVersion
  Entries <- MCEntries
  Manifests <- MCManifests
  RootLists <- MCRootLists
  IdOf <- Colliding
  Absent = Absent
  Partial = Partial
  MaxChanges = 1
  MaxRuns = 2
INVARIANTS
  TypeOK
  GraphIsClosure
  BatchesAreLevels
  CyclesAreRefused
  ClosureIsReachability
  IdsAreDistinct
PROPERTIES
  KeepsWhatIsThere
  RunEnds
CHECK_DEADLOCK FALSE
