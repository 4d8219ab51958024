\* Two requirers with different ranges.
SPECIFICATION FewSpec
CONSTANTS
  a = a
  b = b
  c = c
  Package <- MCPackage
  Root = Root
  Version <- MCVersion
  Entries <- MCEntries
  Manifests <- FewVersions
  RootLists <- FewRoots
  IdOf <- Numbered
  Absent = Absent
  Partial = Partial
  MaxChanges = 0
  MaxRuns = 1
INVARIANTS
  RangesAreRespected
CHECK_DEADLOCK FALSE
