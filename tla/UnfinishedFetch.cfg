\* A fetch that fails, then another run.
SPECIFICATION FewSpec
CONSTANTS
  a = a
  b = b
  c = c
  Package <- MCPackage
  Root = Root
  Version <- MCVersion
  Entries <- MCEntries
  Manifests <- FewVersions
  RootLists <- FewRoots
  IdOf <- Numbered
  Absent = Absent
  Partial = Partial
  MaxChanges = 0
  MaxRuns = 2
INVARIANTS
  UnfinishedFetchIsRetried
CHECK_DEADLOCK FALSE
