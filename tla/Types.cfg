SPECIFICATION Spec
CONSTANTS
  TyDefs <- MCTyDefs
  Fns <- MCFns
  Traits <- MCTraits
  Impls <- MCImpls
  InScope <- MCInScope
  Foreign <- MCForeign
  Pools <- MCPools
  Mains <- MCMains
  Own <- MCOwn
  Lost <- MCLost
  Main = "main"
  NoTy = NoTy
  InstanceLimit = 9
  Depth = 3
  Progs <- ProgsOf
  DepFns <- DepFnsOf
  DepItems <- DepItemsOf
  Contents <- ContentsOf
  Infer <- InferIn
  Item <- ItemOf
  PkgOf <- PackageOf
  Callee <- CalleeOf
  Put <- SubstTy
  GenSubst <- ArgsOf
  Concrete <- IsConcrete
INVARIANTS
  TypeOK
  AcceptedIsWellTyped
  InstancesAreWellTyped
  TypesAreComplete
  BoundsSuffice
  StringsKept
PROPERTY IsWorklist
CHECK_DEADLOCK FALSE
