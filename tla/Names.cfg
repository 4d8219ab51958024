SPECIFICATION Spec
CONSTANTS
  OwnPkg = "app"
  Deps <- MCDeps
  Children <- MCChildren
  Sources <- MCSources
  BodyFn = "main"
  BodyParams <- MCBodyParams
  BodyNames <- MCBodyNames
  MaxEvents = 6
  NotYet = NotYet
INVARIANTS
  ResolvedAsDeclared
  StopsAreKnown
  OneItemPerName
  TraitImplsConform
  VariablesAreLexical
CHECK_DEADLOCK FALSE
