\* Function bodies with every construct of the language, each step checked.
SPECIFICATION Spec
CONSTANTS
  NoExpr = NoExpr
  NoVar = NoVar
  NoBody = NoBody
  NoTree = NoTree
  NoScript = NoScript
  MaxRounds = 16
  Sources <- MCSources
  Inputs <- MCInputs
  Bodies <- MCBodies
  Fuel = 30
INVARIANTS
  SimplifyInv
  NeverBroken
  MeaningKept
  RunKept
  FullySimplified
  DominatorsFound
  EachBlockOnce
  TreeMeaningKept
  ScriptMeaningKept
CHECK_DEADLOCK FALSE
