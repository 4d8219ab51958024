\* Bodies with a loop, with the labels WebAssembly counts.
SPECIFICATION Spec
CONSTANTS
  NoExpr = NoExpr
  NoVar = NoVar
  NoBody = NoBody
  NoTree = NoTree
  NoScript = NoScript
  MaxRounds = 16
  Sources <- MCLoopSources
  Inputs <- MCInputs
  Bodies <- MCBodies
  Fuel = 30
INVARIANT
  WasmMeaningKept
CHECK_DEADLOCK FALSE
