SPECIFICATION Spec
CONSTANTS
  Types = {"A", "B", "C"}
  Builtins = {"i32"}
  Files <- MCFiles
  Modules <- MCModules
  ModuleOf <- MCModuleOf
  Imports <- MCImports
  Texts <- MCTexts
INVARIANTS
  VerdictIsOrderFree
  NoLaundering
  AcceptedIsComplete
  NoCycleEscapes
  OnlyCyclesReported
CHECK_DEADLOCK FALSE
