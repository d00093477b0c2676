SPECIFICATION FairPreSpec
CONSTANTS
  main = main
  lib = lib
  d1 = d1
  d2 = d2
  Lib = Lib
  Dir = Dir
  App = App
  Twice = Twice
  Gone = Gone
  Anonymous = Anonymous
  Entry = main
  NumRoots = 2
  FileForm <- MCFileForm
  DirForm <- MCDirForm
  Files = {main, lib, d1, d2}
  Modules = {Lib, Dir, App, Twice}
  Unreadable = {d2}
  Names = {X}
  Platform = {X}
  Kinds = {"cond", "module", "import", "brace"}
  MaxLines = 3
  MaxCli = 0
  MaxDepth = 2
  MaxTests = 2
INVARIANTS
  WalkNests
  ChainsFollowFiles
PROPERTIES
  Termination
  StackSpec
