SPECIFICATION PreSpec
CONSTANTS
  main = main
  lib = lib
  d1 = d1
  d2 = d2
  Lib = Lib
  Dir = Dir
  App = App
  Twice = Twice
  Gone = Gone
  Anonymous = Anonymous
  Entry = main
  NumRoots = 2
  FileForm <- MCFileForm
  DirForm <- MCDirForm
  Files = {main, lib, d1, d2}
  Modules = {Lib, Dir, Gone}
  Unreadable = {}
  Names = {X}
  Platform = {}
  Kinds = {"define", "undefine", "use", "module", "import", "bad"}
  MaxLines = 3
  MaxCli = 1
  MaxDepth = 2
  MaxTests = 2
INVARIANTS
  ModulesAreWhole
  SubstitutionIsScoped
PROPERTY GlobalsAreFinal
