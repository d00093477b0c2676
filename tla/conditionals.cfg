SPECIFICATION DirSpec
CONSTANTS
  Files = {main, mod}
  MaxDepth = 3
  MaxTests = 3
  Bits = 8
  Literals <- MCLiterals
  Names = {"A", "B", "defined"}
INVARIANTS
  ActiveIffAllLive
  FirstTrueBranchWins
  IfAgreesWithTheParser
