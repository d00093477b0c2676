SPECIFICATION Spec
CONSTANTS
    Tapes <- MCTapes
    MaxTokens = 3
INVARIANTS ScopesClose StaysInItsBody AcceptedIsReadWhole BodiesAreJudgedAlone
PROPERTY Terminates
CHECK_DEADLOCK FALSE
