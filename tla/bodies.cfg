SPECIFICATION BodySpec
CONSTANT Bodies <- MCBodies
INVARIANTS NamesResolveAlike RunsAsWritten BlocksEndRightly
CHECK_DEADLOCK FALSE
