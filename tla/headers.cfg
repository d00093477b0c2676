SPECIFICATION BodySpec
CONSTANT Bodies <- MCBodies
INVARIANT HeadersKeepTheirNames
CHECK_DEADLOCK FALSE
