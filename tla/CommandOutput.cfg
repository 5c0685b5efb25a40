SPECIFICATION Spec
CONSTANTS
    ServerLimit = 4
    ClientLimit = 3
    MaxWritten = 5
INVARIANTS
    BufferExact
    RelayedWhole
    AnswersExact
    Inv
CHECK_DEADLOCK FALSE
