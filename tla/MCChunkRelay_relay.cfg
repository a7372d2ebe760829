SPECIFICATION FairSpec
CONSTANTS
    Bytes <- Alphabet
    Bodies <- AllBodies
    FlushAt = 6
    Truncates = TRUE
INVARIANTS
    WholeUnlessImitated
PROPERTIES
    RelayIsPipe
    EndIsNoticed
CHECK_DEADLOCK FALSE
