SPECIFICATION Spec
CONSTANTS
    Bytes <- Alphabet
    Bodies <- AllBodies
    FlushAt = 6
    Truncates = FALSE
INVARIANTS
    EndsAtTerminalChunk
CHECK_DEADLOCK FALSE
