SPECIFICATION FairSpec

CONSTANTS
    MaxRequests = 3
    MaxAsked = 2
    MaxMet = 2
    Methods = {"get", "post", "bad"}
    Framings = {"none", "length", "chunked", "close"}
    Hazards = {"close", "early", "excess", "interim", "pipeline", "refuse", "reset",
               "truncate", "trailer"}
    FlushAt = 1

INVARIANTS
    TypeOK
    InOrder
    NothingLost
    ExcessCut
    AllCounted

PROPERTIES
    SupportedAnswered

CHECK_DEADLOCK FALSE
