SPECIFICATION FairSpec

CONSTANTS
    MaxRequests = 2
    MaxAsked = 1
    MaxMet = 0
    Methods = {"post"}
    Framings = {"none", "length"}
    Hazards = {}
    FlushAt = 1

PROPERTIES
    AnsweredOrClosed

CHECK_DEADLOCK FALSE
