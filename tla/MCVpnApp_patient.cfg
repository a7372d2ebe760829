SPECIFICATION FairSpec
CONSTANTS
    main = main
    t1 = t1
    t2 = t2
    t3 = t3
    Main = main
    Stoppers <- TwoStoppers
    MaxEvents = 6
    Patient = TRUE
    Faults = {"config", "bind", "establish", "thread", "revoke", "kill"}
    MaxInstances = 6
    MaxHandles = 7
INVARIANTS
    ScreenAgrees
    NoLostRuntime
    StartsOnlyProxy
PROPERTIES
    DisconnectTakesEffect
    MainThreadReturns
    TeardownReleases
CHECK_DEADLOCK FALSE
