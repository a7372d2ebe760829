SPECIFICATION Spec
CONSTANTS
    main = main
    t1 = t1
    t2 = t2
    t3 = t3
    Main = main
    Stoppers <- ThreeStoppers
    MaxEvents = 4
    Patient = FALSE
    Faults = {"config", "bind", "establish", "thread", "tun2proxy", "slow", "stuck", "revoke", "kill"}
    MaxInstances = 4
    MaxHandles = 4
INVARIANTS
    TypeOK
    TeardownExclusive
    StopsOnce
PROPERTIES
    HandleNamesOneProxy
SYMMETRY StopperSymmetry
CHECK_DEADLOCK FALSE
