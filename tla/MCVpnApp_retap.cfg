SPECIFICATION Spec
CONSTANTS
    main = main
    t1 = t1
    t2 = t2
    t3 = t3
    Main = main
    Stoppers <- TwoStoppers
    MaxEvents = 4
    Patient = FALSE
    Faults = {}
    MaxInstances = 4
    MaxHandles = 4
INVARIANTS
    StoppedMeansDown
CHECK_DEADLOCK FALSE
