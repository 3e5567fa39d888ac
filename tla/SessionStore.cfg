SPECIFICATION Spec
CHECK_DEADLOCK FALSE
CONSTANTS
    d1 = d1
    d2 = d2
    s1 = s1
    s2 = s2
    main = main
    delegate = delegate
    summary = summary
    None = None
    Default = main
    Harnesses <- MCHarnesses
    Sessions <- MCSessions
    Delegates <- MCDelegates
    Summaries <- MCSummaries
    Contents <- MCContents
    Small <- MCSmall
    Failures <- Reliable
    Races = FALSE
    LongIdle = FALSE
    ReusesIds = FALSE
    MaxEvents = 6
SYMMETRY MCSymmetry
INVARIANTS
    OneWriter
    LogIsTheTruth
    PointersResolve
    ResumeFindsTheBranch
