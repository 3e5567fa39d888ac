SPECIFICATION Spec
CONSTANTS
    main = main
    side = side
    side2 = side2
    shell = shell
    agents = agents
    read1 = read1
    write1 = write1
    ask1 = ask1
    ask2 = ask2
    skill1 = skill1
    None = None
    Default = main
    Tools <- MCTools
    Conns <- MCConns
    Offers <- MCOffers
    SideEffects <- MCSideEffects
    Inline <- MCInline
    Delegates <- MCDelegates
    Convs <- SafetyConvs
    Calls <- SafetyCalls
    ToolOf <- SafetyToolOf
    ReadOnly <- SafetyReadOnly
    Mortal <- MCConns
    MaxCalls = 3
    Switches = TRUE
INVARIANTS
    TypeOK
    MutatingRunsAlone
    QueueIsServed
    TurnsAreWhole
    OldCallsAreForgotten
