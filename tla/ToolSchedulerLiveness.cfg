SPECIFICATION Spec
CONSTANTS
    main = main
    side = side
    side2 = side2
    shell = shell
    agents = agents
    read1 = read1
    write1 = write1
    ask1 = ask1
    ask2 = ask2
    skill1 = skill1
    None = None
    Default = main
    Tools <- MCTools
    Conns <- MCConns
    Offers <- MCOffers
    SideEffects <- MCSideEffects
    Inline <- MCInline
    Delegates <- MCDelegates
    Convs <- LivenessConvs
    Calls <- LivenessCalls
    ToolOf <- LivenessToolOf
    ReadOnly <- LivenessReadOnly
    Mortal = {shell}
    MaxCalls = 2
    Switches = FALSE
PROPERTY TurnsEnd
\* A turn whose call is stranded waits for ever.
CHECK_DEADLOCK FALSE
