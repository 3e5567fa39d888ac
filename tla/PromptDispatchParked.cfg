SPECIFICATION Spec
CHECK_DEADLOCK FALSE
CONSTANTS
    main = main
    summary = summary
    delegate = delegate
    ext = ext
    None = None
    Default = main
    Queries <- MCQueries
    Delegated <- MCDelegated
    Providers <- MCProviders
    Mortal <- MCProviders
    Intercepted <- HoldsAll
    AgentsFiles <- MCProviders
    SpawnsFail = FALSE
    Shell = TRUE
    MaxMessages = 2
    MaxPrompts = 3
    MaxSessions = 2
INVARIANTS
    HistoryIsExact
    QueueMovesOn
