SPECIFICATION FairSpec
CHECK_DEADLOCK FALSE
CONSTANTS
    main = main
    summary = summary
    delegate = delegate
    ext = ext
    None = None
    Default = main
    Queries <- MCQueries
    Delegated <- MCDelegated
    Providers <- MCProviders
    Mortal <- MCProviders
    Intercepted <- Nobody
    AgentsFiles <- MCProviders
    SpawnsFail = FALSE
    Shell = TRUE
    MaxMessages = 3
    MaxPrompts = 3
    MaxSessions = 2
INVARIANTS
    BranchesAreExact
PROPERTIES
    PromptsTakeTurns
    EveryPromptIsSent
