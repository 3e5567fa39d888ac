SPECIFICATION FairSpec
CHECK_DEADLOCK FALSE
CONSTANTS
    None = None
    Prompt <- MCPrompt
    ColsOf <- MCColsOf
    Commands <- MCCommands
    ArgItems <- MCArgItems
    Paths <- MCPaths
    Sessions <- MCSessions
    Drafts <- MCDrafts
    Outputs <- MCOutputs
    Lives <- MCLives
INVARIANTS
    TerminalIsFaithful
PROPERTIES
    TerminalSettles
