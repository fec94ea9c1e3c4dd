SPECIFICATION FairSpec
CONSTANTS
    m1 = m1
    m2 = m2
    Agent = agent
    Other = other
    Mail <- MCMail
    Paths <- MCPaths
    Kinds <- MCKinds
    MaxAutoWakes = 1
    MaxAsked = 1
INVARIANTS
    IdleArrivalListed
    PromptReadsBacklog
PROPERTY
    WakeIsHandled
CHECK_DEADLOCK FALSE
