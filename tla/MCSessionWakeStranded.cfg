SPECIFICATION Spec
CONSTANTS
    m1 = m1
    m2 = m2
    Agent = agent
    Other = other
    Mail <- MCMail
    Paths <- MCPaths
    Kinds <- PromptOnly
    MaxAutoWakes = 1
    MaxAsked = 1
INVARIANT NoReportStranded
