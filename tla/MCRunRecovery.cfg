SPECIFICATION FairSpec
CONSTANTS
    Calls = 2
    Safe = {1}
    MaxResumes = 1
    MaxRetries = 1
    MaxTurns = 2
    MaxPrompts = 2
    MaxFaults = 3
INVARIANTS
    TypeOK
    RequestsAreValid
    NothingLost
    StartedIsAnswered
    ResumesAreBounded
PROPERTIES
    ImplementsPromise
    OperationCloses
CHECK_DEADLOCK FALSE
