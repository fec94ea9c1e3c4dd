SPECIFICATION FairSpec
CONSTANTS
    s1 = s1
    s2 = s2
    f1 = f1
    n1 = n1
    n2 = n2
    c1 = c1
    c2 = c2
    Msg = {s1, n1, c1}
    KindOf <- MCKindOf
    OneAtATime = {"steer", "followUp"}
INVARIANTS
    QueueMatchesLog
    NeverBoth
    ReservedByRun
    RunOwnsOperation
PROPERTIES
    EntriesLandInPlace
    ImplementsDelivery
    QueuedIsConsumed
    AbortEndsRun
