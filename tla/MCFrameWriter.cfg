SPECIFICATION FairSpec
CONSTANTS
    Client = {p, q}
    Frame = {f1, f2, f3}
    Capacity = 2
    Chunk = 2
INVARIANTS
    FlushIsBarrier
    PendingIsExact
PROPERTIES
    FlushReturns
    RecordedIsStored
CHECK_DEADLOCK FALSE
