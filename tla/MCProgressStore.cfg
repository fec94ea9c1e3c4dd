SPECIFICATION Spec
CONSTANTS
    a = a
    b = b
    c = c
    MaxSequence = 4
    Id = {a, b, c}
    Run = {"r1", "r2"}
    Stream = {0, 1}
    Request <- MCRequest
    Wide <- MCWide
    Foreign = {"torn", "split"}
INVARIANTS
    LinesLoad
    MemoryIsDisk
PROPERTIES
    ImplementsPromise
