SPECIFICATION FairAskSpec
CONSTANTS
    S = S
    a1 = a1
    a2 = a2
    c1 = c1
    c2 = c2
    c3 = c3
    Session = S
    Agent = {a1, a2}
    Call = {c1, c2, c3}
    By <- MCBy
INVARIANTS
    TypeOK
    CycleNeedsARace
PROPERTY
    QuestionEnds
CHECK_DEADLOCK FALSE
