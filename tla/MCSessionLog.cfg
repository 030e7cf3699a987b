SPECIFICATION Spec
CONSTANTS
    Savers = {s1, s2}
    VerifyInterval = 2
    Budgets <- LogBudgets
    None = None
INVARIANTS
    TypeOK
    CursorTrue
    Durable
    TrimBacked
    OriginalsOnly
PROPERTIES
    CatchesUp
CHECK_DEADLOCK FALSE
