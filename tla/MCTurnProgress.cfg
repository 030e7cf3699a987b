SPECIFICATION FairSpec
CONSTANTS
    Items = {i1, i2}
    Contexts = {i2}
    Starts = {s1}
    Slots = {q1, q2}
    MaxItems = 2
    Others = FALSE
    LostResponses = FALSE
    Snapshots = FALSE
    Other = Other
    None = None
INVARIANTS
    TurnBacked
PROPERTIES
    InterruptSettles
    QueueDrains
CHECK_DEADLOCK FALSE
