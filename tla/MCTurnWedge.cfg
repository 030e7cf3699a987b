SPECIFICATION FairSpec
CONSTANTS
    Items = {i1}
    Contexts = {}
    Starts = {s1}
    Slots = {q1}
    MaxItems = 2
    Others = FALSE
    LostResponses = FALSE
    Snapshots = TRUE
    Other = Other
    None = None
PROPERTIES
    InterruptSettles
CHECK_DEADLOCK FALSE
