SPECIFICATION Spec
CONSTANTS
    Items = {i1, i2, i3}
    Contexts = {i2}
    Starts = {s1}
    Slots = {q1, q2}
    MaxItems = 2
    Others = TRUE
    LostResponses = TRUE
    Snapshots = TRUE
    Other = Other
    None = None
SYMMETRY Symmetry
INVARIANTS
    TurnInv
    OneByOne
    ExecutionOwned
PROPERTIES
    InterruptHolds
CHECK_DEADLOCK FALSE
