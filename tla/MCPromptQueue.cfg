SPECIFICATION Spec
CONSTANTS
    Prompts = {p1, p2, p3}
    MaxTurns = 3
    MaxSteers = 2
    None = None
INVARIANTS
    DeliveredOnce
    NothingLost
SYMMETRY PromptSymmetry
CHECK_DEADLOCK FALSE
