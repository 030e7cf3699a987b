SPECIFICATION Spec
CONSTANTS
    MaxTurns = 3
    MaxRetries = 1
    MaxDeferrals = 1
    MaxSurprises = 1
    None = None
INVARIANTS
    BudgetShared
PROPERTIES
    InputWins
    FailureAnswered
CHECK_DEADLOCK FALSE
