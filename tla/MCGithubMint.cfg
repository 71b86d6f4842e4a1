SPECIFICATION Spec
CONSTANTS
    Callers = {c1, c2}
    Keys = {k1}
    CallBudgetConfig = 6
    DedupeWindowConfig = 2
    RateLimitFloorConfig = 4
    DefaultCallBudget = 500
    DefaultDedupeWindow = 300
    DefaultRateLimitFloor = 50
    Skew = 1
    TokenLife = 2
    Quota = 5
    CallDeadline = 2
    MaxTime = 4
SYMMETRY Symmetry
INVARIANTS
    BudgetHeld
    DedupeSpacing
    FailureNeverPoisons
    OvershootBounded
PROPERTIES
    OldTokenOnlyFromLateCall
