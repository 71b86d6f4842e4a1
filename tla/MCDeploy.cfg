SPECIFICATION Spec
CONSTANTS
    Runs = {d1, d2}
    Revisions = {"1.1", "1.2", "1.2.1"}
    First = "1.1"
    Alike <- Containing
    HealthAttempts = 2
    MaxFaults = 3
CHECK_DEADLOCK FALSE
INVARIANTS
    LinkResolves
    RestServesCurrent
    SerialOutcome
