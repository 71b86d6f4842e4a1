SPECIFICATION SessionSpec
CONSTANTS
    Visits = {q1, q2}
    Confidential = TRUE
    MaxGrants = 3
    MaxLogins = 1
    MaxFaults = 1
SYMMETRY Symmetry
CHECK_DEADLOCK FALSE
INVARIANTS
    SessionSurvives
    UnavailableTouchesNothing
