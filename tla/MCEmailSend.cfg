SPECIFICATION Spec
CONSTANTS
    Recipients = {"ana", "ben", "eva"}
    MaxSends = 3
CHECK_DEADLOCK FALSE
INVARIANTS
    NoSecondCopy
    BelievedIsAccepted
    OpenIsRetried
