SPECIFICATION FairPutStreamSpec
CONSTANTS
    Calls = {c1}
    Jobs <- WholeBody
    Original <- Before
    MaxParts = 3
    Tries = 4
    MaxErrors = 0
CHECK_DEADLOCK FALSE
INVARIANTS
    FailedLeavesNoUpload
