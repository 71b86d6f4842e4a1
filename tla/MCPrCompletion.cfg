SPECIFICATION Spec
CONSTANTS
    Runs = {r1, r2, r3}
    Verifying = {r3}
    Trees = {t1, t2}
    Detached = {t2}
    Unrelated = other
    MaxFaults = 1
CHECK_DEADLOCK FALSE
INVARIANTS
    CommitsKept
PROPERTIES
    WorkKept
    BranchesGoLast
    OkMeansExact
