SPECIFICATION FairSpec
CONSTANTS
    Targets = {t1, t2, t3}
    Kinds <- AllKinds
    Cap = 2
    MaxSignals = 4
CHECK_DEADLOCK FALSE
INVARIANTS
    JoinedAfterReports
    ForcedOnlyByRepeat
PROPERTIES
    HungBlocksNobody
    RepeatForces
