SPECIFICATION FairPutStreamSpec
CONSTANTS
    Calls = {c1, c2}
    Jobs <- JobSet
    Original <- Before
    MaxParts = 3
    Tries = 4
    MaxErrors = 5
CHECK_DEADLOCK FALSE
INVARIANTS
    ListedIsStored
    OrphanIsReported
PROPERTIES
    ImplementsAtomicObject
    CallReturns
