SPECIFICATION Spec
CONSTANTS
    Callers = {"golemd", "web"}
    Intents = {"create", "complete", "edit"}
    Updates = {"complete", "edit"}
    Owner <- OwnerOf
    MaxEpoch = 2
    MaxMints = 3
    MaxFaults = 2
CHECK_DEADLOCK FALSE
INVARIANTS
    AppliedAsSeen
    AppliedOncePerEpoch
    EntityMeansApplied
