SPECIFICATION OneRun
CONSTANTS
    Paths = {1, 2}
    Mangled = {2}
    Contents = {"a", "b"}
    Sealers = {"ci", "laptop"}
    Keys = {"new", "own"}
    KeyOf <- Signs
    Trusted = {"new"}
    MaxWrites = 1
    MaxIOFaults = 1
    Runs = {d1}
    Revisions = {"1.1", "1.2"}
    First = "1.1"
    Alike <- Distinct
    HealthAttempts = 1
    MaxFaults = 1
CHECK_DEADLOCK FALSE
INVARIANTS
    SealThenVerify
    InstalledAsSigned
