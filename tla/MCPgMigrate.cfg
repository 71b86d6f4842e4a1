SPECIFICATION FairSpec
CONSTANTS
    Runs = {"old", "new", "fork", "bad"}
    List <- MCList
    Waiver <- MCWaiver
    MaxExportAge = 1
    MaxTime = 1
    MaxFaults = 1
INVARIANTS
    SuccessMeansApplied
    ExportPredatesRow
PROPERTIES
    ImplementsLedger
    EventuallySettled
