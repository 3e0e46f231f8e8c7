SPECIFICATION PassSpec
CONSTANTS
    Managers = {1}
    InputQubits <- MCInputQubits
    OwnerQubits = {}
    MaxQubitId = 6
    MaxCounter = 9
    MaxClean = 2
    AllowDirty = TRUE
    TotalLimit = 6
    Counts <- MCCounts
    Exclusions <- MCExclusions
    MaxPlans = 1
    MaxOperations = 2
    GateClasses <- MCClasses
INVARIANTS
    BookkeepingNeverFails
    NoIdleAncilla
    AncillasApart
PROPERTIES
    PassEnds
