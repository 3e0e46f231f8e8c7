SPECIFICATION Spec
CONSTANTS
    m1 = m1
    m2 = m2
    Managers = {m1, m2}
    InputQubits <- MCInputQubits
    OwnerQubits <- MCOwnerQubits
    MaxQubitId = 3
    MaxCounter = 4
    MaxClean = 2
    AllowDirty = TRUE
    TotalLimit = 3
    Counts = {1, 2}
    Exclusions <- MCExclusions
    MaxPlans = 1
INVARIANTS
    TypeOK
    LeasesExclusive
    CleanSupply
    FreshPlanIsCurrentAnswer
PROPERTIES
    ImplementsPool
SYMMETRY MCSymmetry
CHECK_DEADLOCK FALSE
