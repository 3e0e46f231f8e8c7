SPECIFICATION PlannerSpec
CONSTANTS
    States <- MCStates
    Natives <- MCNatives
    Rules <- MCRules
    Reversible <- MCReversible
    Symmetric <- MCSymmetric
    NativeName = 10
    LeafErrors = {1, 4}
    RootBatches <- MCRootBatches
    MaxFrontier = 2
    MaxNodes = 14
    MaxGenerated = 20
    MaxBatches = 2
INVARIANTS
    PlannerTypeOK
    NothingLost
    CostsAgree
PROPERTY
    SearchAdvances
