CONSTANTS
    Qubits = {q1, q2}
    Keyed = {"x", "z"}
    Unkeyed = {"m"}
    Commuting = {}
    Rules <- MCRules
    Configs <- MCConfigs
    MaxRounds = 2
    ScanPercent = 75
    Revisions = 3
    MaxLen = 3
    MaxEdits = 1
    MaxInserted = 1
    None = None

SPECIFICATION MCSpec

INVARIANTS
    TypeOK
    SkippedAnchorsAreClean
    WorkspaceIsCurrent
    CanonicalProofIsFresh

SYMMETRY MCSymmetry
