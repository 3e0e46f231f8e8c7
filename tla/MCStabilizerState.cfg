SPECIFICATION Spec
CONSTANTS
    N = 2
    OneQubitGates = {"I", "H", "S", "SDG", "X", "Y", "Z", "X2P", "X2M"}
    TwoQubitGates = {"CX", "CY", "CZ", "SWAP"}
INVARIANTS
    Symplectic
    QueriesAreExact
