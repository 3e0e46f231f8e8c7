SPECIFICATION Spec
CONSTANTS
    N = 1
    OneQubitGates = {"H", "S"}
    TwoQubitGates = {"CX"}
INVARIANTS
    ExpectationsAgree
