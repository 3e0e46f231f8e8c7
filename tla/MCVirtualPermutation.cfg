SPECIFICATION PermSpec
CONSTANTS
    Qubits <- MCQubits
    Ancillas = {"x"}
    DeviceQubits = {1, 2, 3, 4}
    Operations <- MCOperations
    MaxOps = 4
INVARIANTS
    OutputsWhereTold
CHECK_DEADLOCK FALSE
