------------------------- MODULE MCMcGateDecomposer -------------------------
(* Gates on up to four qubits of a four-qubit circuit that may be widened by
   two ancillas, on a device with room for both. *)
EXTENDS McGateDecomposer

MCInputQubits == 0 .. 3
MCExclusions == SUBSET MCInputQubits
MCClasses == {"Pauli", "OneTarget", "TwoTargets", "FSim"}
MCCounts == 1 .. 3

=============================================================================
