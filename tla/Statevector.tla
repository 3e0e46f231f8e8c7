---------------------------- MODULE Statevector ----------------------------
(***************************************************************************)
(* The statevector simulator (qis/state/statevector.rs) on Clifford gates, *)
(* measurement and reset, and the Pauli expectations of qis/observable.rs. *)
(*                                                                         *)
(* A basis state is the set of qubits that are 1.  Amplitudes are Gaussian *)
(* integers up to a common factor: the kernels are written without their   *)
(* 1/sqrt(2) and Rescaled divides by the amplitude of one basis state,     *)
(* which is exact because the amplitudes of what Clifford gates reach from *)
(* |0...0> differ by powers of i where they are not zero.  Floating point  *)
(* and the parallel split of the arrays are left out.                      *)
(***************************************************************************)
EXTENDS Integers, FiniteSets, FiniteSetsExt, Functions

CONSTANT N     \* num_qubits

ASSUME AtLeastOneQubit == N \in Nat \ {0}

Qubits == 0 .. N - 1
Basis == SUBSET Qubits

-----------------------------------------------------------------------------
(* Complex numbers *)

Zero == <<0, 0>>
One == <<1, 0>>
ImaginaryUnit == <<0, 1>>
Plus(a, b) == <<a[1] + b[1], a[2] + b[2]>>
Minus(a) == <<-a[1], -a[2]>>
Times(a, b) == <<a[1] * b[1] - a[2] * b[2], a[1] * b[2] + a[2] * b[1]>>
Conjugate(a) == <<a[1], -a[2]>>
SquaredNorm(a) == a[1] * a[1] + a[2] * a[2]

\* Phase::to_complex: i^k
PowerOfI(k) ==
    CASE k % 4 = 0 -> One
      [] k % 4 = 1 -> ImaginaryUnit
      [] k % 4 = 2 -> Minus(One)
      [] k % 4 = 3 -> Minus(ImaginaryUnit)

-----------------------------------------------------------------------------
(* Gates: rows of the matrix each kernel applies, without 1/sqrt(2) *)

IdentityMatrix == <<<<One, Zero>>, <<Zero, One>>>>
XMatrix == <<<<Zero, One>>, <<One, Zero>>>>
YMatrix == <<<<Zero, Minus(ImaginaryUnit)>>, <<ImaginaryUnit, Zero>>>>
ZMatrix == <<<<One, Zero>>, <<Zero, Minus(One)>>>>
HMatrix == <<<<One, One>>, <<One, Minus(One)>>>>
SMatrix == <<<<One, Zero>>, <<Zero, ImaginaryUnit>>>>
SdgMatrix == <<<<One, Zero>>, <<Zero, Minus(ImaginaryUnit)>>>>
X2PMatrix == <<<<One, Minus(ImaginaryUnit)>>, <<Minus(ImaginaryUnit), One>>>>
X2MMatrix == <<<<One, ImaginaryUnit>>, <<ImaginaryUnit, One>>>>
Y2PMatrix == <<<<One, Minus(One)>>, <<One, One>>>>
Y2MMatrix == <<<<One, One>>, <<Minus(One), One>>>>

\* The amplitudes as they are kept, divided by that of a basis state that has one.
Rescaled(psi) ==
    LET support == {b \in Basis : psi[b] # Zero}
        pivot == psi[CHOOSE b \in support : TRUE]
        divided(a) == LET product == Times(a, Conjugate(pivot))
                      IN  <<product[1] \div SquaredNorm(pivot),
                            product[2] \div SquaredNorm(pivot)>>
    IN  IF support = {} THEN psi ELSE [b \in Basis |-> divided(psi[b])]

\* The pairs of amplitudes that differ in qubit q only and are 1 on controls.
Kernel(psi, matrix, q, controls) ==
    [b \in Basis |->
        IF controls \subseteq b
        THEN LET row == IF q \in b THEN matrix[2] ELSE matrix[1]
             IN  Plus(Times(row[1], psi[b \ {q}]), Times(row[2], psi[b \cup {q}]))
        ELSE psi[b]]

Exchanged(b, q0, q1) ==
    {IF q = q0 THEN q1 ELSE IF q = q1 THEN q0 ELSE q : q \in b}

\* apply_standard_gate, the gates on one qubit
Rotated(psi, gate, q) ==
    LET matrix == CASE gate = "I" -> IdentityMatrix
                    [] gate = "X" -> XMatrix
                    [] gate = "Y" -> YMatrix
                    [] gate = "Z" -> ZMatrix
                    [] gate = "H" -> HMatrix
                    [] gate = "S" -> SMatrix
                    [] gate = "SDG" -> SdgMatrix
                    [] gate = "X2P" -> X2PMatrix
                    [] gate = "X2M" -> X2MMatrix
                    [] gate = "Y2P" -> Y2PMatrix
                    [] gate = "Y2M" -> Y2MMatrix
    IN  Rescaled(Kernel(psi, matrix, q, {}))

\* apply_standard_gate, the gates on two qubits
Coupled(psi, gate, q0, q1) ==
    Rescaled(CASE gate = "CX" -> Kernel(psi, XMatrix, q1, {q0})
               [] gate = "CY" -> Kernel(psi, YMatrix, q1, {q0})
               [] gate = "CZ" -> Kernel(psi, ZMatrix, q1, {q0})
               [] gate = "SWAP" -> [b \in Basis |-> psi[Exchanged(b, q0, q1)]])

-----------------------------------------------------------------------------
(* Measurement and expectations *)

Ground == [b \in Basis |-> IF b = {} THEN One ELSE Zero]

\* measure, once the outcome is known
Projected(psi, q, bit) ==
    Rescaled([b \in Basis |-> IF (q \in b) = bit THEN psi[b] ELSE Zero])

\* probabilities: proportional to this
Weight(psi, b) == SquaredNorm(psi[b])
TotalWeight(psi) == SumFunction([b \in Basis |-> Weight(psi, b)])

\* The sign the Z part of a Pauli string gives to basis state b.
SignOf(pauli, b) ==
    IF Cardinality(b \cap pauli.z) % 2 = 1 THEN Minus(One) ELSE One

\* global_phase * y_phase
BaseFactor(pauli) == PowerOfI(pauli.phase + Cardinality(pauli.x \cap pauli.z))

\* PauliString::expectation_density_matrix of the pure state psi, times its weight
DensityMatrixExpectation(psi, pauli) ==
    LET term(b) == Times(Times(psi[b], Conjugate(psi[SymDiff(b, pauli.x)])),
                         Times(BaseFactor(pauli), SignOf(pauli, b)))
    IN  SumFunction([b \in Basis |-> term(b)[1]])

\* PauliString::expectation_statevector, times the weight of psi
StatevectorExpectation(psi, pauli) ==
    LET term(b) == Times(Times(Conjugate(psi[b]), psi[SymDiff(b, pauli.x)]),
                         Times(BaseFactor(pauli), SignOf(pauli, b)))
    IN  SumFunction([b \in Basis |-> term(b)[1]])

=============================================================================
