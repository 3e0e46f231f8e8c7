-------------------------- MODULE StabilizerState --------------------------
(***************************************************************************)
(* The stabilizer simulator (qis/state/stabilizer.rs): a tableau of 2n     *)
(* signed Pauli strings, destabilizers 0 .. n-1 and stabilizers n .. 2n-1, *)
(* updated by Clifford gates, measurement and reset, and queried without   *)
(* being changed.                                                          *)
(*                                                                         *)
(* A row is the set of qubits with an X part, the set of those with a Z    *)
(* part and the exponent of i in its phase; 64 columns to the word, the    *)
(* padding and the SIMD dispatch are left out.  A call is one of           *)
(* execute_operations or of the caller; calls that fail change nothing     *)
(* (the indices and the gate are checked first) and are left out.          *)
(*                                                                         *)
(* Next to the tableau runs the statevector simulator on the same calls    *)
(* with the same outcomes of measurements: what the queries are held to.   *)
(***************************************************************************)
EXTENDS Statevector

CONSTANTS
    OneQubitGates,   \* gates callers apply to one qubit
    TwoQubitGates    \* and to two

VARIABLES
    tableau,         \* row index -> row
    amplitudes       \* of the statevector simulator

vars == <<tableau, amplitudes>>

Destabilizers == 0 .. N - 1
Stabilizers == N .. 2 * N - 1
Indices == 0 .. 2 * N - 1
Paulis == [x : SUBSET Qubits, z : SUBSET Qubits, phase : 0 .. 3]
Identity == [x |-> {}, z |-> {}, phase |-> 0]

-----------------------------------------------------------------------------
(* Gates on a row *)

With(bits, q, bit) == IF bit THEN bits \cup {q} ELSE bits \ {q}

Xor(a, b) == ~ (a <=> b)

\* phases[row] ^= 2
Signed(phase, flip) == IF flip THEN (phase + 2) % 4 ELSE phase

\* The row with bits x and z at q, its sign changed if flip.
Rewritten(row, q, x, z, flip) ==
    [x |-> With(row.x, q, x), z |-> With(row.z, q, z), phase |-> Signed(row.phase, flip)]

ApplyH(row, q) == Rewritten(row, q, q \in row.z, q \in row.x, q \in row.x /\ q \in row.z)
ApplyS(row, q) ==
    Rewritten(row, q, q \in row.x, Xor(q \in row.z, q \in row.x), q \in row.x /\ q \in row.z)
ApplySdg(row, q) ==
    Rewritten(row, q, q \in row.x, Xor(q \in row.z, q \in row.x), q \in row.x /\ q \notin row.z)
ApplyX(row, q) == Rewritten(row, q, q \in row.x, q \in row.z, q \in row.z)
ApplyY(row, q) == Rewritten(row, q, q \in row.x, q \in row.z, Xor(q \in row.x, q \in row.z))
ApplyZ(row, q) == Rewritten(row, q, q \in row.x, q \in row.z, q \in row.x)
ApplyX2P(row, q) ==
    Rewritten(row, q, Xor(q \in row.x, q \in row.z), q \in row.z, q \notin row.x /\ q \in row.z)
ApplyX2M(row, q) ==
    Rewritten(row, q, Xor(q \in row.x, q \in row.z), q \in row.z, q \in row.x /\ q \in row.z)
ApplyY2P(row, q) ==
    Rewritten(row, q, q \in row.z, q \in row.x, q \notin row.x /\ q \in row.z)
ApplyY2M(row, q) ==
    Rewritten(row, q, q \in row.z, q \in row.x, q \in row.x /\ q \notin row.z)

ApplyCX(row, c, t) ==
    [x |-> IF c \in row.x THEN SymDiff(row.x, {t}) ELSE row.x,
     z |-> IF t \in row.z THEN SymDiff(row.z, {c}) ELSE row.z,
     phase |-> Signed(row.phase,
                      c \in row.x /\ t \in row.z /\ (t \in row.x <=> c \in row.z))]

ApplyCZ(row, a, b) == ApplyH(ApplyCX(ApplyH(row, b), a, b), b)
ApplyCY(row, c, t) == ApplyS(ApplyCX(ApplySdg(row, t), c, t), t)

ApplySwap(row, a, b) ==
    [x |-> With(With(row.x, a, b \in row.x), b, a \in row.x),
     z |-> With(With(row.z, a, b \in row.z), b, a \in row.z),
     phase |-> row.phase]

\* apply_clifford_gate
OneQubit(gate, row, q) ==
    CASE gate = "I" -> row
      [] gate = "H" -> ApplyH(row, q)
      [] gate = "S" -> ApplyS(row, q)
      [] gate = "SDG" -> ApplySdg(row, q)
      [] gate = "X" -> ApplyX(row, q)
      [] gate = "Y" -> ApplyY(row, q)
      [] gate = "Z" -> ApplyZ(row, q)
      [] gate = "X2P" -> ApplyX2P(row, q)
      [] gate = "X2M" -> ApplyX2M(row, q)
      [] gate = "Y2P" -> ApplyY2P(row, q)
      [] gate = "Y2M" -> ApplyY2M(row, q)

TwoQubit(gate, row, a, b) ==
    CASE gate = "CX" -> ApplyCX(row, a, b)
      [] gate = "CY" -> ApplyCY(row, a, b)
      [] gate = "CZ" -> ApplyCZ(row, a, b)
      [] gate = "SWAP" -> ApplySwap(row, a, b)

ASSUME GatesAreClifford ==
    /\ OneQubitGates \subseteq {"I", "H", "S", "SDG", "X", "Y", "Z", "X2P", "X2M", "Y2P", "Y2M"}
    /\ TwoQubitGates \subseteq {"CX", "CY", "CZ", "SWAP"}

-----------------------------------------------------------------------------
(* Products of rows, measurement *)

\* The qubits on which two rows have different Pauli matrices, neither the identity.
Clash(g, h) == SymDiff(g.x \cap h.z, g.z \cap h.x)

\* g_phase_word: where the product of the two matrices is i times the third.
Cyclic(g, h) ==
    (g.x \cap h.z \cap SymDiff(g.z, h.x)) \cup ((g.z \ g.x) \cap (h.x \ h.z))

\* Mutant: the phases of the rows only.
ProductOfSigns(g, h) ==
    [x |-> SymDiff(g.x, h.x), z |-> SymDiff(g.z, h.z), phase |-> (g.phase + h.phase) % 4]

\* rowsum
Product(g, h) ==
    [x |-> SymDiff(g.x, h.x), z |-> SymDiff(g.z, h.z),
     phase |-> (g.phase + h.phase + 2 * Cardinality(Cyclic(g, h))
                    - Cardinality(Clash(g, h))) % 4]

\* The first stabilizer with an X part on q, if one has.
Pivots(T, q) ==
    {p \in Stabilizers : q \in T[p].x /\ \A j \in N .. p - 1 : q \notin T[j].x}

\* Mutant: the stabilizer that is replaced does not become a destabilizer.
CollapsedUnpaired(T, p, q, bit) ==
    [i \in Indices |->
        IF i = p THEN [x |-> {}, z |-> {q}, phase |-> IF bit THEN 2 ELSE 0]
        ELSE IF q \in T[i].x THEN Product(T[i], T[p]) ELSE T[i]]

\* measure and force_measure, the random case
Collapsed(T, p, q, bit) ==
    [i \in Indices |->
        IF i = p THEN [x |-> {}, z |-> {q}, phase |-> IF bit THEN 2 ELSE 0]
        ELSE IF i = p - N THEN T[p]
        ELSE IF q \in T[i].x THEN Product(T[i], T[p]) ELSE T[i]]

\* The scratch row: the product of the stabilizers paired with q's destabilizers.
Scratch(T, q) ==
    LET product[k \in 0 .. N] ==
            IF k = 0 THEN Identity
            ELSE IF q \in T[k - 1].x THEN Product(product[k - 1], T[N + k - 1])
            ELSE product[k - 1]
    IN  product[N]

\* measure, the deterministic case
Determined(T, q) == Scratch(T, q).phase = 2

\* What measuring q can do: the bit read and the tableau left.
Measurements(T, q) ==
    IF Pivots(T, q) = {} THEN {[bit |-> Determined(T, q), tableau |-> T]}
    ELSE {[bit |-> b, tableau |-> Collapsed(T, p, q, b)] : b \in BOOLEAN, p \in Pivots(T, q)}

-----------------------------------------------------------------------------
(* Queries *)

\* force_measure on the copy of probability_of; once impossible, it returns.
Forced(state, q, bit) ==
    IF ~ state.possible THEN state
    ELSE IF Pivots(state.tableau, q) = {}
    THEN [state EXCEPT !.possible = (Determined(state.tableau, q) = bit)]
    ELSE [tableau |-> Collapsed(state.tableau, CHOOSE p \in Pivots(state.tableau, q) : TRUE, q, bit),
          odds |-> 2 * state.odds,
          possible |-> TRUE]

\* probability_of: 0, or one in odds, which each random outcome forced doubles.
ProbabilityOf(T, b) ==
    LET forced[k \in 0 .. N] ==
            IF k = 0 THEN [tableau |-> T, odds |-> 1, possible |-> TRUE]
            ELSE Forced(forced[k - 1], k - 1, k - 1 \in b)
    IN  forced[N]

HasBit(row, column) ==
    IF column < N THEN column \in row.x ELSE column - N \in row.z

\* pauli_expectation, one column of the elimination over generators and query.
Eliminated(work, column) ==
    LET found == {r \in work.pivot .. N - 1 : HasBit(work.rows[r], column)}
        p == Min(found)
        row == work.rows[p]
        rows == [work.rows EXCEPT ![p] = work.rows[work.pivot], ![work.pivot] = row]
    IN  IF found = {} THEN work
        ELSE [rows |-> [r \in Qubits |->
                            IF r # work.pivot /\ HasBit(rows[r], column)
                            THEN Product(rows[r], row) ELSE rows[r]],
              query |-> IF HasBit(work.query, column) THEN Product(work.query, row)
                        ELSE work.query,
              pivot |-> work.pivot + 1]

\* pauli_expectation
PauliExpectation(T, pauli) ==
    LET work[k \in 0 .. 2 * N] ==
            IF k = 0
            THEN [rows |-> [i \in Qubits |-> T[N + i]], query |-> pauli, pivot |-> 0]
            ELSE Eliminated(work[k - 1], k - 1)
        rest == work[2 * N].query
    IN  CASE rest = Identity -> 1
          [] rest = [Identity EXCEPT !.phase = 2] -> -1
          [] OTHER -> 0

-----------------------------------------------------------------------------
(* Calls *)

\* new, of both simulators
Init ==
    /\ tableau = [i \in Indices |->
                    IF i < N THEN [x |-> {i}, z |-> {}, phase |-> 0]
                    ELSE [x |-> {}, z |-> {i - N}, phase |-> 0]]
    /\ amplitudes = Ground

ApplyOneQubit(gate, q) ==
    /\ tableau' = [i \in Indices |-> OneQubit(gate, tableau[i], q)]
    /\ amplitudes' = Rotated(amplitudes, gate, q)

ApplyTwoQubit(gate, a, b) ==
    /\ tableau' = [i \in Indices |-> TwoQubit(gate, tableau[i], a, b)]
    /\ amplitudes' = Coupled(amplitudes, gate, a, b)

Measure(q) ==
    \E m \in Measurements(tableau, q) :
        /\ tableau' = m.tableau
        /\ amplitudes' = Projected(amplitudes, q, m.bit)

Reset(q) ==
    \E m \in Measurements(tableau, q) :
        IF m.bit
        THEN /\ tableau' = [i \in Indices |-> ApplyX(m.tableau[i], q)]
             /\ amplitudes' = Rotated(Projected(amplitudes, q, TRUE), "X", q)
        ELSE /\ tableau' = m.tableau
             /\ amplitudes' = Projected(amplitudes, q, FALSE)

Next ==
    \/ \E gate \in OneQubitGates, q \in Qubits : ApplyOneQubit(gate, q)
    \/ \E gate \in TwoQubitGates, a \in Qubits, b \in Qubits :
            a # b /\ ApplyTwoQubit(gate, a, b)
    \/ \E q \in Qubits : Measure(q) \/ Reset(q)

Spec == Init /\ [][Next]_vars

-----------------------------------------------------------------------------
(* Properties *)

Anticommute(g, h) == Cardinality(Clash(g, h)) % 2 = 1

\* What measurement and the queries rely on and no call checks: a row
\* anticommutes with its partner and with no other, and no phase is imaginary.
\* A tableau that loses this still answers, wrongly (measure, rowsum).
Symplectic ==
    /\ tableau \in [Indices -> Paulis]
    /\ \A i \in Indices : tableau[i].phase \in {0, 2}
    /\ \A i, j \in Indices :
            Anticommute(tableau[i], tableau[j]) <=> i = j + N \/ j = i + N

\* After any sequence of gates, measurements and resets the queries say of the
\* state what the amplitudes say: the probability of every outcome and the
\* expectation of every Pauli string, 0 for an imaginary one (probability_of,
\* pauli_expectation against probabilities, expectation_density_matrix).
QueriesAreExact ==
    /\ \A b \in Basis :
            LET answer == ProbabilityOf(tableau, b)
            IN  IF answer.possible
                THEN answer.odds * Weight(amplitudes, b) = TotalWeight(amplitudes)
                ELSE Weight(amplitudes, b) = 0
    /\ \A pauli \in Paulis :
            PauliExpectation(tableau, pauli) * TotalWeight(amplitudes)
                = DensityMatrixExpectation(amplitudes, pauli)

\* The statevector and the stabilizer simulator report the same expectation of
\* every Pauli string (what test_clifford_circuits_match_stabilizer_state
\* asserts of its circuits and observables).
ExpectationsAgree ==
    \A pauli \in Paulis :
        StatevectorExpectation(amplitudes, pauli)
            = PauliExpectation(tableau, pauli) * TotalWeight(amplitudes)

=============================================================================
