----------------------- MODULE StabilizerStateProofs -----------------------
(***************************************************************************)
(* Proofs about the stabilizer simulator for any number of qubits.         *)
(*                                                                         *)
(* Gates, measurements and resets keep the tableau symplectic: everything  *)
(* there is about the parity of Clash, the qubits on which two rows        *)
(* differ, which gates change by nothing or by a pair of qubits, and the   *)
(* product of two rows has the symmetric difference of theirs.             *)
(*                                                                         *)
(* The tableau describes the amplitudes of the statevector simulator: each *)
(* stabilizer fixes them.  A row acts on an amplitude by moving its basis  *)
(* state and turning it by a power of i, so each gate is a rule on the     *)
(* pairs of amplitudes of one qubit; that the stabilizers are independent  *)
(* (the tableau is symplectic) leaves no more than powers of i between the *)
(* amplitudes, which is what makes rescaling them exact.                   *)
(*                                                                         *)
(* The queries are exact: each forced measurement keeps all of the weight  *)
(* or half of it, and the elimination keeps the rows generating the        *)
(* stabilizers and the query doing to the amplitudes what the Pauli string *)
(* does, until nothing but a phase is left of a query in the group.        *)
(***************************************************************************)
EXTENDS StabilizerState, FoldTheorems, FiniteSetTheorems, TLAPS

\* A set with an odd number of elements.
Odd(A) == Cardinality(A) % 2 = 1

-----------------------------------------------------------------------------
(* Parity *)

(* A symmetric difference is odd when one of its sets is and the other not. *)
LEMMA ParityOfSymDiff ==
    ASSUME NEW A, NEW B, IsFiniteSet(A), IsFiniteSet(B)
    PROVE  Odd(SymDiff(A, B)) <=> Xor(Odd(A), Odd(B))
  <1> DEFINE C == A \cap B
  <1>1. /\ IsFiniteSet(A \ B) /\ Cardinality(A \ B) = Cardinality(A) - Cardinality(C)
        /\ IsFiniteSet(B \ A) /\ Cardinality(B \ A) = Cardinality(B) - Cardinality(B \cap A)
    BY FS_Difference
  <1>2. B \cap A = C /\ (A \ B) \cap (B \ A) = {}
    OBVIOUS
  <1>3. Cardinality((A \ B) \cap (B \ A)) = 0
    BY <1>2, FS_EmptySet
  <1>4. Cardinality(SymDiff(A, B)) = Cardinality(A \ B) + Cardinality(B \ A)
    <2>1. Cardinality((A \ B) \cup (B \ A))
            = Cardinality(A \ B) + Cardinality(B \ A) - Cardinality((A \ B) \cap (B \ A))
      BY <1>1, FS_Union
    <2>2. Cardinality(A \ B) \in Nat /\ Cardinality(B \ A) \in Nat
      BY <1>1, FS_CardinalityType
    <2>3. QED
      BY <1>3, <2>1, <2>2 DEF SymDiff
  <1>5. IsFiniteSet(C)
    BY FS_Intersection
  <1> DEFINE a == Cardinality(A)
             b == Cardinality(B)
             c == Cardinality(C)
  <1>6. a \in Nat /\ b \in Nat /\ c \in Nat
    BY <1>5, FS_CardinalityType
  <1>7. Cardinality(SymDiff(A, B)) = a + b - 2 * c
    <2>1. Cardinality(A \ B) = a - c /\ Cardinality(B \ A) = b - c
      BY <1>1, <1>2
    <2> HIDE DEF a, b, c
    <2>2. QED
      BY <1>4, <1>6, <2>1
  <1> HIDE DEF a, b, c
  <1>8. (a + b - 2 * c) % 2 = 1 <=> ~ (a % 2 = 1 <=> b % 2 = 1)
    BY <1>6
  <1>9. QED
    BY <1>7, <1>8 DEF Odd, Xor, a, b

(* Pairs are even, single qubits odd, the empty set even. *)
LEMMA SmallSets ==
    /\ ~ Odd({})
    /\ \A a : Odd({a})
    /\ \A a, b : a # b => ~ Odd({a, b}) /\ IsFiniteSet({a, b})
  <1>1. ~ Odd({})
    BY FS_EmptySet DEF Odd
  <1>2. ASSUME NEW a PROVE Odd({a}) /\ IsFiniteSet({a})
    <2>1. Cardinality({a}) = 1 /\ IsFiniteSet({a})
      BY FS_Singleton
    <2>2. QED
      BY <2>1 DEF Odd
  <1>3. ASSUME NEW a, NEW b, a # b PROVE ~ Odd({a, b}) /\ IsFiniteSet({a, b})
    <2>1. SymDiff({a}, {b}) = {a, b}
      BY <1>3 DEF SymDiff
    <2>2. Odd(SymDiff({a}, {b})) <=> Xor(Odd({a}), Odd({b}))
      BY <1>2, ParityOfSymDiff
    <2>3. IsFiniteSet({a} \cup {b})
      BY <1>2, FS_Union
    <2>4. {a} \cup {b} = {a, b}
      OBVIOUS
    <2>5. QED
      BY <1>2, <2>1, <2>2, <2>3, <2>4 DEF Xor
  <1>4. QED
    BY <1>1, <1>2, <1>3

(* Rows clash on finitely many qubits. *)
LEMMA ClashIsFinite ==
    ASSUME NEW g \in Paulis, NEW h \in Paulis
    PROVE  IsFiniteSet(Clash(g, h)) /\ Clash(g, h) \subseteq Qubits
  <1>1. N \in Nat /\ IsFiniteSet(Qubits)
    BY AtLeastOneQubit, FS_Interval DEF Qubits
  <1>2. Clash(g, h) \subseteq Qubits
    BY DEF Clash, SymDiff, Paulis
  <1>3. QED
    BY <1>1, <1>2, FS_Subset

(* Parity survives a change in two places. *)
LEMMA ParityKept ==
    ASSUME NEW g \in Paulis, NEW h \in Paulis, NEW k \in Paulis, NEW l \in Paulis,
           NEW a, NEW b, a # b,
           \/ Clash(k, l) = Clash(g, h)
           \/ Clash(k, l) = SymDiff(Clash(g, h), {a, b})
    PROVE  Anticommute(k, l) <=> Anticommute(g, h)
  <1>1. IsFiniteSet(Clash(g, h)) /\ IsFiniteSet({a, b})
    BY ClashIsFinite, SmallSets
  <1>2. Odd(SymDiff(Clash(g, h), {a, b})) <=> Odd(Clash(g, h))
    BY <1>1, ParityOfSymDiff, SmallSets DEF Xor
  <1>3. QED
    BY <1>2 DEF Anticommute, Odd

-----------------------------------------------------------------------------
(* Gates *)

Even(row) == row.phase \in {0, 2}

(* k and l are what a gate makes of g and h: still rows, and they           *)
(* anticommute just when g and h do.                                        *)
Keeps(g, h, k, l) ==
    /\ k \in Paulis /\ l \in Paulis
    /\ Even(g) => Even(k)
    /\ Even(h) => Even(l)
    /\ Anticommute(k, l) <=> Anticommute(g, h)

(* k is row with other bits on q, perhaps of the other sign. *)
Local(row, k, q) ==
    /\ k \in Paulis
    /\ Even(row) => Even(k)
    /\ \A j : j # q => (j \in k.x <=> j \in row.x) /\ (j \in k.z <=> j \in row.z)

\* Changing the sign of a phase keeps its type and whether it is real.
LEMMA Flipped ==
    ASSUME NEW phase \in 0 .. 3
    PROVE  /\ (phase + 2) % 4 \in 0 .. 3
           /\ phase \in {0, 2} => (phase + 2) % 4 \in {0, 2}
  OBVIOUS

(* Changing one qubit of both rows keeps the clash if it keeps it there. *)
LEMMA LocalKeeps ==
    ASSUME NEW g, NEW h, NEW k, NEW l, NEW q, Local(g, k, q), Local(h, l, q),
           ((q \in k.x /\ q \in l.z) <=> (q \in k.z /\ q \in l.x))
             <=> ((q \in g.x /\ q \in h.z) <=> (q \in g.z /\ q \in h.x))
    PROVE  Keeps(g, h, k, l)
  <1>1. ASSUME NEW j PROVE j \in Clash(k, l) <=> j \in Clash(g, h)
    BY DEF Local, Clash, SymDiff
  <1>2. Clash(k, l) = Clash(g, h)
    BY <1>1
  <1>3. QED
    BY <1>2 DEF Local, Keeps, Anticommute

\* The parts of a row.
LEMMA RowParts ==
    ASSUME NEW row \in Paulis
    PROVE  row.x \subseteq Qubits /\ row.z \subseteq Qubits /\ row.phase \in 0 .. 3
  BY DEF Paulis

(* No gate on one qubit changes who anticommutes with whom. *)
LEMMA GatesKeep ==
    ASSUME NEW q \in Qubits, NEW g \in Paulis, NEW h \in Paulis
    PROVE
        /\ Keeps(g, h, ApplyH(g, q), ApplyH(h, q))
        /\ Keeps(g, h, ApplyS(g, q), ApplyS(h, q))
        /\ Keeps(g, h, ApplySdg(g, q), ApplySdg(h, q))
        /\ Keeps(g, h, ApplyX(g, q), ApplyX(h, q))
        /\ Keeps(g, h, ApplyY(g, q), ApplyY(h, q))
        /\ Keeps(g, h, ApplyZ(g, q), ApplyZ(h, q))
        /\ Keeps(g, h, ApplyX2P(g, q), ApplyX2P(h, q))
        /\ Keeps(g, h, ApplyX2M(g, q), ApplyX2M(h, q))
        /\ Keeps(g, h, ApplyY2P(g, q), ApplyY2P(h, q))
        /\ Keeps(g, h, ApplyY2M(g, q), ApplyY2M(h, q))
  <1>1. Keeps(g, h, ApplyH(g, q), ApplyH(h, q))
    <2>1. ASSUME NEW row \in Paulis
          PROVE  /\ Local(row, ApplyH(row, q), q)
                 /\ q \in ApplyH(row, q).x <=> q \in row.z
                 /\ q \in ApplyH(row, q).z <=> q \in row.x
      BY RowParts, Flipped DEF Local, Even, ApplyH, Rewritten, With, Signed, Paulis, Xor
    <2>2. QED
      BY <2>1, LocalKeeps DEF Xor
  <1>2. Keeps(g, h, ApplyS(g, q), ApplyS(h, q))
    <2>1. ASSUME NEW row \in Paulis
          PROVE  /\ Local(row, ApplyS(row, q), q)
                 /\ q \in ApplyS(row, q).x <=> q \in row.x
                 /\ q \in ApplyS(row, q).z <=> Xor(q \in row.z, q \in row.x)
      BY RowParts, Flipped DEF Local, Even, ApplyS, Rewritten, With, Signed, Paulis, Xor
    <2>2. QED
      BY <2>1, LocalKeeps DEF Xor
  <1>3. Keeps(g, h, ApplySdg(g, q), ApplySdg(h, q))
    <2>1. ASSUME NEW row \in Paulis
          PROVE  /\ Local(row, ApplySdg(row, q), q)
                 /\ q \in ApplySdg(row, q).x <=> q \in row.x
                 /\ q \in ApplySdg(row, q).z <=> Xor(q \in row.z, q \in row.x)
      BY RowParts, Flipped DEF Local, Even, ApplySdg, Rewritten, With, Signed, Paulis, Xor
    <2>2. QED
      BY <2>1, LocalKeeps DEF Xor
  <1>4. Keeps(g, h, ApplyX(g, q), ApplyX(h, q))
    <2>1. ASSUME NEW row \in Paulis
          PROVE  /\ Local(row, ApplyX(row, q), q)
                 /\ q \in ApplyX(row, q).x <=> q \in row.x
                 /\ q \in ApplyX(row, q).z <=> q \in row.z
      BY RowParts, Flipped DEF Local, Even, ApplyX, Rewritten, With, Signed, Paulis, Xor
    <2>2. QED
      BY <2>1, LocalKeeps DEF Xor
  <1>5. Keeps(g, h, ApplyY(g, q), ApplyY(h, q))
    <2>1. ASSUME NEW row \in Paulis
          PROVE  /\ Local(row, ApplyY(row, q), q)
                 /\ q \in ApplyY(row, q).x <=> q \in row.x
                 /\ q \in ApplyY(row, q).z <=> q \in row.z
      BY RowParts, Flipped DEF Local, Even, ApplyY, Rewritten, With, Signed, Paulis, Xor
    <2>2. QED
      BY <2>1, LocalKeeps DEF Xor
  <1>6. Keeps(g, h, ApplyZ(g, q), ApplyZ(h, q))
    <2>1. ASSUME NEW row \in Paulis
          PROVE  /\ Local(row, ApplyZ(row, q), q)
                 /\ q \in ApplyZ(row, q).x <=> q \in row.x
                 /\ q \in ApplyZ(row, q).z <=> q \in row.z
      BY RowParts, Flipped DEF Local, Even, ApplyZ, Rewritten, With, Signed, Paulis, Xor
    <2>2. QED
      BY <2>1, LocalKeeps DEF Xor
  <1>7. Keeps(g, h, ApplyX2P(g, q), ApplyX2P(h, q))
    <2>1. ASSUME NEW row \in Paulis
          PROVE  /\ Local(row, ApplyX2P(row, q), q)
                 /\ q \in ApplyX2P(row, q).x <=> Xor(q \in row.x, q \in row.z)
                 /\ q \in ApplyX2P(row, q).z <=> q \in row.z
      BY RowParts, Flipped DEF Local, Even, ApplyX2P, Rewritten, With, Signed, Paulis, Xor
    <2>2. QED
      BY <2>1, LocalKeeps DEF Xor
  <1>8. Keeps(g, h, ApplyX2M(g, q), ApplyX2M(h, q))
    <2>1. ASSUME NEW row \in Paulis
          PROVE  /\ Local(row, ApplyX2M(row, q), q)
                 /\ q \in ApplyX2M(row, q).x <=> Xor(q \in row.x, q \in row.z)
                 /\ q \in ApplyX2M(row, q).z <=> q \in row.z
      BY RowParts, Flipped DEF Local, Even, ApplyX2M, Rewritten, With, Signed, Paulis, Xor
    <2>2. QED
      BY <2>1, LocalKeeps DEF Xor
  <1>9. Keeps(g, h, ApplyY2P(g, q), ApplyY2P(h, q))
    <2>1. ASSUME NEW row \in Paulis
          PROVE  /\ Local(row, ApplyY2P(row, q), q)
                 /\ q \in ApplyY2P(row, q).x <=> q \in row.z
                 /\ q \in ApplyY2P(row, q).z <=> q \in row.x
      BY RowParts, Flipped DEF Local, Even, ApplyY2P, Rewritten, With, Signed, Paulis, Xor
    <2>2. QED
      BY <2>1, LocalKeeps DEF Xor
  <1>10. Keeps(g, h, ApplyY2M(g, q), ApplyY2M(h, q))
    <2>1. ASSUME NEW row \in Paulis
          PROVE  /\ Local(row, ApplyY2M(row, q), q)
                 /\ q \in ApplyY2M(row, q).x <=> q \in row.z
                 /\ q \in ApplyY2M(row, q).z <=> q \in row.x
      BY RowParts, Flipped DEF Local, Even, ApplyY2M, Rewritten, With, Signed, Paulis, Xor
    <2>2. QED
      BY <2>1, LocalKeeps DEF Xor
  <1>11. QED
    BY <1>1, <1>2, <1>3, <1>4, <1>5, <1>6, <1>7, <1>8, <1>9, <1>10

\* Gates on one qubit keep which rows anticommute.
LEMMA OneQubitKeeps ==
    ASSUME NEW gate \in OneQubitGates, NEW q \in Qubits,
           NEW g \in Paulis, NEW h \in Paulis
    PROVE  Keeps(g, h, OneQubit(gate, g, q), OneQubit(gate, h, q))
  <1>1. gate \in {"I", "H", "S", "SDG", "X", "Y", "Z", "X2P", "X2M", "Y2P", "Y2M"}
    BY GatesAreClifford
  <1>2. Keeps(g, h, g, h)
    BY DEF Keeps
  <1>3. QED
    BY <1>1, <1>2, GatesKeep DEF OneQubit

(* CX moves bits between two qubits: the clash changes on both or on none. *)
LEMMA CXKeeps ==
    ASSUME NEW c \in Qubits, NEW t \in Qubits, c # t,
           NEW g \in Paulis, NEW h \in Paulis
    PROVE  Keeps(g, h, ApplyCX(g, c, t), ApplyCX(h, c, t))
  <1> DEFINE k == ApplyCX(g, c, t)
             l == ApplyCX(h, c, t)
  <1>1. ASSUME NEW row \in Paulis
        PROVE  /\ ApplyCX(row, c, t) \in Paulis
               /\ Even(row) => Even(ApplyCX(row, c, t))
    BY RowParts, Flipped DEF ApplyCX, Signed, Paulis, Even, SymDiff
  <1>2. ASSUME NEW row \in Paulis, NEW j
        PROVE  /\ j \in ApplyCX(row, c, t).x
                    <=> IF j = t THEN ~ (t \in row.x <=> c \in row.x) ELSE j \in row.x
               /\ j \in ApplyCX(row, c, t).z
                    <=> IF j = c THEN ~ (c \in row.z <=> t \in row.z) ELSE j \in row.z
    BY DEF ApplyCX, SymDiff
  <1>3. k \in Paulis /\ l \in Paulis
    BY <1>1
  <1> DEFINE moved == ~ (c \in g.x /\ t \in h.z <=> t \in g.z /\ c \in h.x)
  <1>4. ASSUME NEW j
        PROVE  j \in Clash(k, l)
                 <=> IF j \in {c, t} /\ moved THEN j \notin Clash(g, h) ELSE j \in Clash(g, h)
    <2> HIDE DEF k, l
    <2>1. /\ j \in k.x <=> IF j = t THEN ~ (t \in g.x <=> c \in g.x) ELSE j \in g.x
          /\ j \in k.z <=> IF j = c THEN ~ (c \in g.z <=> t \in g.z) ELSE j \in g.z
          /\ j \in l.x <=> IF j = t THEN ~ (t \in h.x <=> c \in h.x) ELSE j \in h.x
          /\ j \in l.z <=> IF j = c THEN ~ (c \in h.z <=> t \in h.z) ELSE j \in h.z
      BY <1>2 DEF k, l
    <2>2. QED
      BY <2>1 DEF Clash, SymDiff
  <1>5. \/ Clash(k, l) = Clash(g, h)
        \/ Clash(k, l) = SymDiff(Clash(g, h), {c, t})
    <2>1. CASE moved
      <3>1. Clash(k, l) = SymDiff(Clash(g, h), {c, t})
        BY <1>4, <2>1 DEF SymDiff
      <3>2. QED
        BY <3>1
    <2>2. CASE ~ moved
      BY <1>4, <2>2
    <2>3. QED
      BY <2>1, <2>2
  <1>6. QED
    BY <1>1, <1>3, <1>5, ParityKept DEF Keeps

(* SWAP exchanges what two qubits have, and with it whether they clash. *)
LEMMA SwapKeeps ==
    ASSUME NEW a \in Qubits, NEW b \in Qubits, a # b,
           NEW g \in Paulis, NEW h \in Paulis
    PROVE  Keeps(g, h, ApplySwap(g, a, b), ApplySwap(h, a, b))
  <1> DEFINE k == ApplySwap(g, a, b)
             l == ApplySwap(h, a, b)
  <1>1. ASSUME NEW row \in Paulis
        PROVE  /\ ApplySwap(row, a, b) \in Paulis
               /\ Even(row) => Even(ApplySwap(row, a, b))
    BY RowParts DEF ApplySwap, With, Paulis, Even
  <1>2. ASSUME NEW row \in Paulis, NEW j
        PROVE  /\ j \in ApplySwap(row, a, b).x
                    <=> IF j = a THEN b \in row.x ELSE IF j = b THEN a \in row.x ELSE j \in row.x
               /\ j \in ApplySwap(row, a, b).z
                    <=> IF j = a THEN b \in row.z ELSE IF j = b THEN a \in row.z ELSE j \in row.z
    BY DEF ApplySwap, With
  <1>3. k \in Paulis /\ l \in Paulis
    BY <1>1
  <1>4. ASSUME NEW j
        PROVE  j \in Clash(k, l)
                 <=> IF j = a THEN b \in Clash(g, h)
                     ELSE IF j = b THEN a \in Clash(g, h) ELSE j \in Clash(g, h)
    <2> HIDE DEF k, l
    <2>1. /\ j \in k.x <=> IF j = a THEN b \in g.x ELSE IF j = b THEN a \in g.x ELSE j \in g.x
          /\ j \in k.z <=> IF j = a THEN b \in g.z ELSE IF j = b THEN a \in g.z ELSE j \in g.z
          /\ j \in l.x <=> IF j = a THEN b \in h.x ELSE IF j = b THEN a \in h.x ELSE j \in h.x
          /\ j \in l.z <=> IF j = a THEN b \in h.z ELSE IF j = b THEN a \in h.z ELSE j \in h.z
      BY <1>2 DEF k, l
    <2>2. QED
      BY <2>1 DEF Clash, SymDiff
  <1>5. \/ Clash(k, l) = Clash(g, h)
        \/ Clash(k, l) = SymDiff(Clash(g, h), {a, b})
    <2>1. CASE a \in Clash(g, h) <=> b \in Clash(g, h)
      BY <1>4, <2>1
    <2>2. CASE ~ (a \in Clash(g, h) <=> b \in Clash(g, h))
      <3>1. Clash(k, l) = SymDiff(Clash(g, h), {a, b})
        BY <1>4, <2>2 DEF SymDiff
      <3>2. QED
        BY <3>1
    <2>3. QED
      BY <2>1, <2>2
  <1>6. QED
    BY <1>1, <1>3, <1>5, ParityKept DEF Keeps

\* What two updates in a row keep.
LEMMA KeepsTwice ==
    ASSUME NEW g, NEW h, NEW k, NEW l, NEW p, NEW r,
           Keeps(g, h, k, l), Keeps(k, l, p, r)
    PROVE  Keeps(g, h, p, r)
  BY DEF Keeps

(* CZ and CY are CX between gates on its target. *)
LEMMA TwoQubitKeeps ==
    ASSUME NEW gate \in TwoQubitGates, NEW a \in Qubits, NEW b \in Qubits, a # b,
           NEW g \in Paulis, NEW h \in Paulis
    PROVE  Keeps(g, h, TwoQubit(gate, g, a, b), TwoQubit(gate, h, a, b))
  <1>1. Keeps(g, h, ApplyCZ(g, a, b), ApplyCZ(h, a, b))
    <2> DEFINE g1 == ApplyH(g, b)
               h1 == ApplyH(h, b)
               g2 == ApplyCX(g1, a, b)
               h2 == ApplyCX(h1, a, b)
    <2>1. Keeps(g, h, g1, h1)
      BY GatesKeep
    <2>2. g1 \in Paulis /\ h1 \in Paulis /\ Keeps(g1, h1, g2, h2)
      BY <2>1, CXKeeps DEF Keeps
    <2>3. g2 \in Paulis /\ h2 \in Paulis /\ Keeps(g2, h2, ApplyH(g2, b), ApplyH(h2, b))
      BY <2>2, GatesKeep DEF Keeps
    <2>4. QED
      BY <2>1, <2>2, <2>3, KeepsTwice DEF ApplyCZ
  <1>2. Keeps(g, h, ApplyCY(g, a, b), ApplyCY(h, a, b))
    <2> DEFINE g1 == ApplySdg(g, b)
               h1 == ApplySdg(h, b)
               g2 == ApplyCX(g1, a, b)
               h2 == ApplyCX(h1, a, b)
    <2>1. Keeps(g, h, g1, h1)
      BY GatesKeep
    <2>2. g1 \in Paulis /\ h1 \in Paulis /\ Keeps(g1, h1, g2, h2)
      BY <2>1, CXKeeps DEF Keeps
    <2>3. g2 \in Paulis /\ h2 \in Paulis /\ Keeps(g2, h2, ApplyS(g2, b), ApplyS(h2, b))
      BY <2>2, GatesKeep DEF Keeps
    <2>4. QED
      BY <2>1, <2>2, <2>3, KeepsTwice DEF ApplyCY
  <1>3. QED
    BY <1>1, <1>2, CXKeeps, SwapKeeps, GatesAreClifford DEF TwoQubit

-----------------------------------------------------------------------------
(* Products *)

(* A product anticommutes with what exactly one of its factors does. *)
LEMMA ProductAnticommutes ==
    ASSUME NEW g \in Paulis, NEW h \in Paulis, NEW k \in Paulis, Product(g, h) \in Paulis
    PROVE  Anticommute(Product(g, h), k) <=> Xor(Anticommute(g, k), Anticommute(h, k))
  <1>1. /\ Product(g, h).x = SymDiff(g.x, h.x)
        /\ Product(g, h).z = SymDiff(g.z, h.z)
    BY DEF Product
  <1>2. Clash(Product(g, h), k) = SymDiff(Clash(g, k), Clash(h, k))
    BY <1>1 DEF Clash, SymDiff
  <1>3. QED
    BY <1>2, ClashIsFinite, ParityOfSymDiff DEF Anticommute, Odd

\* Anticommuting is symmetric, and no row anticommutes with itself.
LEMMA AnticommuteSymmetric ==
    ASSUME NEW g, NEW h
    PROVE  /\ Anticommute(g, h) <=> Anticommute(h, g)
           /\ ~ Anticommute(g, g)
  <1>1. Clash(g, h) = Clash(h, g) /\ Clash(g, g) = {}
    BY DEF Clash, SymDiff
  <1>2. QED
    BY <1>1, SmallSets DEF Anticommute, Odd

(* The product of two commuting rows is a row and its phase is not imaginary. *)
LEMMA ProductType ==
    ASSUME NEW g \in Paulis, NEW h \in Paulis
    PROVE  /\ Product(g, h) \in Paulis
           /\ Even(g) /\ Even(h) /\ ~ Anticommute(g, h) => Even(Product(g, h))
  <1> DEFINE c == Cardinality(Clash(g, h))
             d == Cardinality(Cyclic(g, h))
             sum == g.phase + h.phase + 2 * d - c
  <1>1. Cyclic(g, h) \subseteq Qubits /\ IsFiniteSet(Qubits)
    BY RowParts, AtLeastOneQubit, FS_Interval DEF Cyclic, Qubits
  <1>2. c \in Nat /\ d \in Nat
    BY <1>1, FS_Subset, FS_CardinalityType, ClashIsFinite
  <1>3. g.phase \in 0 .. 3 /\ h.phase \in 0 .. 3
    BY RowParts
  <1> HIDE DEF c, d
  <1>4. sum % 4 \in 0 .. 3
    BY <1>2, <1>3
  <1>5. ASSUME g.phase \in {0, 2}, h.phase \in {0, 2}, c % 2 # 1
        PROVE  sum % 4 \in {0, 2}
    BY <1>2, <1>5
  <1>6. Product(g, h) = [x |-> SymDiff(g.x, h.x), z |-> SymDiff(g.z, h.z), phase |-> sum % 4]
    BY DEF Product, c, d
  <1>7. Product(g, h) \in Paulis
    BY <1>4, <1>6, RowParts DEF Paulis, SymDiff
  <1>8. QED
    BY <1>5, <1>6, <1>7 DEF Even, Anticommute, c

-----------------------------------------------------------------------------
(* Tableaux *)

(* What Symplectic says, of any tableau. *)
IsSymplectic(T) ==
    /\ T \in [Indices -> Paulis]
    /\ \A i \in Indices : Even(T[i])
    /\ \A i, j \in Indices : Anticommute(T[i], T[j]) <=> i = j + N \/ j = i + N

\* The invariant as a predicate of the tableau.
LEMMA Restated == Symplectic <=> IsSymplectic(tableau)
  BY DEF Symplectic, IsSymplectic, Even

(* A gate applied to every row. *)
LEMMA GateIsSymplectic ==
    ASSUME NEW T, IsSymplectic(T), NEW U,
           U = [i \in Indices |-> U[i]],
           \A i, j \in Indices : Keeps(T[i], T[j], U[i], U[j])
    PROVE  IsSymplectic(U)
  BY DEF IsSymplectic, Keeps

(* The row put in place of the pivot: Z on the measured qubit. *)
LEMMA MeasuredRow ==
    ASSUME NEW q \in Qubits, NEW bit \in BOOLEAN, NEW row \in Paulis
    PROVE  LET z == [x |-> {}, z |-> {q}, phase |-> IF bit THEN 2 ELSE 0]
           IN  /\ z \in Paulis /\ Even(z)
               /\ Anticommute(z, row) <=> q \in row.x
  <1> DEFINE z == [x |-> {}, z |-> {q}, phase |-> IF bit THEN 2 ELSE 0]
  <1>1. z \in Paulis /\ Even(z)
    BY DEF Paulis, Even
  <1>2. CASE q \in row.x
    <2>1. Clash(z, row) = {q}
      BY <1>2 DEF Clash, SymDiff
    <2>2. QED
      BY <1>1, <1>2, <2>1, SmallSets DEF Anticommute, Odd
  <1>3. CASE q \notin row.x
    <2>1. Clash(z, row) = {}
      BY <1>3 DEF Clash, SymDiff
    <2> HIDE DEF z
    <2>2. ~ Anticommute(z, row)
      BY <2>1, SmallSets DEF Anticommute, Odd
    <2>3. QED
      BY <1>1, <1>3, <2>2 DEF z
  <1>4. QED
    BY <1>2, <1>3

(* The random case of a measurement.  Rows that commute with the pivot are *)
(* multiplied by it at most; its partner, the one that does not, makes way *)
(* for the pivot itself, and the pivot for Z on the measured qubit.        *)
LEMMA CollapseIsSymplectic ==
    ASSUME NEW T, IsSymplectic(T), NEW q \in Qubits, NEW bit \in BOOLEAN,
           NEW p \in Stabilizers, q \in T[p].x
    PROVE  IsSymplectic(Collapsed(T, p, q, bit))
  <1> DEFINE U == Collapsed(T, p, q, bit)
             z == [x |-> {}, z |-> {q}, phase |-> IF bit THEN 2 ELSE 0]
             Others == Indices \ {p, p - N}
             multiplied(i) == q \in T[i].x
  <1>1. /\ N \in Nat \ {0} /\ p \in Indices /\ p - N \in Indices /\ p # p - N
        /\ Indices \subseteq Int
    BY AtLeastOneQubit DEF Stabilizers, Indices
  <1>2. \A i \in Indices : T[i] \in Paulis /\ Even(T[i])
    BY DEF IsSymplectic
  <1>3. \A i, j \in Indices : Anticommute(T[i], T[j]) <=> i = j + N \/ j = i + N
    BY DEF IsSymplectic
  <1>4. /\ U[p] = z
        /\ U[p - N] = T[p]
        /\ \A i \in Others : U[i] = IF multiplied(i) THEN Product(T[i], T[p]) ELSE T[i]
        /\ U = [i \in Indices |-> U[i]]
    BY <1>1 DEF Collapsed
  <1>5. \A row \in Paulis :
            z \in Paulis /\ Even(z) /\ (Anticommute(z, row) <=> q \in row.x)
    BY MeasuredRow
  <1>6. z \in Paulis /\ Even(z)
    BY <1>1, <1>2, <1>5
  <1> HIDE DEF U, z
  <1>7. \A i \in Others : ~ Anticommute(T[i], T[p])
    BY <1>1, <1>3 DEF Indices, Stabilizers
  <1>8. ASSUME NEW i \in Others
        PROVE  /\ U[i] \in Paulis /\ Even(U[i])
               /\ q \notin U[i].x
               /\ \A row \in Paulis :
                    Anticommute(U[i], row) <=>
                        IF multiplied(i) THEN Xor(Anticommute(T[i], row), Anticommute(T[p], row))
                        ELSE Anticommute(T[i], row)
    <2>1. CASE multiplied(i)
      <3>1. U[i] = Product(T[i], T[p])
        BY <1>4, <2>1
      <3>2. U[i] \in Paulis /\ Even(U[i])
        BY <1>1, <1>2, <1>7, <3>1, ProductType
      <3>3. q \notin U[i].x
        BY <2>1, <3>1 DEF Product, SymDiff
      <3>4. QED
        BY <1>1, <1>2, <2>1, <3>1, <3>2, <3>3, ProductAnticommutes
    <2>2. CASE ~ multiplied(i)
      BY <1>2, <1>4, <2>2
    <2>3. QED
      BY <2>1, <2>2
  <1>9. \A i \in Indices : U[i] \in Paulis /\ Even(U[i])
    BY <1>1, <1>2, <1>4, <1>6, <1>8
  <1>10. ASSUME NEW i \in Others
         PROVE  ~ Anticommute(U[i], T[p]) /\ ~ Anticommute(U[i], z)
    <2>1. ~ Anticommute(U[i], T[p])
      BY <1>1, <1>2, <1>7, <1>8, AnticommuteSymmetric DEF Xor
    <2>2. ~ Anticommute(z, U[i])
      BY <1>5, <1>8
    <2>3. QED
      BY <2>1, <2>2, AnticommuteSymmetric
  <1>11. ASSUME NEW i \in Others, NEW j \in Others
         PROVE  Anticommute(U[i], U[j]) <=> Anticommute(T[i], T[j])
    <2>1. Anticommute(U[i], U[j]) <=> Anticommute(T[i], U[j])
      <3>1. ~ Anticommute(T[p], U[j])
        BY <1>10, AnticommuteSymmetric
      <3>2. QED
        BY <1>8, <3>1 DEF Xor
    <2>2. Anticommute(U[j], T[i]) <=> Anticommute(T[j], T[i])
      <3>1. ~ Anticommute(T[p], T[i])
        BY <1>7, AnticommuteSymmetric
      <3>2. T[i] \in Paulis
        BY <1>2
      <3>3. QED
        BY <1>8, <3>1, <3>2 DEF Xor
    <2>3. QED
      BY <2>1, <2>2, AnticommuteSymmetric
  <1>12. Anticommute(z, T[p]) /\ Anticommute(T[p], z)
    BY <1>1, <1>2, <1>5, AnticommuteSymmetric
  <1>13. ASSUME NEW i \in Indices, NEW j \in Indices
         PROVE  Anticommute(U[i], U[j]) <=> i = j + N \/ j = i + N
    <2>1. CASE i \in Others /\ j \in Others
      BY <1>3, <1>11, <2>1
    <2>2. CASE i \in Others /\ j \in {p, p - N}
      <3>1. ~ Anticommute(U[i], U[j])
        BY <1>4, <1>10, <2>2
      <3>2. ~ (i = j + N \/ j = i + N)
        BY <1>1, <2>2 DEF Indices, Stabilizers
      <3>3. QED
        BY <3>1, <3>2
    <2>3. CASE i \in {p, p - N} /\ j \in Others
      <3>1. ~ Anticommute(U[i], U[j])
        BY <1>4, <1>10, <2>3, AnticommuteSymmetric
      <3>2. ~ (i = j + N \/ j = i + N)
        BY <1>1, <2>3 DEF Indices, Stabilizers
      <3>3. QED
        BY <3>1, <3>2
    <2>4. CASE i \in {p, p - N} /\ j \in {p, p - N}
      <3>1. CASE i = j
        BY <1>1, <3>1, AnticommuteSymmetric
      <3>2. CASE i # j
        <4>1. Anticommute(U[i], U[j])
          BY <1>4, <1>12, <2>4, <3>2
        <4>2. i = j + N \/ j = i + N
          BY <1>1, <2>4, <3>2
        <4>3. QED
          BY <4>1, <4>2
      <3>3. QED
        BY <3>1, <3>2
    <2>5. QED
      BY <2>1, <2>2, <2>3, <2>4
  <1>14. U \in [Indices -> Paulis]
    BY <1>4, <1>9
  <1>15. QED
    BY <1>9, <1>13, <1>14 DEF IsSymplectic, U

(* Whatever a measurement reads. *)
LEMMA MeasurementIsSymplectic ==
    ASSUME NEW T, IsSymplectic(T), NEW q \in Qubits, NEW m \in Measurements(T, q)
    PROVE  IsSymplectic(m.tableau)
  <1>1. CASE Pivots(T, q) = {}
    BY <1>1 DEF Measurements
  <1>2. CASE Pivots(T, q) # {}
    <2>1. PICK b \in BOOLEAN, p \in Pivots(T, q) :
            m = [bit |-> b, tableau |-> Collapsed(T, p, q, b)]
      BY <1>2 DEF Measurements
    <2>2. p \in Stabilizers /\ q \in T[p].x
      BY DEF Pivots
    <2>3. QED
      BY <2>1, <2>2, CollapseIsSymplectic
  <1>3. QED
    BY <1>1, <1>2

-----------------------------------------------------------------------------
(* The specification *)

\* The rows of |0...0> are paired.
LEMMA InitSymplectic == Init => Symplectic
  <1> SUFFICES ASSUME Init PROVE IsSymplectic(tableau)
    BY Restated
  <1>1. N \in Nat \ {0} /\ Indices \subseteq Int
    BY AtLeastOneQubit DEF Indices
  <1>2. ASSUME NEW i \in Indices
        PROVE  /\ tableau[i].x = IF i < N THEN {i} ELSE {}
               /\ tableau[i].z = IF i < N THEN {} ELSE {i - N}
               /\ tableau[i].phase = 0
               /\ tableau[i] \in Paulis
    <2>1. CASE i < N
      <3>1. tableau[i] = [x |-> {i}, z |-> {}, phase |-> 0] /\ i \in Qubits
        BY <1>1, <2>1 DEF Init, Indices, Qubits
      <3>2. QED
        BY <2>1, <3>1 DEF Paulis
    <2>2. CASE ~ i < N
      <3>1. tableau[i] = [x |-> {}, z |-> {i - N}, phase |-> 0] /\ i - N \in Qubits
        BY <1>1, <2>2 DEF Init, Indices, Qubits
      <3>2. QED
        BY <2>2, <3>1 DEF Paulis
    <2>3. QED
      BY <2>1, <2>2
  <1>3. ASSUME NEW i \in Indices, NEW j \in Indices
        PROVE  Anticommute(tableau[i], tableau[j]) <=> i = j + N \/ j = i + N
    <2>1. ASSUME NEW k
          PROVE  k \in Clash(tableau[i], tableau[j])
                   <=> \/ i < N /\ ~ j < N /\ k = i /\ k = j - N
                       \/ j < N /\ ~ i < N /\ k = j /\ k = i - N
      <3>1. /\ k \in tableau[i].x <=> i < N /\ k = i
            /\ k \in tableau[i].z <=> ~ i < N /\ k = i - N
            /\ k \in tableau[j].x <=> j < N /\ k = j
            /\ k \in tableau[j].z <=> ~ j < N /\ k = j - N
        BY <1>2
      <3>2. QED
        BY <3>1 DEF Clash, SymDiff
    <2>2. i \in Int /\ j \in Int /\ 0 <= i /\ 0 <= j /\ i < 2 * N /\ j < 2 * N
      BY <1>1 DEF Indices
    <2>3. CASE i = j + N
      <3>1. Clash(tableau[i], tableau[j]) = {j}
        BY <1>1, <2>1, <2>2, <2>3
      <3>2. QED
        BY <2>3, <3>1, SmallSets DEF Anticommute, Odd
    <2>4. CASE j = i + N
      <3>1. Clash(tableau[i], tableau[j]) = {i}
        BY <1>1, <2>1, <2>2, <2>4
      <3>2. QED
        BY <2>4, <3>1, SmallSets DEF Anticommute, Odd
    <2>5. CASE ~ (i = j + N \/ j = i + N)
      <3>1. Clash(tableau[i], tableau[j]) = {}
        BY <1>1, <2>1, <2>2, <2>5
      <3>2. QED
        BY <2>5, <3>1, SmallSets DEF Anticommute, Odd
    <2>6. QED
      BY <2>3, <2>4, <2>5
  <1>4. tableau \in [Indices -> Paulis]
    BY <1>2 DEF Init
  <1>5. QED
    BY <1>2, <1>3, <1>4 DEF IsSymplectic, Even

\* Every call keeps the rows paired.
LEMMA StepSymplectic == Symplectic /\ [Next]_vars => Symplectic'
  <1> SUFFICES ASSUME Symplectic, [Next]_vars PROVE IsSymplectic(tableau')
    BY DEF Symplectic, IsSymplectic, Even
  <1>1. IsSymplectic(tableau) /\ \A i \in Indices : tableau[i] \in Paulis
    BY Restated DEF IsSymplectic
  <1>2. ASSUME NEW gate \in OneQubitGates, NEW q \in Qubits, ApplyOneQubit(gate, q)
        PROVE  IsSymplectic(tableau')
    <2>1. \A i, j \in Indices : Keeps(tableau[i], tableau[j], tableau'[i], tableau'[j])
      BY <1>1, <1>2, OneQubitKeeps DEF ApplyOneQubit
    <2>2. QED
      BY <1>1, <1>2, <2>1, GateIsSymplectic DEF ApplyOneQubit
  <1>3. ASSUME NEW gate \in TwoQubitGates, NEW a \in Qubits, NEW b \in Qubits, a # b,
               ApplyTwoQubit(gate, a, b)
        PROVE  IsSymplectic(tableau')
    <2>1. \A i, j \in Indices : Keeps(tableau[i], tableau[j], tableau'[i], tableau'[j])
      BY <1>1, <1>3, TwoQubitKeeps DEF ApplyTwoQubit
    <2>2. QED
      BY <1>1, <1>3, <2>1, GateIsSymplectic DEF ApplyTwoQubit
  <1>4. ASSUME NEW q \in Qubits, Measure(q)
        PROVE  IsSymplectic(tableau')
    BY <1>1, <1>4, MeasurementIsSymplectic DEF Measure
  <1>5. ASSUME NEW q \in Qubits, Reset(q)
        PROVE  IsSymplectic(tableau')
    <2>1. PICK m \in Measurements(tableau, q) :
            \/ tableau' = [i \in Indices |-> ApplyX(m.tableau[i], q)]
            \/ tableau' = m.tableau
      BY <1>5 DEF Reset
    <2>2. IsSymplectic(m.tableau) /\ \A i \in Indices : m.tableau[i] \in Paulis
      BY <1>1, MeasurementIsSymplectic DEF IsSymplectic
    <2>3. CASE tableau' = [i \in Indices |-> ApplyX(m.tableau[i], q)]
      <3>1. \A i, j \in Indices : Keeps(m.tableau[i], m.tableau[j], tableau'[i], tableau'[j])
        BY <2>2, <2>3, GatesKeep
      <3>2. QED
        BY <2>2, <2>3, <3>1, GateIsSymplectic
    <2>4. QED
      BY <2>1, <2>2, <2>3
  <1>6. CASE UNCHANGED vars
    BY <1>1, <1>6 DEF vars
  <1>7. QED
    BY <1>2, <1>3, <1>4, <1>5, <1>6 DEF Next

(* Destabilizers and stabilizers stay paired and no phase becomes imaginary *)
(* however often gates, measurements and resets are called, for any number  *)
(* of qubits (measure, reset, rowsum and the gates).                        *)
THEOREM TableauSymplectic == Spec => []Symplectic
  BY InitSymplectic, StepSymplectic, PTL DEF Spec

-----------------------------------------------------------------------------
(* Turning amplitudes by powers of i *)

Complex == Int \X Int

\* a times i^k
Turned(a, k) ==
    CASE k % 4 = 0 -> a
      [] k % 4 = 1 -> <<-a[2], a[1]>>
      [] k % 4 = 2 -> <<-a[1], -a[2]>>
      [] k % 4 = 3 -> <<a[2], -a[1]>>

\* Minus zero is zero.
LEMMA MinusZero == -0 = 0
  <1>1. 0 \in Int /\ 0 <= 0 /\ 0 >= 0
    OBVIOUS
  <1>2. \A t \in Int : t <= 0 /\ t >= 0 => -t = t
    OBVIOUS
  <1> QED BY <1>1, <1>2, Zenon

\* The parts of a Gaussian integer.
LEMMA ComplexParts ==
    ASSUME NEW a \in Complex
    PROVE  a[1] \in Int /\ a[2] \in Int /\ a = <<a[1], a[2]>>
  BY DEF Complex

\* A turn by its case.
LEMMA Turns ==
    ASSUME NEW a, NEW k \in Int
    PROVE  \/ k % 4 = 0 /\ Turned(a, k) = a
           \/ k % 4 = 1 /\ Turned(a, k) = <<-a[2], a[1]>>
           \/ k % 4 = 2 /\ Turned(a, k) = <<-a[1], -a[2]>>
           \/ k % 4 = 3 /\ Turned(a, k) = <<a[2], -a[1]>>
  <1>1. k % 4 = 0 \/ k % 4 = 1 \/ k % 4 = 2 \/ k % 4 = 3
    OBVIOUS
  <1> QED BY <1>1 DEF Turned

\* The turns by less than a full one.
LEMMA TurnedConstants ==
    ASSUME NEW a
    PROVE  /\ Turned(a, 0) = a
           /\ Turned(a, 1) = <<-a[2], a[1]>>
           /\ Turned(a, 2) = <<-a[1], -a[2]>>
           /\ Turned(a, 3) = <<a[2], -a[1]>>
  <1>1. 0 % 4 = 0 /\ 1 % 4 = 1 /\ 2 % 4 = 2 /\ 3 % 4 = 3
    OBVIOUS
  <1> QED BY <1>1 DEF Turned

\* Turns, by the parts of the amplitude.
LEMMA TurnedPair ==
    ASSUME NEW p \in Int, NEW r \in Int
    PROVE  /\ Turned(<<p, r>>, 1) = <<-r, p>>
           /\ Turned(<<p, r>>, 2) = <<-p, -r>>
           /\ Turned(<<p, r>>, 3) = <<r, -p>>
  <1>1. <<p, r>>[1] = p /\ <<p, r>>[2] = r
    OBVIOUS
  <1> QED BY <1>1, TurnedConstants

\* An amplitude turned is one.
LEMMA TurnedType ==
    ASSUME NEW a \in Complex, NEW k \in Int
    PROVE  Turned(a, k) \in Complex
  <1>1. /\ <<-a[2], a[1]>> \in Complex /\ <<-a[1], -a[2]>> \in Complex /\ <<a[2], -a[1]>> \in Complex
    BY DEF Complex
  <1> QED BY <1>1, Turns

\* Exponents that differ by a multiple of four turn alike.
LEMMA TurnedSame ==
    ASSUME NEW a, NEW j \in Int, NEW k \in Int, (j - k) % 4 = 0
    PROVE  Turned(a, j) = Turned(a, k)
  <1>1. j % 4 = k % 4
    OBVIOUS
  <1> QED BY <1>1 DEF Turned

\* Two turns are one.
LEMMA TurnedSum ==
    ASSUME NEW a \in Complex, NEW j \in Int, NEW k \in Int
    PROVE  Turned(Turned(a, j), k) = Turned(a, j + k)
  <1>1. PICK r \in Int, s \in Int : a = <<r, s>>
    BY DEF Complex
  <1>2. \A t \in Int : - (- t) = t
    OBVIOUS
  <1>3. CASE j % 4 = 0
    <2>1. (j + k) % 4 = k % 4
      BY <1>3
    <2> QED BY <1>1, <1>3, <2>1 DEF Turned
  <1>4. CASE j % 4 = 1
    <2>1. Turned(a, j) = <<-s, r>>
      BY <1>1, <1>4 DEF Turned
    <2>2. CASE k % 4 = 0
      <3>1. (j + k) % 4 = 1
        BY <1>4, <2>2
      <3> QED BY <1>1, <2>1, <2>2, <3>1 DEF Turned
    <2>3. CASE k % 4 = 1
      <3>1. (j + k) % 4 = 2
        BY <1>4, <2>3
      <3> QED BY <1>1, <1>2, <2>1, <2>3, <3>1 DEF Turned
    <2>4. CASE k % 4 = 2
      <3>1. (j + k) % 4 = 3
        BY <1>4, <2>4
      <3> QED BY <1>1, <1>2, <2>1, <2>4, <3>1 DEF Turned
    <2>5. CASE k % 4 = 3
      <3>1. (j + k) % 4 = 0
        BY <1>4, <2>5
      <3> QED BY <1>1, <1>2, <2>1, <2>5, <3>1 DEF Turned
    <2>6. k % 4 = 0 \/ k % 4 = 1 \/ k % 4 = 2 \/ k % 4 = 3
      OBVIOUS
    <2> QED BY <2>2, <2>3, <2>4, <2>5, <2>6
  <1>5. CASE j % 4 = 2
    <2>1. Turned(a, j) = <<-r, -s>>
      BY <1>1, <1>5 DEF Turned
    <2>2. CASE k % 4 = 0
      <3>1. (j + k) % 4 = 2
        BY <1>5, <2>2
      <3> QED BY <1>1, <2>1, <2>2, <3>1 DEF Turned
    <2>3. CASE k % 4 = 1
      <3>1. (j + k) % 4 = 3
        BY <1>5, <2>3
      <3> QED BY <1>1, <1>2, <2>1, <2>3, <3>1 DEF Turned
    <2>4. CASE k % 4 = 2
      <3>1. (j + k) % 4 = 0
        BY <1>5, <2>4
      <3> QED BY <1>1, <1>2, <2>1, <2>4, <3>1 DEF Turned
    <2>5. CASE k % 4 = 3
      <3>1. (j + k) % 4 = 1
        BY <1>5, <2>5
      <3> QED BY <1>1, <1>2, <2>1, <2>5, <3>1 DEF Turned
    <2>6. k % 4 = 0 \/ k % 4 = 1 \/ k % 4 = 2 \/ k % 4 = 3
      OBVIOUS
    <2> QED BY <2>2, <2>3, <2>4, <2>5, <2>6
  <1>6. CASE j % 4 = 3
    <2>1. Turned(a, j) = <<s, -r>>
      BY <1>1, <1>6 DEF Turned
    <2>2. CASE k % 4 = 0
      <3>1. (j + k) % 4 = 3
        BY <1>6, <2>2
      <3> QED BY <1>1, <2>1, <2>2, <3>1 DEF Turned
    <2>3. CASE k % 4 = 1
      <3>1. (j + k) % 4 = 0
        BY <1>6, <2>3
      <3> QED BY <1>1, <1>2, <2>1, <2>3, <3>1 DEF Turned
    <2>4. CASE k % 4 = 2
      <3>1. (j + k) % 4 = 1
        BY <1>6, <2>4
      <3> QED BY <1>1, <1>2, <2>1, <2>4, <3>1 DEF Turned
    <2>5. CASE k % 4 = 3
      <3>1. (j + k) % 4 = 2
        BY <1>6, <2>5
      <3> QED BY <1>1, <1>2, <2>1, <2>5, <3>1 DEF Turned
    <2>6. k % 4 = 0 \/ k % 4 = 1 \/ k % 4 = 2 \/ k % 4 = 3
      OBVIOUS
    <2> QED BY <2>2, <2>3, <2>4, <2>5, <2>6
  <1>7. j % 4 = 0 \/ j % 4 = 1 \/ j % 4 = 2 \/ j % 4 = 3
    OBVIOUS
  <1> QED BY <1>3, <1>4, <1>5, <1>6, <1>7

\* A sum of amplitudes is one.
LEMMA PlusParts ==
    ASSUME NEW a \in Complex, NEW b \in Complex
    PROVE  Plus(a, b) \in Complex
  BY DEF Plus, Complex

\* A sum is turned by turning its parts.
LEMMA TurnedPlus ==
    ASSUME NEW a \in Complex, NEW b \in Complex, NEW k \in Int
    PROVE  Turned(Plus(a, b), k) = Plus(Turned(a, k), Turned(b, k))
  <1>1. PICK r \in Int, s \in Int : a = <<r, s>>
    BY DEF Complex
  <1>2. PICK t \in Int, u \in Int : b = <<t, u>>
    BY DEF Complex
  <1>3. Plus(a, b) = <<r + t, s + u>>
    BY <1>1, <1>2 DEF Plus
  <1>4. /\ -(r + t) = (-r) + (-t) /\ -(s + u) = (-s) + (-u)
    OBVIOUS
  <1>5. k % 4 = 0 \/ k % 4 = 1 \/ k % 4 = 2 \/ k % 4 = 3
    OBVIOUS
  <1> QED BY <1>1, <1>2, <1>3, <1>4, <1>5 DEF Turned, Plus

\* Only zero turns to zero.
LEMMA TurnedZero ==
    ASSUME NEW a \in Complex, NEW k \in Int
    PROVE  /\ Zero \in Complex
           /\ Turned(Zero, k) = Zero
           /\ Turned(a, k) = Zero => a = Zero
  <1>1. PICK r \in Int, s \in Int : a = <<r, s>>
    BY DEF Complex
  <1>2. Zero \in Complex
    <2>1. <<0, 0>> \in Int \X Int
      OBVIOUS
    <2> QED BY <2>1 DEF Zero, Complex
  <1>3. -0 = 0
    BY MinusZero
  <1>4. k % 4 = 0 \/ k % 4 = 1 \/ k % 4 = 2 \/ k % 4 = 3
    OBVIOUS
  <1>5. Turned(Zero, k) = Zero
    BY <1>3, <1>4 DEF Turned, Zero
  <1>6. \A t \in Int : -t = 0 => t = 0
    OBVIOUS
  <1>7. Turned(a, k) = Zero => a = Zero
    BY <1>1, <1>4, <1>6 DEF Turned, Zero
  <1> QED BY <1>2, <1>5, <1>7

\* The entries of the matrices turn what they are multiplied with, or clear it.
LEMMA Entries ==
    ASSUME NEW a \in Complex
    PROVE  /\ Times(One, a) = a
           /\ Times(Zero, a) = Zero
           /\ Times(ImaginaryUnit, a) = Turned(a, 1)
           /\ Times(Minus(One), a) = Turned(a, 2)
           /\ Times(Minus(ImaginaryUnit), a) = Turned(a, 3)
           /\ Plus(a, Zero) = a /\ Plus(Zero, a) = a
  <1>1. PICK r \in Int, s \in Int : a = <<r, s>>
    BY DEF Complex
  <1>2. \A t \in Int : /\ 1 * t = t /\ 0 * t = 0 /\ t + 0 = t /\ 0 + t = t
                       /\ t - 0 = t /\ 0 - t = -t
    OBVIOUS
  <1>3. \A t \in Int : (-1) * t = -t /\ (-0) * t = 0 /\ 0 - (-t) = t
    OBVIOUS
  <1>4. \A t \in Int : (-t) - 0 = -t /\ (-t) + 0 = -t /\ 0 + (-t) = -t
    OBVIOUS
  <1>5. -0 = 0 /\ 0 + 0 = 0 /\ 0 - 0 = 0
    <2>1. 0 + 0 = 0 /\ 0 - 0 = 0
      OBVIOUS
    <2> QED BY <2>1, MinusZero
  <1>6. Times(One, a) = <<r, s>> /\ Times(Zero, a) = <<0, 0>>
    BY <1>1, <1>2, <1>3, <1>4, <1>5 DEF Times, One, Zero
  <1>7. Times(ImaginaryUnit, a) = <<-s, r>>
    BY <1>1, <1>2, <1>3, <1>4, <1>5 DEF Times, ImaginaryUnit
  <1>8. Times(Minus(One), a) = <<-r, -s>>
    BY <1>1, <1>2, <1>3, <1>4, <1>5 DEF Times, One, Minus
  <1>9. Times(Minus(ImaginaryUnit), a) = <<s, -r>>
    BY <1>1, <1>2, <1>3, <1>4, <1>5 DEF Times, ImaginaryUnit, Minus
  <1>10. Plus(a, Zero) = a /\ Plus(Zero, a) = a
    BY <1>1, <1>2, <1>3, <1>4, <1>5 DEF Plus, Zero
  <1> QED BY <1>1, <1>6, <1>7, <1>8, <1>9, <1>10, TurnedConstants DEF Zero

-----------------------------------------------------------------------------
(* Counting *)

Bit(p) == IF p THEN 1 ELSE 0

\* The elements of S among the first n qubits.
Count(S, n) == Cardinality(S \cap (0 .. n - 1))

\* The sets of qubits are finite.
LEMMA QubitsFinite ==
    /\ N \in Nat /\ N >= 1 /\ IsFiniteSet(Qubits)
    /\ \A S \in SUBSET Qubits : IsFiniteSet(S) /\ Cardinality(S) \in Nat
  <1>1. N \in Nat /\ N >= 1
    BY AtLeastOneQubit
  <1>2. IsFiniteSet(Qubits)
    BY <1>1, FS_Interval DEF Qubits
  <1>3. ASSUME NEW S \in SUBSET Qubits PROVE IsFiniteSet(S) /\ Cardinality(S) \in Nat
    BY <1>2, FS_Subset, FS_CardinalityType
  <1> QED BY <1>1, <1>2, <1>3

\* Counting one qubit further.
LEMMA CountNext ==
    ASSUME NEW S, NEW n \in Nat
    PROVE  /\ Count(S, n) \in Nat /\ Count(S, 0) = 0
           /\ Count(S, n + 1) = Count(S, n) + Bit(n \in S)
  <1>1. IsFiniteSet(0 .. n - 1)
    BY FS_Interval
  <1>2. IsFiniteSet(S \cap (0 .. n - 1))
    BY <1>1, FS_Intersection
  <1>3. S \cap (0 .. 0 - 1) = {}
    OBVIOUS
  <1>4. Count(S, n) \in Nat /\ Count(S, 0) = 0
    BY <1>2, <1>3, FS_CardinalityType, FS_EmptySet DEF Count
  <1>5. CASE n \in S
    <2>1. S \cap (0 .. (n + 1) - 1) = (S \cap (0 .. n - 1)) \cup {n} /\ n \notin S \cap (0 .. n - 1)
      BY <1>5
    <2> QED BY <1>2, <1>5, <1>4, <2>1, FS_AddElement DEF Count, Bit
  <1>6. CASE n \notin S
    <2>1. S \cap (0 .. (n + 1) - 1) = S \cap (0 .. n - 1)
      BY <1>6
    <2>2. Count(S, n + 1) = Count(S, n) /\ Bit(n \in S) = 0
      BY <1>6, <2>1 DEF Count, Bit
    <2> QED BY <1>4, <2>2
  <1> QED BY <1>5, <1>6

\* Counting all qubits gives the size of a set.
LEMMA CountAll ==
    ASSUME NEW S \in SUBSET Qubits
    PROVE  Count(S, N) = Cardinality(S)
  <1>1. S \cap (0 .. N - 1) = S
    BY DEF Qubits
  <1> QED BY <1>1 DEF Count

\* A set of qubits is counted with one of them apart.
LEMMA CountApart ==
    ASSUME NEW S \in SUBSET Qubits, NEW q
    PROVE  /\ Cardinality(S) = Cardinality(S \ {q}) + Bit(q \in S)
           /\ Cardinality(S \ {q}) \in Nat /\ Cardinality(S) \in Nat
  <1>1. IsFiniteSet(S) /\ Cardinality(S) \in Nat
    BY QubitsFinite
  <1>2. IsFiniteSet(S \ {q}) /\ Cardinality(S \ {q}) = IF q \in S THEN Cardinality(S) - 1 ELSE Cardinality(S)
    BY <1>1, FS_RemoveElement
  <1>3. Cardinality(S \ {q}) \in Nat
    BY <1>2, FS_CardinalityType
  <1> QED BY <1>1, <1>2, <1>3 DEF Bit

-----------------------------------------------------------------------------
(* Rows that fix a state *)

\* Row g takes basis state b to i^Exponent(g, b) times the one with g.x flipped.
Exponent(g, b) == g.phase + Cardinality(g.x \cap g.z) + 2 * Cardinality(b \cap g.z)

\* psi is an eigenvector of row g, of eigenvalue 1.
Fixes(g, psi) == \A b \in Basis : psi[SymDiff(b, g.x)] = Turned(psi[b], Exponent(g, b))

\* The type of an exponent and of the basis state a row moves to.
LEMMA ExponentType ==
    ASSUME NEW g \in Paulis, NEW b \in Basis
    PROVE  Exponent(g, b) \in Nat /\ SymDiff(b, g.x) \in Basis
  <1>1. g.phase \in Nat /\ g.x \cap g.z \in SUBSET Qubits /\ b \cap g.z \in SUBSET Qubits
    BY RowParts DEF Basis
  <1>2. Cardinality(g.x \cap g.z) \in Nat /\ Cardinality(b \cap g.z) \in Nat
    BY <1>1, QubitsFinite
  <1>3. SymDiff(b, g.x) \in Basis
    BY RowParts DEF Basis, SymDiff
  <1> QED BY <1>1, <1>2, <1>3 DEF Exponent

\* The exponent of a product, by counting qubit by qubit what rowsum adds up.
LEMMA ProductExponent ==
    ASSUME NEW g \in Paulis, NEW h \in Paulis, NEW b \in Basis
    PROVE  (Exponent(Product(g, h), b) - (Exponent(g, SymDiff(b, h.x)) + Exponent(h, b))) % 4 = 0
  <1> DEFINE k == Product(g, h)
             c == SymDiff(b, h.x)
             X == SymDiff(g.x, h.x)
             Z == SymDiff(g.z, h.z)
             D(n) == 2 * Count(Cyclic(g, h), n) - Count(Clash(g, h), n) + Count(X \cap Z, n)
                       + 2 * Count(b \cap Z, n) - Count(g.x \cap g.z, n) - 2 * Count(c \cap g.z, n)
                       - Count(h.x \cap h.z, n) - 2 * Count(b \cap h.z, n)
             S == {n \in Nat : D(n) % 4 = 0}
  <1>1. /\ g.x \in SUBSET Qubits /\ g.z \in SUBSET Qubits /\ g.phase \in 0 .. 3
        /\ h.x \in SUBSET Qubits /\ h.z \in SUBSET Qubits /\ h.phase \in 0 .. 3
        /\ b \in SUBSET Qubits
    BY RowParts DEF Basis
  <1>2. 0 \in S
    <2>1. D(0) = 0
      BY CountNext
    <2> QED BY <2>1
  <1>3. ASSUME NEW n \in 1 .. N, n - 1 \in S PROVE n \in S
    <2> DEFINE q == n - 1
    <2>1. q \in Nat /\ D(q) % 4 = 0 /\ q + 1 = n
      BY <1>3, QubitsFinite
    <2> HIDE DEF q
    <2>2. D(q) \in Int
      BY <2>1, CountNext
    <2> DEFINE d == 2 * Bit(q \in Cyclic(g, h)) - Bit(q \in Clash(g, h)) + Bit(q \in X \cap Z)
                      + 2 * Bit(q \in b \cap Z) - Bit(q \in g.x \cap g.z) - 2 * Bit(q \in c \cap g.z)
                      - Bit(q \in h.x \cap h.z) - 2 * Bit(q \in b \cap h.z)
    <2>3. \A p : Bit(p) \in Int
      BY DEF Bit
    <2>4. D(q + 1) = D(q) + d /\ d \in Int
      <3>1. \A T : Count(T, q) \in Int /\ Count(T, q + 1) = Count(T, q) + Bit(q \in T)
        BY <2>1, CountNext
      <3> HIDE DEF X, Z, c
      <3>2. Count(Cyclic(g, h), q) \in Int /\ Count(Cyclic(g, h), q + 1) = Count(Cyclic(g, h), q) + Bit(q \in Cyclic(g, h)) /\ Bit(q \in Cyclic(g, h)) \in Int
        BY <2>3, <3>1
      <3>3. Count(Clash(g, h), q) \in Int /\ Count(Clash(g, h), q + 1) = Count(Clash(g, h), q) + Bit(q \in Clash(g, h)) /\ Bit(q \in Clash(g, h)) \in Int
        BY <2>3, <3>1
      <3>4. Count(X \cap Z, q) \in Int /\ Count(X \cap Z, q + 1) = Count(X \cap Z, q) + Bit(q \in X \cap Z) /\ Bit(q \in X \cap Z) \in Int
        BY <2>3, <3>1
      <3>5. Count(b \cap Z, q) \in Int /\ Count(b \cap Z, q + 1) = Count(b \cap Z, q) + Bit(q \in b \cap Z) /\ Bit(q \in b \cap Z) \in Int
        BY <2>3, <3>1
      <3>6. Count(g.x \cap g.z, q) \in Int /\ Count(g.x \cap g.z, q + 1) = Count(g.x \cap g.z, q) + Bit(q \in g.x \cap g.z) /\ Bit(q \in g.x \cap g.z) \in Int
        BY <2>3, <3>1
      <3>7. Count(c \cap g.z, q) \in Int /\ Count(c \cap g.z, q + 1) = Count(c \cap g.z, q) + Bit(q \in c \cap g.z) /\ Bit(q \in c \cap g.z) \in Int
        BY <2>3, <3>1
      <3>8. Count(h.x \cap h.z, q) \in Int /\ Count(h.x \cap h.z, q + 1) = Count(h.x \cap h.z, q) + Bit(q \in h.x \cap h.z) /\ Bit(q \in h.x \cap h.z) \in Int
        BY <2>3, <3>1
      <3>9. Count(b \cap h.z, q) \in Int /\ Count(b \cap h.z, q + 1) = Count(b \cap h.z, q) + Bit(q \in b \cap h.z) /\ Bit(q \in b \cap h.z) \in Int
        BY <2>3, <3>1
      <3> HIDE DEF Count, Bit
      <3> QED BY <3>2, <3>3, <3>4, <3>5, <3>6, <3>7, <3>8, <3>9
    <2>5. d \in {-4, 0, 4}
      <3>1. /\ q \in Cyclic(g, h) <=> (q \in g.x /\ q \in h.z /\ Xor(q \in g.z, q \in h.x))
                                        \/ (q \in g.z /\ ~ (q \in g.x) /\ q \in h.x /\ ~ (q \in h.z))
            /\ q \in Clash(g, h) <=> Xor(q \in g.x /\ q \in h.z, q \in g.z /\ q \in h.x)
        BY DEF Cyclic, Clash, SymDiff, Xor
      <3>2. /\ q \in X \cap Z <=> Xor(q \in g.x, q \in h.x) /\ Xor(q \in g.z, q \in h.z)
            /\ q \in b \cap Z <=> q \in b /\ Xor(q \in g.z, q \in h.z)
            /\ q \in c \cap g.z <=> Xor(q \in b, q \in h.x) /\ q \in g.z
            /\ q \in g.x \cap g.z <=> q \in g.x /\ q \in g.z
            /\ q \in h.x \cap h.z <=> q \in h.x /\ q \in h.z
            /\ q \in b \cap h.z <=> q \in b /\ q \in h.z
        BY DEF SymDiff, Xor
      <3> HIDE DEF X, Z, c
      <3> QED BY <3>1, <3>2 DEF Bit, Xor
    <2> HIDE DEF D, d
    <2>6. D(n) % 4 = 0
      BY <2>1, <2>2, <2>4, <2>5
    <2> QED BY <2>1, <2>6
  <1>4. N \in S
    <2> HIDE DEF S
    <2> QED BY <1>2, <1>3, CountUp, QubitsFinite
  <1>5. /\ k.x = X /\ k.z = Z
        /\ k.phase = (g.phase + h.phase + 2 * Cardinality(Cyclic(g, h)) - Cardinality(Clash(g, h))) % 4
    BY DEF Product
  <1>6. /\ Cyclic(g, h) \in SUBSET Qubits /\ Clash(g, h) \in SUBSET Qubits /\ X \cap Z \in SUBSET Qubits
        /\ b \cap Z \in SUBSET Qubits /\ g.x \cap g.z \in SUBSET Qubits /\ c \cap g.z \in SUBSET Qubits
        /\ h.x \cap h.z \in SUBSET Qubits /\ b \cap h.z \in SUBSET Qubits
    BY <1>1 DEF Cyclic, Clash, SymDiff
  <1>7. \A T \in SUBSET Qubits : Count(T, N) = Cardinality(T) /\ Cardinality(T) \in Int
    BY CountAll, QubitsFinite
  <1>8. (2 * Cardinality(Cyclic(g, h)) - Cardinality(Clash(g, h)) + Cardinality(X \cap Z)
           + 2 * Cardinality(b \cap Z) - Cardinality(g.x \cap g.z) - 2 * Cardinality(c \cap g.z)
           - Cardinality(h.x \cap h.z) - 2 * Cardinality(b \cap h.z)) % 4 = 0
    <2>1. D(N) % 4 = 0
      BY <1>4
    <2> HIDE DEF X, Z, c
    <2> QED BY <1>6, <1>7, <2>1
  <1> HIDE DEF k, X, Z, c, D, S
  <1>9. ASSUME NEW e1 \in Int, NEW e2 \in Int, NEW e3 \in Int, NEW e4 \in Int,
               NEW e5 \in Int, NEW e6 \in Int, NEW e7 \in Int, NEW e8 \in Int,
               NEW p \in Int, NEW r \in Int,
               (2 * e1 - e2 + e3 + 2 * e4 - e5 - 2 * e6 - e7 - 2 * e8) % 4 = 0
        PROVE  ((((p + r + 2 * e1 - e2) % 4) + e3 + 2 * e4) - ((p + e5 + 2 * e6) + (r + e7 + 2 * e8))) % 4 = 0
    BY <1>9
  <1>10. ((((g.phase + h.phase + 2 * Cardinality(Cyclic(g, h)) - Cardinality(Clash(g, h))) % 4)
             + Cardinality(X \cap Z) + 2 * Cardinality(b \cap Z))
           - ((g.phase + Cardinality(g.x \cap g.z) + 2 * Cardinality(c \cap g.z))
                + (h.phase + Cardinality(h.x \cap h.z) + 2 * Cardinality(b \cap h.z)))) % 4 = 0
    BY <1>1, <1>6, <1>7, <1>8, <1>9
  <1> QED BY <1>5, <1>10 DEF Exponent, k, c

\* The product of rows that fix a state fixes it.
LEMMA ProductFixes ==
    ASSUME NEW g \in Paulis, NEW h \in Paulis, NEW psi \in [Basis -> Complex],
           Fixes(g, psi), Fixes(h, psi)
    PROVE  Fixes(Product(g, h), psi)
  <1> SUFFICES ASSUME NEW b \in Basis
               PROVE  psi[SymDiff(b, Product(g, h).x)] = Turned(psi[b], Exponent(Product(g, h), b))
    BY DEF Fixes
  <1> DEFINE c == SymDiff(b, h.x)
  <1>1. c \in Basis /\ Exponent(h, b) \in Int /\ Exponent(g, c) \in Int
    BY ExponentType
  <1>2. Exponent(Product(g, h), b) \in Int
    BY ProductType, ExponentType
  <1>3. SymDiff(b, Product(g, h).x) = SymDiff(c, g.x)
    BY DEF SymDiff, Product
  <1>4. psi[SymDiff(c, g.x)] = Turned(psi[c], Exponent(g, c)) /\ psi[c] = Turned(psi[b], Exponent(h, b))
    BY <1>1 DEF Fixes
  <1>5. psi[SymDiff(c, g.x)] = Turned(psi[b], Exponent(h, b) + Exponent(g, c))
    BY <1>1, <1>4, TurnedSum
  <1>6. (Exponent(Product(g, h), b) - (Exponent(g, c) + Exponent(h, b))) % 4 = 0
    BY ProductExponent
  <1>7. Turned(psi[b], Exponent(Product(g, h), b)) = Turned(psi[b], Exponent(g, c) + Exponent(h, b))
    <2> HIDE DEF c
    <2> QED BY <1>1, <1>2, <1>6, TurnedSame
  <1>8. Exponent(g, c) + Exponent(h, b) = Exponent(h, b) + Exponent(g, c)
    BY <1>1
  <1> QED BY <1>3, <1>5, <1>7, <1>8

\* The empty product fixes every state.
LEMMA IdentityFixes ==
    ASSUME NEW psi \in [Basis -> Complex]
    PROVE  Identity \in Paulis /\ Fixes(Identity, psi)
  <1>1. Identity \in Paulis /\ Identity.x = {} /\ Identity.z = {} /\ Identity.phase = 0
    BY DEF Identity, Paulis
  <1>2. ASSUME NEW b \in Basis PROVE psi[SymDiff(b, Identity.x)] = Turned(psi[b], Exponent(Identity, b))
    <2>1. SymDiff(b, {}) = b /\ {} \cap {} = {} /\ b \cap {} = {}
      BY DEF SymDiff
    <2>2. Exponent(Identity, b) = 0
      BY <1>1, <2>1, FS_EmptySet DEF Exponent
    <2> QED BY <1>1, <2>1, <2>2, TurnedConstants
  <1> QED BY <1>1, <1>2 DEF Fixes

-----------------------------------------------------------------------------
(* The bits of a row, and the rows it anticommutes with *)

\* Both parts of a row in one set: x below N, z above.
Bits(g) == {c \in Indices : HasBit(g, c)}

\* The row with these bits and no phase.
RowOf(B) == [x |-> {q \in Qubits : q \in B}, z |-> {q \in Qubits : N + q \in B}, phase |-> 0]

\* The rows of T with which g anticommutes.
Facing(T, g) == {i \in Indices : Anticommute(g, T[i])}

Partner(i) == IF i < N THEN i + N ELSE i - N

\* A set of rows that contains the empty product and the products of its rows.
ClosedRows(W) ==
    /\ W \subseteq Paulis /\ Identity \in W
    /\ \A g, h \in W : Product(g, h) \in W

\* Where the rows of the tableau stand.
LEMMA IndicesOf ==
    /\ N \in Nat /\ N >= 1
    /\ Indices = {i \in Nat : i < 2 * N} /\ Qubits = {i \in Nat : i < N}
    /\ Stabilizers = {i \in Nat : N <= i /\ i < 2 * N} /\ Destabilizers = {i \in Nat : i < N}
    /\ IsFiniteSet(Indices)
    /\ \A i \in Indices : /\ Partner(i) \in Indices /\ Partner(Partner(i)) = i
                          /\ \A j \in Indices : (i = j + N \/ j = i + N) <=> j = Partner(i)
  <1>1. N \in Nat /\ N >= 1
    BY AtLeastOneQubit
  <1>2. /\ Indices = {i \in Nat : i < 2 * N} /\ Qubits = {i \in Nat : i < N}
        /\ Stabilizers = {i \in Nat : N <= i /\ i < 2 * N} /\ Destabilizers = {i \in Nat : i < N}
    BY <1>1 DEF Indices, Qubits, Stabilizers, Destabilizers
  <1>3. IsFiniteSet(Indices)
    BY <1>1, FS_Interval DEF Indices
  <1>4. ASSUME NEW i \in Indices
        PROVE  /\ Partner(i) \in Indices /\ Partner(Partner(i)) = i
               /\ \A j \in Indices : (i = j + N \/ j = i + N) <=> j = Partner(i)
    BY <1>1, <1>2 DEF Partner
  <1> QED BY <1>1, <1>2, <1>3, <1>4

\* The bits of a row, by part.
LEMMA BitsAre ==
    ASSUME NEW g \in Paulis
    PROVE  /\ Bits(g) \in SUBSET Indices
           /\ \A q \in Qubits : (q \in Bits(g) <=> q \in g.x) /\ (N + q \in Bits(g) <=> q \in g.z)
           /\ \A c \in Bits(g) : c \in g.x \/ (c - N \in g.z /\ c - N \in Qubits /\ c = N + (c - N))
  <1>1. g.x \subseteq Qubits /\ g.z \subseteq Qubits
    BY RowParts
  <1>2. ASSUME NEW q \in Qubits
        PROVE (q \in Bits(g) <=> q \in g.x) /\ (N + q \in Bits(g) <=> q \in g.z)
    <2>1. q \in Nat /\ q < N /\ N + q \in Indices /\ q \in Indices /\ ~ (N + q < N) /\ (N + q) - N = q
      BY IndicesOf
    <2> QED BY <2>1 DEF Bits, HasBit
  <1>3. ASSUME NEW c \in Bits(g)
        PROVE c \in g.x \/ (c - N \in g.z /\ c - N \in Qubits /\ c = N + (c - N))
    <2>1. c \in Indices /\ HasBit(g, c)
      BY DEF Bits
    <2> QED BY <1>1, <2>1, IndicesOf DEF HasBit
  <1> QED BY <1>2, <1>3 DEF Bits

\* Rows with the same bits have the same parts.
LEMMA BitsEqual ==
    ASSUME NEW g \in Paulis, NEW h \in Paulis
    PROVE  Bits(g) = Bits(h) <=> g.x = h.x /\ g.z = h.z
  <1>1. ASSUME Bits(g) = Bits(h) PROVE g.x = h.x /\ g.z = h.z
    <2>1. g.x \subseteq Qubits /\ g.z \subseteq Qubits /\ h.x \subseteq Qubits /\ h.z \subseteq Qubits
      BY RowParts
    <2> QED BY <1>1, <2>1, BitsAre
  <1>2. ASSUME g.x = h.x, g.z = h.z PROVE Bits(g) = Bits(h)
    BY <1>2 DEF Bits, HasBit
  <1> QED BY <1>1, <1>2

\* The row with given bits has them.
LEMMA RowOfIs ==
    ASSUME NEW B \in SUBSET Indices
    PROVE  RowOf(B) \in Paulis /\ Bits(RowOf(B)) = B
  <1>1. RowOf(B) \in Paulis
    BY DEF RowOf, Paulis
  <1>2. ASSUME NEW c \in Indices PROVE HasBit(RowOf(B), c) <=> c \in B
    <2>1. CASE c < N
      <3>1. c \in Qubits
        BY <2>1, IndicesOf
      <3> QED BY <2>1, <3>1 DEF RowOf, HasBit
    <2>2. CASE ~ (c < N)
      <3>1. c - N \in Qubits /\ N + (c - N) = c
        BY <2>2, IndicesOf
      <3> QED BY <2>2, <3>1 DEF RowOf, HasBit
    <2> QED BY <2>1, <2>2
  <1> QED BY <1>1, <1>2 DEF Bits

\* The bits of a product.
LEMMA BitsProduct ==
    ASSUME NEW g \in Paulis, NEW h \in Paulis
    PROVE  /\ Bits(Product(g, h)) = SymDiff(Bits(g), Bits(h))
           /\ \A c : HasBit(Product(g, h), c) <=> Xor(HasBit(g, c), HasBit(h, c))
  <1>1. Product(g, h).x = SymDiff(g.x, h.x) /\ Product(g, h).z = SymDiff(g.z, h.z)
    BY DEF Product
  <1>2. \A c : HasBit(Product(g, h), c) <=> Xor(HasBit(g, c), HasBit(h, c))
    BY <1>1 DEF HasBit, SymDiff, Xor
  <1> QED BY <1>2 DEF Bits, SymDiff, Xor

\* The bits decide which rows a row anticommutes with.
LEMMA BitsDecide ==
    ASSUME NEW g \in Paulis, NEW h \in Paulis, Bits(g) = Bits(h), NEW k
    PROVE  Anticommute(g, k) <=> Anticommute(h, k)
  <1>1. Clash(g, k) = Clash(h, k)
    BY BitsEqual DEF Clash
  <1> QED BY <1>1 DEF Anticommute

\* The identity commutes with every row.
LEMMA IdentityCommutes ==
    ASSUME NEW k
    PROVE  ~ Anticommute(Identity, k)
  <1>1. Clash(Identity, k) = {}
    BY DEF Clash, Identity, SymDiff
  <1> QED BY <1>1, SmallSets DEF Anticommute, Odd

\* A row that anticommutes with given rows of T can be multiplied from their partners.
LEMMA Spans ==
    ASSUME NEW T, IsSymplectic(T), NEW W, ClosedRows(W),
           NEW R \in SUBSET Indices, \A i \in R : T[Partner(i)] \in W, NEW S \in SUBSET R
    PROVE  \E h \in W : Facing(T, h) = S
  <1> DEFINE Bad == {U \in SUBSET R : ~ \E h \in W : Facing(T, h) = U}
  <1>1. SUFFICES ASSUME Bad # {} PROVE FALSE
    OBVIOUS
  <1>2. PICK U \in Bad : \A V \in Bad : Cardinality(U) <= Cardinality(V)
    <2>1. IsFiniteSet(R) /\ Bad \in SUBSET SUBSET R
      BY IndicesOf, FS_Subset
    <2> HIDE DEF Bad
    <2> QED BY <1>1, <2>1, LeastPart
  <1>3. Facing(T, Identity) = {} /\ Identity \in W
    BY IdentityCommutes DEF Facing, ClosedRows
  <1>4. PICK i : i \in U
    BY <1>2, <1>3
  <1>5. i \in R /\ i \in Indices /\ T[Partner(i)] \in W
    BY <1>2, <1>4
  <1>6. IsFiniteSet(U) /\ U \subseteq Indices
    BY <1>2, IndicesOf, FS_Subset
  <1>7. U \ {i} \notin Bad
    <2>1. Cardinality(U \ {i}) = Cardinality(U) - 1 /\ Cardinality(U) \in Nat
      BY <1>4, <1>6, FS_RemoveElement, FS_CardinalityType
    <2>2. ~ (Cardinality(U) <= Cardinality(U \ {i}))
      BY <2>1
    <2> QED BY <1>2, <2>2
  <1>8. PICK h \in W : Facing(T, h) = U \ {i}
    BY <1>2, <1>7
  <1> DEFINE p == T[Partner(i)]
             k == Product(h, p)
  <1>9. h \in Paulis /\ p \in Paulis /\ k \in Paulis /\ k \in W
    BY <1>5, <1>8, ProductType DEF ClosedRows
  <1>10. ASSUME NEW j \in Indices PROVE Anticommute(k, T[j]) <=> j \in U
    <2>1. T[j] \in Paulis /\ Partner(i) \in Indices
      BY <1>5, IndicesOf DEF IsSymplectic
    <2>2. Anticommute(k, T[j]) <=> Xor(Anticommute(h, T[j]), Anticommute(p, T[j]))
      BY <1>9, <2>1, ProductAnticommutes
    <2>3. Anticommute(p, T[j]) <=> j = i
      <3>1. Anticommute(p, T[j]) <=> j = Partner(Partner(i))
        BY <2>1, IndicesOf DEF IsSymplectic
      <3> QED BY <1>5, <3>1, IndicesOf
    <2>4. Anticommute(h, T[j]) <=> j \in U \ {i}
      BY <1>8 DEF Facing
    <2> HIDE DEF k, p
    <2> QED BY <1>4, <2>2, <2>3, <2>4 DEF Xor
  <1>11. Facing(T, k) = U
    BY <1>6, <1>10 DEF Facing
  <1> HIDE DEF k, p
  <1> QED BY <1>2, <1>9, <1>11

\* A row is known by the rows of the tableau with which it anticommutes.
LEMMA FacingDecides ==
    ASSUME NEW T, IsSymplectic(T), NEW g \in Paulis, NEW h \in Paulis,
           Facing(T, g) = Facing(T, h)
    PROVE  Bits(g) = Bits(h)
  <1> DEFINE P == SUBSET Indices
             f == [B \in P |-> Facing(T, RowOf(B))]
  <1>1. IsFiniteSet(P)
    BY IndicesOf, FS_SUBSET
  <1>2. f \in [P -> P]
    BY DEF Facing
  <1>3. ASSUME NEW S \in P PROVE \E B \in P : f[B] = S
    <2>1. ClosedRows(Paulis)
      BY ProductType DEF ClosedRows, Identity, Paulis
    <2>2. \A i \in Indices : T[Partner(i)] \in Paulis
      BY IndicesOf DEF IsSymplectic
    <2>3. PICK k \in Paulis : Facing(T, k) = S
      BY <2>1, <2>2, Spans
    <2>4. Bits(k) \in P /\ RowOf(Bits(k)) \in Paulis /\ Bits(RowOf(Bits(k))) = Bits(k)
      BY BitsAre, RowOfIs
    <2>5. Facing(T, RowOf(Bits(k))) = Facing(T, k)
      BY <2>4, BitsDecide DEF Facing
    <2> QED BY <2>3, <2>4, <2>5
  <1>4. f \in Surjection(P, P)
    BY <1>2, <1>3 DEF Surjection
  <1> HIDE DEF f
  <1>5. f \in Injection(P, P)
    <2> HIDE DEF P
    <2> QED BY <1>1, <1>4, FS_SurjSameCardinalityImpliesInj
  <1>6. ASSUME NEW k \in Paulis PROVE Bits(k) \in P /\ f[Bits(k)] = Facing(T, k)
    <2>1. Bits(k) \in P /\ RowOf(Bits(k)) \in Paulis /\ Bits(RowOf(Bits(k))) = Bits(k)
      BY BitsAre, RowOfIs
    <2>2. Facing(T, RowOf(Bits(k))) = Facing(T, k)
      BY <2>1, BitsDecide DEF Facing
    <2> QED BY <2>1, <2>2 DEF f
  <1>7. \A A, B \in P : f[A] = f[B] => A = B
    BY <1>5 DEF Injection, IsInjective
  <1> QED BY <1>6, <1>7

\* A row that commutes with every stabilizer has the bits of a product of stabilizers.
LEMMA InGroup ==
    ASSUME NEW T, IsSymplectic(T), NEW W, ClosedRows(W),
           \A i \in Stabilizers : T[i] \in W,
           NEW g \in Paulis, \A i \in Stabilizers : ~ Anticommute(g, T[i])
    PROVE  \E h \in W : Bits(h) = Bits(g)
  <1> DEFINE S == Facing(T, g)
  <1>1. S \in SUBSET Destabilizers
    <2>1. ASSUME NEW i \in Indices, i \notin Destabilizers PROVE i \in Stabilizers
      BY <2>1, IndicesOf
    <2> QED BY <2>1 DEF Facing
  <1>2. \A i \in Destabilizers : T[Partner(i)] \in W
    <2>1. \A i \in Destabilizers : Partner(i) \in Stabilizers
      BY IndicesOf DEF Partner
    <2> QED BY <2>1
  <1>3. Destabilizers \in SUBSET Indices
    BY IndicesOf
  <1>4. PICK h \in W : Facing(T, h) = S
    <2> HIDE DEF S
    <2> QED BY <1>1, <1>2, <1>3, Spans
  <1>5. h \in Paulis
    BY DEF ClosedRows
  <1> QED BY <1>4, <1>5, FacingDecides

-----------------------------------------------------------------------------
(* The amplitudes of a state that stabilizers fix *)

\* The stabilizers of T fix psi.
Stabilizes(T, psi) == \A i \in Stabilizers : Fixes(T[i], psi)

\* A set of sets of qubits with their differences.
ClosedSets(V) == V \subseteq Basis /\ {} \in V /\ \A u, v \in V : SymDiff(u, v) \in V

\* The algebra of symmetric differences.
LEMMA SymDiffFacts ==
    ASSUME NEW a, NEW b, NEW c
    PROVE  /\ SymDiff(a, b) = SymDiff(b, a) /\ SymDiff(a, a) = {} /\ SymDiff(a, {}) = a
           /\ SymDiff(SymDiff(a, b), b) = a /\ SymDiff(SymDiff(a, b), a) = b
           /\ SymDiff(SymDiff(a, b), c) = SymDiff(a, SymDiff(b, c))
           /\ SymDiff(SymDiff(a, b), SymDiff(a, c)) = SymDiff(b, c)
  BY DEF SymDiff

\* A symmetric difference of basis states is one.
LEMMA SymDiffInBasis ==
    ASSUME NEW a \in Basis, NEW b \in Basis
    PROVE  SymDiff(a, b) \in Basis
  BY DEF Basis, SymDiff

\* What such a set lacks is told apart from it by the parity on some qubits.
LEMMA Separates ==
    ASSUME NEW V, ClosedSets(V), NEW x \in Basis, x \notin V
    PROVE  \E z \in Basis : Odd(x \cap z) /\ \A v \in V : ~ Odd(v \cap z)
  <1> DEFINE Good == {U \in SUBSET Basis : ClosedSets(U) /\ V \subseteq U /\ x \notin U}
             Bad == {Basis \ U : U \in Good}
  <1>1. IsFiniteSet(Basis)
    BY QubitsFinite, FS_SUBSET DEF Basis
  <1>2. PICK W \in Good : \A U \in Good : Cardinality(Basis \ W) <= Cardinality(Basis \ U)
    <2>1. Bad \in SUBSET SUBSET Basis /\ Bad # {}
      BY DEF ClosedSets
    <2>2. PICK B \in Bad : \A C \in Bad : Cardinality(B) <= Cardinality(C)
      <3> HIDE DEF Bad
      <3> QED BY <1>1, <2>1, LeastPart
    <2> QED BY <2>2
  <1>3. ClosedSets(W) /\ V \subseteq W /\ x \notin W /\ W \subseteq Basis
    BY <1>2
  <1>4. ASSUME NEW u \in Basis, u \notin W PROVE SymDiff(x, u) \in W
    <2> DEFINE U == W \cup {SymDiff(w, u) : w \in W}
    <2>1. W \subseteq U /\ U \subseteq Basis
      BY <1>3, SymDiffInBasis
    <2>2. u \in U
      <3>1. SymDiff({}, u) = u
        BY SymDiffFacts
      <3> QED BY <1>3, <3>1 DEF ClosedSets
    <2>3. ClosedSets(U)
      <3>1. ASSUME NEW a \in U, NEW b \in U PROVE SymDiff(a, b) \in U
        <4>1. PICK c \in W : a = c \/ a = SymDiff(c, u)
          BY <1>3 DEF ClosedSets
        <4>2. PICK d \in W : b = d \/ b = SymDiff(d, u)
          BY <1>3 DEF ClosedSets
        <4>3. SymDiff(c, d) \in W
          BY <1>3 DEF ClosedSets
        <4>4. \/ SymDiff(a, b) = SymDiff(c, d)
              \/ SymDiff(a, b) = SymDiff(SymDiff(c, d), u)
          BY <4>1, <4>2 DEF SymDiff
        <4> QED BY <4>3, <4>4
      <3> QED BY <1>3, <2>1, <3>1 DEF ClosedSets
    <2>4. Cardinality(Basis \ U) < Cardinality(Basis \ W)
      <3>1. IsFiniteSet(Basis \ W) /\ u \in Basis \ W
        BY <1>1, <1>4, FS_Difference
      <3>2. IsFiniteSet((Basis \ W) \ {u}) /\ Cardinality((Basis \ W) \ {u}) = Cardinality(Basis \ W) - 1
        BY <3>1, FS_RemoveElement
      <3>3. Basis \ U \in SUBSET ((Basis \ W) \ {u})
        BY <2>1, <2>2
      <3>4. Cardinality(Basis \ U) <= Cardinality((Basis \ W) \ {u}) /\ IsFiniteSet(Basis \ U)
        <4> HIDE DEF U
        <4> QED BY <3>2, <3>3, FS_Subset
      <3>5. Cardinality(Basis \ U) \in Nat /\ Cardinality(Basis \ W) \in Nat
        <4> HIDE DEF U
        <4> QED BY <3>1, <3>4, FS_CardinalityType
      <3> HIDE DEF U
      <3> QED BY <3>2, <3>4, <3>5
    <2>5. U \notin Good
      <3>1. IsFiniteSet(Basis \ W) /\ IsFiniteSet(Basis \ U)
        BY <1>1, FS_Difference
      <3>2. Cardinality(Basis \ U) \in Nat /\ Cardinality(Basis \ W) \in Nat
        <4> HIDE DEF U
        <4> QED BY <3>1, FS_CardinalityType
      <3>3. ~ (Cardinality(Basis \ W) <= Cardinality(Basis \ U))
        <4> HIDE DEF U
        <4> QED BY <2>4, <3>2
      <3> QED BY <1>2, <3>3
    <2>6. x \in U
      BY <1>3, <2>1, <2>3, <2>5
    <2>7. PICK w \in W : x = SymDiff(w, u)
      BY <1>3, <2>6
    <2> QED BY <2>7, SymDiffFacts
  <1>5. ASSUME NEW u \in Basis, NEW v \in Basis
        PROVE  SymDiff(u, v) \notin W <=> Xor(u \notin W, v \notin W)
    <2>1. CASE u \in W /\ v \in W
      BY <1>3, <2>1 DEF ClosedSets, Xor
    <2>2. CASE u \in W /\ v \notin W
      <3>1. SymDiff(SymDiff(u, v), u) = v
        BY SymDiffFacts
      <3> QED BY <1>3, <2>2, <3>1 DEF ClosedSets, Xor
    <2>3. CASE u \notin W /\ v \in W
      <3>1. SymDiff(SymDiff(u, v), v) = u
        BY SymDiffFacts
      <3> QED BY <1>3, <2>3, <3>1 DEF ClosedSets, Xor
    <2>4. CASE u \notin W /\ v \notin W
      <3>1. SymDiff(SymDiff(x, u), SymDiff(x, v)) = SymDiff(u, v)
        BY SymDiffFacts
      <3> QED BY <1>3, <1>4, <2>4, <3>1 DEF ClosedSets, Xor
    <2> QED BY <2>1, <2>2, <2>3, <2>4
  <1> DEFINE z == {q \in Qubits : {q} \notin W}
             Wrong == {u \in Basis : ~ (Odd(u \cap z) <=> u \notin W)}
  <1>6. ASSUME Wrong # {} PROVE FALSE
    <2>1. PICK u \in Wrong : \A v \in Wrong : Cardinality(u) <= Cardinality(v)
      <3>1. Wrong \in SUBSET SUBSET Qubits
        BY DEF Basis
      <3> HIDE DEF Wrong
      <3> QED BY <1>6, <3>1, QubitsFinite, LeastPart
    <2>2. u # {}
      <3>1. {} \cap z = {} /\ {} \in W
        BY <1>3 DEF ClosedSets
      <3> QED BY <2>1, <3>1, SmallSets
    <2>3. PICK q : q \in u
      BY <2>2
    <2>4. u \in Basis /\ q \in Qubits /\ u \ {q} \in Basis /\ {q} \in Basis /\ SymDiff(u \ {q}, {q}) = u
      BY <2>1, <2>3 DEF Basis, SymDiff
    <2>5. u \ {q} \notin Wrong
      <3>1. Cardinality(u) = Cardinality(u \ {q}) + 1 /\ Cardinality(u \ {q}) \in Nat
        BY <2>3, <2>4, CountApart DEF Basis, Bit
      <3>2. ~ (Cardinality(u) <= Cardinality(u \ {q}))
        BY <3>1
      <3> QED BY <2>1, <3>2
    <2>6. Odd((u \ {q}) \cap z) <=> u \ {q} \notin W
      BY <2>4, <2>5
    <2>7. Odd({q} \cap z) <=> {q} \notin W
      <3>1. CASE {q} \in W
        <4>1. {q} \cap z = {}
          BY <3>1
        <4> QED BY <3>1, <4>1, SmallSets
      <3>2. CASE {q} \notin W
        <4>1. {q} \cap z = {q}
          BY <2>4, <3>2
        <4> QED BY <3>2, <4>1, SmallSets
      <3> QED BY <3>1, <3>2
    <2> HIDE DEF z
    <2>8. u \cap z = SymDiff((u \ {q}) \cap z, {q} \cap z)
      BY <2>3 DEF SymDiff
    <2>9. IsFiniteSet((u \ {q}) \cap z) /\ IsFiniteSet({q} \cap z)
      <3>1. (u \ {q}) \cap z \in SUBSET Qubits /\ {q} \cap z \in SUBSET Qubits
        BY <2>4 DEF Basis
      <3> QED BY <3>1, QubitsFinite
    <2>10. Odd(u \cap z) <=> Xor(Odd((u \ {q}) \cap z), Odd({q} \cap z))
      BY <2>8, <2>9, ParityOfSymDiff
    <2>11. u \notin W <=> Xor(u \ {q} \notin W, {q} \notin W)
      BY <1>5, <2>4
    <2> QED BY <2>1, <2>6, <2>7, <2>10, <2>11 DEF Xor
  <1>7. z \in Basis
    BY DEF Basis
  <1>8. \A u \in Basis : Odd(u \cap z) <=> u \notin W
    BY <1>6
  <1> HIDE DEF z
  <1> QED BY <1>3, <1>7, <1>8

\* Only a multiple of four turns leaves a number that is not zero.
LEMMA TurnedSelf ==
    ASSUME NEW a \in Complex, a # Zero, NEW k \in Int, Turned(a, k) = a
    PROVE  k % 4 = 0
  <1>1. PICK r \in Int, s \in Int : a = <<r, s>>
    BY DEF Complex
  <1>2. r # 0 \/ s # 0
    BY <1>1 DEF Zero
  <1>3. \A t \in Int : -t = t => t = 0
    OBVIOUS
  <1>4. \A t, u \in Int : -t = u /\ u = t => t = 0
    OBVIOUS
  <1>5. CASE k % 4 = 1
    <2>1. -s = r /\ r = s
      BY <1>1, <1>5 DEF Turned
    <2> QED BY <1>2, <1>4, <2>1
  <1>6. CASE k % 4 = 2
    <2>1. -r = r /\ -s = s
      BY <1>1, <1>6 DEF Turned
    <2> QED BY <1>2, <1>3, <2>1
  <1>7. CASE k % 4 = 3
    <2>1. s = r /\ -r = s
      BY <1>1, <1>7 DEF Turned
    <2> QED BY <1>2, <1>4, <2>1
  <1>8. k % 4 = 0 \/ k % 4 = 1 \/ k % 4 = 2 \/ k % 4 = 3
    OBVIOUS
  <1> QED BY <1>5, <1>6, <1>7, <1>8

\* The rows that fix given amplitudes are closed under products.
LEMMA FixersClosed ==
    ASSUME NEW psi \in [Basis -> Complex]
    PROVE  ClosedRows({g \in Paulis : Fixes(g, psi)})
  BY ProductType, ProductFixes, IdentityFixes DEF ClosedRows

\* The amplitudes that are not zero differ by powers of i.
LEMMA Shape ==
    ASSUME NEW T, IsSymplectic(T), NEW psi \in [Basis -> Complex], Stabilizes(T, psi),
           NEW b \in Basis, psi[b] # Zero, NEW c \in Basis, psi[c] # Zero
    PROVE  \E k \in Nat : psi[c] = Turned(psi[b], k)
  <1> DEFINE W == {g \in Paulis : Fixes(g, psi)}
             V == {g.x : g \in W}
             x == SymDiff(b, c)
  <1>1. ClosedRows(W)
    BY FixersClosed
  <1>2. x \in Basis /\ SymDiff(b, x) = c
    BY SymDiffInBasis, SymDiffFacts
  <1>3. CASE x \in V
    <2>1. PICK g \in W : g.x = x
      BY <1>3
    <2>2. psi[c] = Turned(psi[b], Exponent(g, b))
      BY <1>2, <2>1 DEF Fixes
    <2>3. Exponent(g, b) \in Nat
      BY <2>1, ExponentType
    <2> QED BY <2>2, <2>3
  <1>4. ASSUME x \notin V PROVE FALSE
    <2>1. ClosedSets(V)
      <3>1. V \subseteq Basis
        BY RowParts DEF Basis
      <3>2. {} \in V
        <4>1. Identity \in W /\ Identity.x = {}
          BY <1>1 DEF ClosedRows, Identity
        <4> QED BY <4>1
      <3>3. ASSUME NEW u \in V, NEW v \in V PROVE SymDiff(u, v) \in V
        <4>1. PICK g \in W, h \in W : u = g.x /\ v = h.x
          OBVIOUS
        <4>2. Product(g, h) \in W /\ Product(g, h).x = SymDiff(u, v)
          <5>1. Product(g, h) \in W
            BY <1>1, <4>1 DEF ClosedRows
          <5> QED BY <4>1, <5>1 DEF Product
        <4> QED BY <4>2
      <3> QED BY <3>1, <3>2, <3>3 DEF ClosedSets
    <2>2. PICK z \in Basis : Odd(x \cap z) /\ \A v \in V : ~ Odd(v \cap z)
      <3> HIDE DEF V, x
      <3> QED BY <1>2, <1>4, <2>1, Separates
    <2> DEFINE g == [x |-> {}, z |-> z, phase |-> 0]
    <2>3. g \in Paulis /\ g.x = {} /\ g.z = z
      BY DEF Paulis, Basis
    <2>4. ASSUME NEW i \in Stabilizers PROVE T[i] \in W /\ ~ Anticommute(g, T[i])
      <3>1. T[i] \in W
        <4>1. i \in Indices
          BY IndicesOf
        <4> QED BY <4>1 DEF IsSymplectic, Stabilizes
      <3>2. Clash(g, T[i]) = T[i].x \cap z
        BY <2>3 DEF Clash, SymDiff
      <3>3. T[i].x \in V
        BY <3>1
      <3> QED BY <2>2, <3>1, <3>2, <3>3 DEF Anticommute, Odd
    <2>5. PICK h \in W : Bits(h) = Bits(g)
      <3> HIDE DEF W, g
      <3> QED BY <1>1, <2>3, <2>4, InGroup
    <2>6. h \in Paulis /\ Fixes(h, psi) /\ h.x = {} /\ h.z = z
      BY <2>3, <2>5, BitsEqual
    <2>7. ASSUME NEW d \in Basis, psi[d] # Zero
          PROVE  (h.phase + 2 * Cardinality(d \cap z)) % 4 = 0 /\ Cardinality(d \cap z) \in Nat
      <3>1. SymDiff(d, h.x) = d /\ h.x \cap h.z = {}
        BY <2>6, SymDiffFacts
      <3>2. Turned(psi[d], Exponent(h, d)) = psi[d]
        BY <2>6, <3>1 DEF Fixes
      <3>3. Exponent(h, d) % 4 = 0
        BY <2>6, <2>7, <3>2, ExponentType, TurnedSelf
      <3>4. Cardinality(d \cap z) \in Nat /\ h.phase \in Nat
        <4>1. d \cap z \in SUBSET Qubits
          BY DEF Basis
        <4> QED BY <2>6, <4>1, QubitsFinite, RowParts
      <3> QED BY <2>6, <3>1, <3>3, <3>4, FS_EmptySet DEF Exponent
    <2>8. Odd(x \cap z) <=> Xor(Odd(b \cap z), Odd(c \cap z))
      <3>1. x \cap z = SymDiff(b \cap z, c \cap z)
        BY DEF SymDiff
      <3>2. b \cap z \in SUBSET Qubits /\ c \cap z \in SUBSET Qubits
        BY DEF Basis
      <3>3. IsFiniteSet(b \cap z) /\ IsFiniteSet(c \cap z)
        BY <3>2, QubitsFinite
      <3> QED BY <3>1, <3>3, ParityOfSymDiff
    <2> DEFINE m == Cardinality(b \cap z)
               n == Cardinality(c \cap z)
    <2>9. m \in Nat /\ n \in Nat /\ (h.phase + 2 * m) % 4 = 0 /\ (h.phase + 2 * n) % 4 = 0
      BY <2>7
    <2>10. (m % 2 = 1) <=> ~ (n % 2 = 1)
      BY <2>2, <2>8 DEF Odd, Xor
    <2>11. h.phase \in Nat
      BY <2>6, RowParts
    <2> HIDE DEF m, n
    <2> QED BY <2>9, <2>10, <2>11
  <1> QED BY <1>3, <1>4

-----------------------------------------------------------------------------
(* Rescaling *)

\* The tableau describes the state: its stabilizers fix it, and there is one.
Describes(T, psi) ==
    /\ IsSymplectic(T)
    /\ psi \in [Basis -> Complex]
    /\ \E b \in Basis : psi[b] # Zero
    /\ Stabilizes(T, psi)

\* The quotients Rescaled takes.
LEMMA Quotients ==
    ASSUME NEW m \in Nat, m > 0
    PROVE  m \div m = 1 /\ 0 \div m = 0 /\ (-m) \div m = -1
  <1>1. m \div m = 1
    OBVIOUS
  <1>2. 0 \div m = 0
    OBVIOUS
  <1>3. (-m) \div m = -1
    OBVIOUS
  <1> QED BY <1>1, <1>2, <1>3

\* A number times the conjugate of another that it is a turn of.
LEMMA DividedTurn ==
    ASSUME NEW a \in Complex, a # Zero, NEW k \in Int
    PROVE  LET product == Times(Turned(a, k), Conjugate(a))
               m == SquaredNorm(a)
           IN  /\ m \in Nat /\ m > 0
               /\ <<product[1] \div m, product[2] \div m>> = Turned(One, k)
  <1>1. PICK r \in Int, s \in Int : a = <<r, s>>
    BY DEF Complex
  <1> DEFINE m == r * r + s * s
  <1>2. r # 0 \/ s # 0
    BY <1>1 DEF Zero
  <1>3. m \in Nat /\ m > 0 /\ SquaredNorm(a) = m
    <2>1. \A t \in Int : t * t >= 0 /\ (t # 0 => t * t > 0) /\ t * t \in Int
      OBVIOUS
    <2> QED BY <1>1, <1>2, <2>1 DEF SquaredNorm
  <1>4. Conjugate(a) = <<r, -s>>
    BY <1>1 DEF Conjugate
  <1>5. m \div m = 1 /\ 0 \div m = 0 /\ (-m) \div m = -1
    <2> HIDE DEF m
    <2> QED BY <1>3, Quotients
  <1>6. /\ r * r - s * (-s) = m /\ r * (-s) + s * r = 0
        /\ (-s) * r - r * (-s) = 0 /\ (-s) * (-s) + r * r = m
        /\ (-r) * r - (-s) * (-s) = -m /\ (-r) * (-s) + (-s) * r = 0
        /\ s * r - (-r) * (-s) = 0 /\ s * (-s) + (-r) * r = -m
    OBVIOUS
  <1> HIDE DEF m
  <1>7. CASE k % 4 = 0
    <2>1. Turned(a, k) = <<r, s>> /\ Turned(One, k) = <<1, 0>>
      BY <1>1, <1>7 DEF Turned, One
    <2>2. Times(Turned(a, k), Conjugate(a)) = <<m, 0>>
      BY <1>4, <1>6, <2>1 DEF Times
    <2> QED BY <1>3, <1>5, <2>1, <2>2
  <1>8. CASE k % 4 = 1
    <2>1. Turned(a, k) = <<-s, r>> /\ Turned(One, k) = <<0, 1>>
      BY <1>1, <1>8, MinusZero DEF Turned, One
    <2>2. Times(Turned(a, k), Conjugate(a)) = <<0, m>>
      BY <1>4, <1>6, <2>1 DEF Times
    <2> QED BY <1>3, <1>5, <2>1, <2>2
  <1>9. CASE k % 4 = 2
    <2>1. Turned(a, k) = <<-r, -s>> /\ Turned(One, k) = <<-1, 0>>
      BY <1>1, <1>9, MinusZero DEF Turned, One
    <2>2. Times(Turned(a, k), Conjugate(a)) = <<-m, 0>>
      BY <1>4, <1>6, <2>1 DEF Times
    <2> QED BY <1>3, <1>5, <2>1, <2>2
  <1>10. CASE k % 4 = 3
    <2>1. Turned(a, k) = <<s, -r>> /\ Turned(One, k) = <<0, -1>>
      BY <1>1, <1>10, MinusZero DEF Turned, One
    <2>2. Times(Turned(a, k), Conjugate(a)) = <<0, -m>>
      BY <1>4, <1>6, <2>1 DEF Times
    <2> QED BY <1>3, <1>5, <2>1, <2>2
  <1>11. k % 4 = 0 \/ k % 4 = 1 \/ k % 4 = 2 \/ k % 4 = 3
    OBVIOUS
  <1> QED BY <1>7, <1>8, <1>9, <1>10, <1>11

\* The division is exact where the amplitudes are turns of one another.
LEMMA RescaledTurns ==
    ASSUME NEW psi \in [Basis -> Complex], \E b \in Basis : psi[b] # Zero,
           \A b, c \in Basis : psi[b] # Zero /\ psi[c] # Zero => \E k \in Nat : psi[c] = Turned(psi[b], k)
    PROVE  \E a \in Complex : \A b \in Basis :
               \/ psi[b] = Zero /\ Rescaled(psi)[b] = Zero
               \/ psi[b] # Zero /\ \E k \in Nat : psi[b] = Turned(a, k)
                      /\ \A j \in Nat : psi[b] = Turned(a, j) => Rescaled(psi)[b] = Turned(One, j)
  <1> DEFINE support == {b \in Basis : psi[b] # Zero}
             a == psi[CHOOSE b \in support : TRUE]
             divided(t) == LET product == Times(t, Conjugate(a))
                           IN  <<product[1] \div SquaredNorm(a), product[2] \div SquaredNorm(a)>>
  <1>1. (CHOOSE b \in support : TRUE) \in support
    OBVIOUS
  <1>2. a \in Complex /\ a # Zero
    BY <1>1
  <1>3. Rescaled(psi) = [b \in Basis |-> divided(psi[b])]
    BY <1>1 DEF Rescaled
  <1>4. \A t : divided(t) = <<Times(t, Conjugate(a))[1] \div SquaredNorm(a),
                             Times(t, Conjugate(a))[2] \div SquaredNorm(a)>>
    OBVIOUS
  <1>5. \A b \in support : \E k \in Nat : psi[b] = Turned(a, k)
    BY <1>1
  <1> HIDE DEF divided, a
  <1>6. ASSUME NEW k \in Nat PROVE divided(Turned(a, k)) = Turned(One, k)
    BY <1>2, <1>4, DividedTurn
  <1>7. divided(Zero) = Zero
    <2>1. Times(Zero, Conjugate(a)) = <<0, 0>>
      <3>1. Conjugate(a) \in Complex
        BY <1>2 DEF Conjugate, Complex
      <3> QED BY <3>1, Entries DEF Zero
    <2>2. SquaredNorm(a) \in Nat /\ SquaredNorm(a) > 0
      BY <1>2, DividedTurn
    <2>3. 0 \div SquaredNorm(a) = 0
      BY <2>2, Quotients
    <2> QED BY <1>4, <2>1, <2>3 DEF Zero
  <1>8. ASSUME NEW b \in Basis
        PROVE  \/ psi[b] = Zero /\ Rescaled(psi)[b] = Zero
               \/ psi[b] # Zero /\ \E k \in Nat : psi[b] = Turned(a, k)
                      /\ \A j \in Nat : psi[b] = Turned(a, j) => Rescaled(psi)[b] = Turned(One, j)
    <2>1. Rescaled(psi)[b] = divided(psi[b])
      BY <1>3
    <2>2. CASE psi[b] = Zero
      BY <1>7, <2>1, <2>2
    <2>3. CASE psi[b] # Zero
      <3>1. PICK k \in Nat : psi[b] = Turned(a, k)
        BY <1>5, <2>3
      <3>2. \A j \in Nat : psi[b] = Turned(a, j) => Rescaled(psi)[b] = Turned(One, j)
        BY <1>6, <2>1
      <3> QED BY <2>3, <3>1, <3>2
    <2> QED BY <2>2, <2>3
  <1> QED BY <1>2, <1>8

\* Rescaled amplitudes are a function of the basis states.
LEMMA RescaledDomain ==
    ASSUME NEW psi \in [Basis -> Complex]
    PROVE  Rescaled(psi) = [b \in Basis |-> Rescaled(psi)[b]]
  BY DEF Rescaled

\* One is an amplitude that is not zero.
LEMMA OneIs == One \in Complex /\ One # Zero
  <1>1. <<1, 0>> \in Int \X Int /\ <<1, 0>> # <<0, 0>>
    OBVIOUS
  <1> QED BY <1>1 DEF One, Zero, Complex

\* Rescaling changes nothing of what a tableau describes.
LEMMA RescaledDescribed ==
    ASSUME NEW T, NEW psi, Describes(T, psi)
    PROVE  /\ Describes(T, Rescaled(psi))
           /\ \A b \in Basis : Rescaled(psi)[b] = Zero \/ \E k \in Nat : Rescaled(psi)[b] = Turned(One, k)
  <1> DEFINE R == Rescaled(psi)
  <1>1. psi \in [Basis -> Complex] /\ IsSymplectic(T) /\ Stabilizes(T, psi)
    BY DEF Describes
  <1>2. PICK b0 \in Basis : psi[b0] # Zero
    BY DEF Describes
  <1>3. \A b, c \in Basis : psi[b] # Zero /\ psi[c] # Zero => \E k \in Nat : psi[c] = Turned(psi[b], k)
    BY <1>1, Shape
  <1>4. PICK a \in Complex : \A b \in Basis :
               \/ psi[b] = Zero /\ R[b] = Zero
               \/ psi[b] # Zero /\ \E k \in Nat : psi[b] = Turned(a, k)
                      /\ \A j \in Nat : psi[b] = Turned(a, j) => R[b] = Turned(One, j)
    BY <1>1, <1>2, <1>3, RescaledTurns
  <1>5. R = [b \in Basis |-> R[b]]
    BY <1>1, RescaledDomain
  <1> HIDE DEF R
  <1>6. \A b \in Basis : R[b] = Zero \/ \E k \in Nat : R[b] = Turned(One, k)
    BY <1>4
  <1>7. R \in [Basis -> Complex]
    BY <1>5, <1>6, OneIs, TurnedZero, TurnedType
  <1>8. R[b0] # Zero
    <2>1. PICK k \in Nat : R[b0] = Turned(One, k)
      BY <1>2, <1>4
    <2> QED BY <2>1, OneIs, TurnedZero
  <1>9. ASSUME NEW g \in Paulis, Fixes(g, psi) PROVE Fixes(g, R)
    <2> SUFFICES ASSUME NEW b \in Basis PROVE R[SymDiff(b, g.x)] = Turned(R[b], Exponent(g, b))
      BY DEF Fixes
    <2> DEFINE c == SymDiff(b, g.x)
               e == Exponent(g, b)
    <2>1. c \in Basis /\ e \in Nat
      BY ExponentType
    <2>2. psi[c] = Turned(psi[b], e)
      BY <1>9 DEF Fixes
    <2> HIDE DEF c, e
    <2>3. CASE psi[b] = Zero
      <3>1. psi[c] = Zero
        BY <2>1, <2>2, <2>3, OneIs, TurnedZero
      <3>2. R[b] = Zero /\ R[c] = Zero
        BY <1>4, <2>1, <2>3, <3>1
      <3> QED BY <2>1, <3>2, OneIs, TurnedZero DEF c, e
    <2>4. CASE psi[b] # Zero
      <3>1. PICK k \in Nat : psi[b] = Turned(a, k) /\ R[b] = Turned(One, k)
        BY <1>4, <2>4
      <3>2. psi[c] = Turned(a, k + e) /\ Turned(R[b], e) = Turned(One, k + e) /\ k + e \in Nat
        BY <2>1, <2>2, <3>1, OneIs, TurnedSum
      <3>3. psi[c] # Zero
        BY <1>1, <2>1, <2>2, <2>4, TurnedZero
      <3>4. R[c] = Turned(One, k + e)
        BY <1>4, <2>1, <3>2, <3>3
      <3> QED BY <3>2, <3>4 DEF c, e
    <2> QED BY <2>3, <2>4
  <1>10. Stabilizes(T, R)
    <2>1. \A i \in Stabilizers : T[i] \in Paulis
      BY <1>1, IndicesOf DEF IsSymplectic
    <2> QED BY <1>1, <1>9, <2>1 DEF Stabilizes
  <1> QED BY <1>1, <1>6, <1>7, <1>8, <1>10 DEF Describes, R

-----------------------------------------------------------------------------
(* Gates on one qubit *)

\* The two amplitudes a matrix makes of two.
Low(matrix, a, b) == Plus(Times(matrix[1][1], a), Times(matrix[1][2], b))
High(matrix, a, b) == Plus(Times(matrix[2][1], a), Times(matrix[2][2], b))

\* A row with bits x and z on a qubit takes the amplitudes u0, u1 of its two values,
\* turned by the rest of the row, to v0, v1.
At(x, z, u0, u1, v0, v1) ==
    IF x THEN IF z THEN v1 = Turned(u0, 1) /\ v0 = Turned(u1, 3)
              ELSE v1 = u0 /\ v0 = u1
    ELSE v0 = u0 /\ v1 = IF z THEN Turned(u1, 2) ELSE u1

\* What qubits other than q give to the exponent.
Rest(g, q, b) ==
    g.phase + Cardinality((g.x \cap g.z) \ {q}) + 2 * Cardinality((b \cap g.z) \ {q})

\* The exponent without the part of a qubit is a natural number.
LEMMA RestType ==
    ASSUME NEW g \in Paulis, NEW q \in Qubits, NEW b \in Basis
    PROVE  Rest(g, q, b) \in Nat
  <1>1. g.phase \in Nat /\ g.x \cap g.z \in SUBSET Qubits /\ b \cap g.z \in SUBSET Qubits
    BY RowParts DEF Basis
  <1>2. Cardinality((g.x \cap g.z) \ {q}) \in Nat /\ Cardinality((b \cap g.z) \ {q}) \in Nat
    BY <1>1, CountApart
  <1> QED BY <1>1, <1>2 DEF Rest

\* The exponent with the part of a qubit apart.
LEMMA ExponentApart ==
    ASSUME NEW g \in Paulis, NEW q \in Qubits, NEW b \in Basis, q \notin b
    PROVE  /\ Exponent(g, b) = Rest(g, q, b) + Bit(q \in g.x /\ q \in g.z)
           /\ Exponent(g, b \cup {q}) = Rest(g, q, b) + Bit(q \in g.x /\ q \in g.z) + 2 * Bit(q \in g.z)
           /\ b \cup {q} \in Basis
  <1> DEFINE A == g.x \cap g.z
             B == b \cap g.z
             C == (b \cup {q}) \cap g.z
  <1>1. A \in SUBSET Qubits /\ B \in SUBSET Qubits /\ C \in SUBSET Qubits /\ b \cup {q} \in Basis
        /\ g.phase \in Nat
    BY RowParts DEF Basis
  <1>2. /\ Cardinality(A) = Cardinality(A \ {q}) + Bit(q \in A)
        /\ Cardinality(B) = Cardinality(B \ {q}) + Bit(q \in B)
        /\ Cardinality(C) = Cardinality(C \ {q}) + Bit(q \in C)
        /\ Cardinality(A \ {q}) \in Nat /\ Cardinality(B \ {q}) \in Nat
    <2> HIDE DEF A, B, C
    <2> QED BY <1>1, CountApart
  <1>3. C \ {q} = B \ {q}
    OBVIOUS
  <1>4. /\ Bit(q \in A) = Bit(q \in g.x /\ q \in g.z) /\ Bit(q \in B) = 0 /\ Bit(q \in C) = Bit(q \in g.z)
        /\ Bit(q \in g.x /\ q \in g.z) \in Nat /\ Bit(q \in g.z) \in Nat
    BY DEF Bit
  <1>5. /\ Exponent(g, b) = g.phase + Cardinality(A) + 2 * Cardinality(B)
        /\ Exponent(g, b \cup {q}) = g.phase + Cardinality(A) + 2 * Cardinality(C)
        /\ Rest(g, q, b) = g.phase + Cardinality(A \ {q}) + 2 * Cardinality(B \ {q})
    BY DEF Exponent, Rest
  <1> HIDE DEF A, B, C
  <1> DEFINE m == Cardinality(A \ {q})
             n == Cardinality(B \ {q})
             y == Bit(q \in g.x /\ q \in g.z)
             z == Bit(q \in g.z)
  <1>6. /\ Cardinality(A) = m + y /\ Cardinality(B) = n + 0 /\ Cardinality(C) = n + z
        /\ m \in Nat /\ n \in Nat /\ y \in Nat /\ z \in Nat
    BY <1>2, <1>3, <1>4
  <1>7. /\ Exponent(g, b) = g.phase + (m + y) + 2 * (n + 0)
        /\ Exponent(g, b \cup {q}) = g.phase + (m + y) + 2 * (n + z)
        /\ Rest(g, q, b) = g.phase + m + 2 * n
    BY <1>5, <1>6
  <1>8. /\ Exponent(g, b) = Rest(g, q, b) + y
        /\ Exponent(g, b \cup {q}) = Rest(g, q, b) + y + 2 * z
    <2> HIDE DEF m, n, y, z
    <2> QED BY <1>1, <1>6, <1>7
  <1> QED BY <1>1, <1>8

\* Fixing a state, pair by pair of the amplitudes that differ in qubit q.
LEMMA FixesAt ==
    ASSUME NEW g \in Paulis, NEW q \in Qubits, NEW psi \in [Basis -> Complex]
    PROVE  Fixes(g, psi) <=>
             \A b \in Basis : q \notin b =>
                LET r == Rest(g, q, b)
                    c == SymDiff(b, g.x \ {q})
                IN  At(q \in g.x, q \in g.z, Turned(psi[b], r), Turned(psi[b \cup {q}], r),
                       psi[c], psi[c \cup {q}])
  <1>1. ASSUME NEW b \in Basis, q \notin b
        PROVE  LET r == Rest(g, q, b)
                   c == SymDiff(b, g.x \ {q})
               IN  (/\ psi[SymDiff(b, g.x)] = Turned(psi[b], Exponent(g, b))
                    /\ psi[SymDiff(b \cup {q}, g.x)] = Turned(psi[b \cup {q}], Exponent(g, b \cup {q})))
                   <=> At(q \in g.x, q \in g.z, Turned(psi[b], r), Turned(psi[b \cup {q}], r),
                          psi[c], psi[c \cup {q}])
    <2> DEFINE r == Rest(g, q, b)
               c == SymDiff(b, g.x \ {q})
    <2>1. r \in Nat /\ b \cup {q} \in Basis /\ psi[b] \in Complex /\ psi[b \cup {q}] \in Complex
      BY <1>1, RestType, ExponentApart
    <2>2. /\ Exponent(g, b) = r + Bit(q \in g.x /\ q \in g.z)
          /\ Exponent(g, b \cup {q}) = r + Bit(q \in g.x /\ q \in g.z) + 2 * Bit(q \in g.z)
      BY <1>1, ExponentApart
    <2>3. q \notin c
      BY <1>1 DEF SymDiff
    <2>4. q \in g.x => SymDiff(b, g.x) = c \cup {q} /\ SymDiff(b \cup {q}, g.x) = c
      BY <1>1 DEF SymDiff
    <2>5. q \notin g.x => SymDiff(b, g.x) = c /\ SymDiff(b \cup {q}, g.x) = c \cup {q}
      BY <1>1 DEF SymDiff
    <2> HIDE DEF r, c
    <2>6. ASSUME NEW a \in Complex, NEW k \in Int PROVE Turned(a, r + k) = Turned(Turned(a, r), k)
      BY <2>1, TurnedSum
    <2>7. r + 0 = r /\ r + 0 + 0 = r + 0 /\ r + 0 + 2 = r + 2 /\ r + 1 + 2 = r + 3
      BY <2>1
    <2>8. CASE q \in g.x /\ q \in g.z
      <3>1. Exponent(g, b) = r + 1 /\ Exponent(g, b \cup {q}) = r + 3
        BY <2>1, <2>2, <2>8 DEF Bit
      <3>2. /\ psi[SymDiff(b, g.x)] = psi[c \cup {q}]
            /\ psi[SymDiff(b \cup {q}, g.x)] = psi[c]
        BY <2>4, <2>8
      <3>3. /\ Turned(psi[b], Exponent(g, b)) = Turned(Turned(psi[b], r), 1)
            /\ Turned(psi[b \cup {q}], Exponent(g, b \cup {q})) = Turned(Turned(psi[b \cup {q}], r), 3)
        BY <2>1, <2>6, <3>1
      <3> QED BY <2>8, <3>2, <3>3 DEF At, r, c
    <2>9. CASE q \in g.x /\ q \notin g.z
      <3>1. Exponent(g, b) = r /\ Exponent(g, b \cup {q}) = r
        BY <2>1, <2>2, <2>9 DEF Bit
      <3> QED BY <2>1, <2>4, <2>6, <2>9, <3>1 DEF At, r, c
    <2>10. CASE q \notin g.x /\ q \in g.z
      <3>1. Exponent(g, b) = r /\ Exponent(g, b \cup {q}) = r + 2
        BY <2>1, <2>2, <2>10 DEF Bit
      <3>2. /\ psi[SymDiff(b, g.x)] = psi[c]
            /\ psi[SymDiff(b \cup {q}, g.x)] = psi[c \cup {q}]
        BY <2>5, <2>10
      <3>3. /\ Turned(psi[b], Exponent(g, b)) = Turned(psi[b], r)
            /\ Turned(psi[b \cup {q}], Exponent(g, b \cup {q})) = Turned(Turned(psi[b \cup {q}], r), 2)
        BY <2>1, <2>6, <3>1
      <3> QED BY <2>10, <3>2, <3>3 DEF At, r, c
    <2>11. CASE q \notin g.x /\ q \notin g.z
      <3>1. Exponent(g, b) = r /\ Exponent(g, b \cup {q}) = r
        BY <2>1, <2>2, <2>11 DEF Bit
      <3> QED BY <2>1, <2>5, <2>6, <2>11, <3>1 DEF At, r, c
    <2> QED BY <2>8, <2>9, <2>10, <2>11
  <1>2. ASSUME Fixes(g, psi), NEW b \in Basis, q \notin b
        PROVE  /\ psi[SymDiff(b, g.x)] = Turned(psi[b], Exponent(g, b))
               /\ psi[SymDiff(b \cup {q}, g.x)] = Turned(psi[b \cup {q}], Exponent(g, b \cup {q}))
    BY <1>2, ExponentApart DEF Fixes
  <1>3. ASSUME \A b \in Basis : q \notin b =>
                  /\ psi[SymDiff(b, g.x)] = Turned(psi[b], Exponent(g, b))
                  /\ psi[SymDiff(b \cup {q}, g.x)] = Turned(psi[b \cup {q}], Exponent(g, b \cup {q}))
        PROVE  Fixes(g, psi)
    <2>1. ASSUME NEW b \in Basis PROVE psi[SymDiff(b, g.x)] = Turned(psi[b], Exponent(g, b))
      <3>1. CASE q \notin b
        BY <1>3, <3>1
      <3>2. CASE q \in b
        <4>1. b \ {q} \in Basis /\ q \notin b \ {q} /\ (b \ {q}) \cup {q} = b
          BY <3>2 DEF Basis
        <4> QED BY <1>3, <4>1
      <3> QED BY <3>1, <3>2
    <2> QED BY <2>1 DEF Fixes
  <1> QED BY <1>1, <1>2, <1>3

-----------------------------------------------------------------------------
(* The matrices of the gates *)

Units == {One, Zero, Minus(One), ImaginaryUnit, Minus(ImaginaryUnit)}

UnitMatrix(matrix) ==
    /\ matrix[1][1] \in Units /\ matrix[1][2] \in Units
    /\ matrix[2][1] \in Units /\ matrix[2][2] \in Units

\* The matrix takes nothing but zero to zero.
Regular(matrix) ==
    \A a, b \in Complex : Low(matrix, a, b) = Zero /\ High(matrix, a, b) = Zero => a = Zero /\ b = Zero

\* What a row with bits x, z does to two amplitudes, the row with bits x2, z2, of the
\* other sign if flip, does to what the matrix makes of them.
Rule(matrix, x, z, x2, z2, flip) ==
    \A w0, w1, v0, v1 \in Complex :
        At(x, z, w0, w1, v0, v1) =>
            At(x2, z2, Turned(Low(matrix, w0, w1), 2 * Bit(flip)), Turned(High(matrix, w0, w1), 2 * Bit(flip)),
               Low(matrix, v0, v1), High(matrix, v0, v1))

\* A product with an entry of a matrix, turned.
LEMMA UnitTimes ==
    ASSUME NEW e \in Units, NEW a \in Complex, NEW k \in Int
    PROVE  Times(e, a) \in Complex /\ Times(e, Turned(a, k)) = Turned(Times(e, a), k)
  <1>1. Turned(a, k) \in Complex
    BY TurnedType
  <1>2. CASE e = Zero
    BY <1>1, <1>2, Entries, TurnedZero
  <1>3. CASE e = One
    BY <1>1, <1>3, Entries
  <1>4. ASSUME NEW j \in {1, 2, 3}, \A b \in Complex : Times(e, b) = Turned(b, j)
        PROVE  Times(e, a) \in Complex /\ Times(e, Turned(a, k)) = Turned(Times(e, a), k)
    <2>1. j \in Int /\ j + k = k + j
      OBVIOUS
    <2>2. Times(e, a) = Turned(a, j) /\ Times(e, Turned(a, k)) = Turned(Turned(a, k), j)
      BY <1>1, <1>4
    <2> QED BY <2>1, <2>2, TurnedSum, TurnedType
  <1>5. CASE e = ImaginaryUnit
    BY <1>4, <1>5, Entries
  <1>6. CASE e = Minus(One)
    BY <1>4, <1>6, Entries
  <1>7. CASE e = Minus(ImaginaryUnit)
    BY <1>4, <1>7, Entries
  <1> QED BY <1>2, <1>3, <1>5, <1>6, <1>7 DEF Units

\* What a matrix makes of two amplitudes that are turned.
LEMMA MixedTurn ==
    ASSUME NEW matrix, UnitMatrix(matrix), NEW a \in Complex, NEW b \in Complex, NEW k \in Int
    PROVE  /\ Low(matrix, a, b) \in Complex /\ High(matrix, a, b) \in Complex
           /\ Low(matrix, Turned(a, k), Turned(b, k)) = Turned(Low(matrix, a, b), k)
           /\ High(matrix, Turned(a, k), Turned(b, k)) = Turned(High(matrix, a, b), k)
  <1>1. ASSUME NEW e \in Units, NEW f \in Units
        PROVE  /\ Plus(Times(e, a), Times(f, b)) \in Complex
               /\ Plus(Times(e, Turned(a, k)), Times(f, Turned(b, k))) = Turned(Plus(Times(e, a), Times(f, b)), k)
    <2>1. Times(e, a) \in Complex /\ Times(f, b) \in Complex
      BY UnitTimes
    <2>2. Times(e, Turned(a, k)) = Turned(Times(e, a), k) /\ Times(f, Turned(b, k)) = Turned(Times(f, b), k)
      BY UnitTimes
    <2> QED BY <2>1, <2>2, PlusParts, TurnedPlus
  <1> QED BY <1>1 DEF Low, High, UnitMatrix

\* What a kernel makes of a pair of amplitudes.
LEMMA KernelIs ==
    ASSUME NEW matrix, UnitMatrix(matrix), NEW psi \in [Basis -> Complex], NEW q \in Qubits
    PROVE  /\ Kernel(psi, matrix, q, {}) \in [Basis -> Complex]
           /\ \A b \in Basis : q \notin b =>
                /\ Kernel(psi, matrix, q, {})[b] = Low(matrix, psi[b], psi[b \cup {q}])
                /\ Kernel(psi, matrix, q, {})[b \cup {q}] = High(matrix, psi[b], psi[b \cup {q}])
  <1> DEFINE K == Kernel(psi, matrix, q, {})
  <1>1. K = [b \in Basis |-> IF q \in b THEN High(matrix, psi[b \ {q}], psi[b \cup {q}])
                             ELSE Low(matrix, psi[b \ {q}], psi[b \cup {q}])]
    BY DEF Kernel, Low, High
  <1> HIDE DEF K
  <1>2. \A b \in Basis : b \ {q} \in Basis /\ b \cup {q} \in Basis
    BY DEF Basis
  <1>3. K \in [Basis -> Complex]
    BY <1>1, <1>2, MixedTurn
  <1>4. ASSUME NEW b \in Basis, q \notin b
        PROVE  K[b] = Low(matrix, psi[b], psi[b \cup {q}]) /\ K[b \cup {q}] = High(matrix, psi[b], psi[b \cup {q}])
    <2>1. b \ {q} = b /\ (b \cup {q}) \ {q} = b /\ (b \cup {q}) \cup {q} = b \cup {q} /\ q \in b \cup {q}
      BY <1>4
    <2> QED BY <1>1, <1>2, <1>4, <2>1
  <1> QED BY <1>3, <1>4 DEF K

\* A gate that follows its rule takes a row that fixes a state to one that fixes the next.
LEMMA RewrittenFixes ==
    ASSUME NEW matrix, UnitMatrix(matrix), NEW psi \in [Basis -> Complex], NEW q \in Qubits,
           NEW g \in Paulis, Fixes(g, psi), NEW x2 \in BOOLEAN, NEW z2 \in BOOLEAN, NEW flip \in BOOLEAN,
           Rule(matrix, q \in g.x, q \in g.z, x2, z2, flip)
    PROVE  Fixes(Rewritten(g, q, x2, z2, flip), Kernel(psi, matrix, q, {}))
  <1> DEFINE h == Rewritten(g, q, x2, z2, flip)
             K == Kernel(psi, matrix, q, {})
  <1>1. /\ h.x = With(g.x, q, x2) /\ h.z = With(g.z, q, z2) /\ h.phase = Signed(g.phase, flip)
        /\ h = [x |-> With(g.x, q, x2), z |-> With(g.z, q, z2), phase |-> Signed(g.phase, flip)]
    BY DEF Rewritten
  <1>2. g.x \subseteq Qubits /\ g.z \subseteq Qubits /\ g.phase \in 0 .. 3
    BY RowParts
  <1> HIDE DEF h
  <1>3. h.phase \in 0 .. 3 /\ (h.phase - (g.phase + 2 * Bit(flip))) % 4 = 0
    BY <1>1, <1>2 DEF Signed, Bit
  <1>4. h \in Paulis
    BY <1>1, <1>2, <1>3 DEF Paulis, With
  <1>5. h.x \ {q} = g.x \ {q} /\ h.z \ {q} = g.z \ {q} /\ (q \in h.x <=> x2) /\ (q \in h.z <=> z2)
    BY <1>1 DEF With
  <1>6. K \in [Basis -> Complex]
    BY KernelIs
  <1>7. \A d \in Basis : q \notin d =>
            /\ K[d] = Low(matrix, psi[d], psi[d \cup {q}]) /\ K[d \cup {q}] = High(matrix, psi[d], psi[d \cup {q}])
    BY KernelIs
  <1> HIDE DEF K
  <1>8. ASSUME NEW b \in Basis, q \notin b
        PROVE  LET r == Rest(h, q, b)
                   c == SymDiff(b, h.x \ {q})
               IN  At(q \in h.x, q \in h.z, Turned(K[b], r), Turned(K[b \cup {q}], r), K[c], K[c \cup {q}])
    <2> DEFINE r == Rest(g, q, b)
               s == Rest(h, q, b)
               c == SymDiff(b, g.x \ {q})
               w0 == Turned(psi[b], r)
               w1 == Turned(psi[b \cup {q}], r)
               v0 == psi[c]
               v1 == psi[c \cup {q}]
               f == 2 * Bit(flip)
    <2>1. r \in Nat /\ s \in Nat /\ f \in Nat
      BY <1>4, RestType DEF Bit
    <2>2. (s - (r + f)) % 4 = 0
      <3>1. (h.x \cap h.z) \ {q} = (g.x \cap g.z) \ {q} /\ (b \cap h.z) \ {q} = (b \cap g.z) \ {q}
        BY <1>5
      <3> DEFINE m == Cardinality((g.x \cap g.z) \ {q})
                 n == Cardinality((b \cap g.z) \ {q})
      <3>2. r = g.phase + m + 2 * n /\ s = h.phase + m + 2 * n
        BY <3>1 DEF Rest
      <3>3. m \in Nat /\ n \in Nat
        <4>1. g.x \cap g.z \in SUBSET Qubits /\ b \cap g.z \in SUBSET Qubits
          BY <1>2 DEF Basis
        <4> QED BY <4>1, CountApart
      <3> HIDE DEF m, n, r, s, f
      <3>4. (h.phase - (g.phase + f)) % 4 = 0 /\ h.phase \in Int /\ g.phase \in Int
        BY <1>2, <1>3 DEF f
      <3> QED BY <2>1, <3>2, <3>3, <3>4
    <2>3. c \in Basis /\ q \notin c /\ b \cup {q} \in Basis /\ c \cup {q} \in Basis
      BY <1>2, <1>8 DEF Basis, SymDiff
    <2>4. At(q \in g.x, q \in g.z, w0, w1, v0, v1)
      BY <1>8, FixesAt
    <2>5. w0 \in Complex /\ w1 \in Complex /\ v0 \in Complex /\ v1 \in Complex
      BY <2>1, <2>3, TurnedType
    <2>6. At(x2, z2, Turned(Low(matrix, w0, w1), f), Turned(High(matrix, w0, w1), f),
             Low(matrix, v0, v1), High(matrix, v0, v1))
      <3> HIDE DEF w0, w1, v0, v1
      <3> QED BY <2>4, <2>5 DEF Rule
    <2>7. K[c] = Low(matrix, v0, v1) /\ K[c \cup {q}] = High(matrix, v0, v1)
      BY <1>7, <2>3
    <2>8. K[b] \in Complex /\ K[b \cup {q}] \in Complex
      BY <1>6, <2>3
    <2>9. Low(matrix, w0, w1) = Turned(K[b], r) /\ High(matrix, w0, w1) = Turned(K[b \cup {q}], r)
      <3>1. K[b] = Low(matrix, psi[b], psi[b \cup {q}]) /\ K[b \cup {q}] = High(matrix, psi[b], psi[b \cup {q}])
        BY <1>8, <1>7
      <3>2. psi[b] \in Complex /\ psi[b \cup {q}] \in Complex
        BY <2>3
      <3> HIDE DEF K, r
      <3> QED BY <2>1, <3>1, <3>2, MixedTurn
    <2>10. ASSUME NEW a \in Complex PROVE Turned(Turned(a, r), f) = Turned(a, s)
      <3>1. Turned(Turned(a, r), f) = Turned(a, r + f)
        BY <2>1, TurnedSum
      <3>2. Turned(a, s) = Turned(a, r + f)
        <4> HIDE DEF r, s, f
        <4>1. r + f \in Int /\ s \in Int
          BY <2>1
        <4> QED BY <2>2, <4>1, TurnedSame
      <3> QED BY <3>1, <3>2
    <2> HIDE DEF K, r, s, f, v0, v1, w0, w1
    <2>11. At(x2, z2, Turned(K[b], s), Turned(K[b \cup {q}], s), K[c], K[c \cup {q}])
      BY <2>6, <2>7, <2>8, <2>9, <2>10
    <2>12. c = SymDiff(b, h.x \ {q})
      BY <1>5
    <2> HIDE DEF c
    <2> QED BY <1>5, <2>11, <2>12 DEF s
  <1> QED BY <1>4, <1>6, <1>8, FixesAt DEF h, K

\* A state that is there is still there after a gate.
LEMMA KernelNonzero ==
    ASSUME NEW matrix, UnitMatrix(matrix), Regular(matrix), NEW psi \in [Basis -> Complex], NEW q \in Qubits,
           NEW b \in Basis, psi[b] # Zero
    PROVE  \E c \in Basis : Kernel(psi, matrix, q, {})[c] # Zero
  <1> DEFINE d == b \ {q}
  <1>1. d \in Basis /\ d \cup {q} \in Basis /\ q \notin d /\ (b = d \/ b = d \cup {q})
    BY DEF Basis
  <1> HIDE DEF d
  <1>2. psi[d] # Zero \/ psi[d \cup {q}] # Zero
    BY <1>1
  <1>3. Low(matrix, psi[d], psi[d \cup {q}]) # Zero \/ High(matrix, psi[d], psi[d \cup {q}]) # Zero
    BY <1>1, <1>2 DEF Regular
  <1> QED BY <1>1, <1>3, KernelIs

\* How turns by constants combine.
LEMMA Turning ==
    /\ \A a \in Complex : Turned(a, 0) = a
    /\ \A a \in Complex : Turned(a, 1) \in Complex /\ Turned(a, 2) \in Complex /\ Turned(a, 3) \in Complex
    /\ \A a \in Complex :
        /\ Turned(Turned(a, 1), 1) = Turned(a, 2) /\ Turned(Turned(a, 1), 2) = Turned(a, 3)
        /\ Turned(Turned(a, 1), 3) = a /\ Turned(Turned(a, 2), 1) = Turned(a, 3)
        /\ Turned(Turned(a, 2), 2) = a /\ Turned(Turned(a, 2), 3) = Turned(a, 1)
        /\ Turned(Turned(a, 3), 1) = a /\ Turned(Turned(a, 3), 2) = Turned(a, 1)
        /\ Turned(Turned(a, 3), 3) = Turned(a, 2)
  <1>1. \A a \in Complex, j, k, l \in {0, 1, 2, 3} :
            (j + k - l) % 4 = 0 => Turned(Turned(a, j), k) = Turned(a, l)
    BY TurnedSum, TurnedSame
  <1> QED BY <1>1, TurnedConstants, TurnedType

\* How sums and turns combine.
LEMMA Adding ==
    /\ \A a, b \in Complex : Plus(a, b) \in Complex /\ Plus(a, b) = Plus(b, a)
    /\ \A a, b \in Complex :
        /\ Turned(Plus(a, b), 1) = Plus(Turned(a, 1), Turned(b, 1))
        /\ Turned(Plus(a, b), 2) = Plus(Turned(a, 2), Turned(b, 2))
        /\ Turned(Plus(a, b), 3) = Plus(Turned(a, 3), Turned(b, 3))
  <1>1. ASSUME NEW a \in Complex, NEW b \in Complex
        PROVE  Plus(a, b) \in Complex /\ Plus(a, b) = Plus(b, a)
    <2>1. a[1] \in Int /\ a[2] \in Int /\ b[1] \in Int /\ b[2] \in Int
      BY ComplexParts
    <2> QED BY <2>1, PlusParts DEF Plus
  <1> QED BY <1>1, TurnedPlus

\* The rewriting of a row by I is that of the amplitudes by its matrix.
LEMMA IdentityRule ==
    /\ UnitMatrix(IdentityMatrix) /\ Regular(IdentityMatrix)
    /\ \A x, z \in BOOLEAN : Rule(IdentityMatrix, x, z, x, z, FALSE)
  <1>1. UnitMatrix(IdentityMatrix)
    BY DEF UnitMatrix, Units, IdentityMatrix
  <1>2. ASSUME NEW a \in Complex, NEW b \in Complex
        PROVE  Low(IdentityMatrix, a, b) = a /\ High(IdentityMatrix, a, b) = b
    BY Entries, TurnedType DEF Low, High, IdentityMatrix
  <1>3. Regular(IdentityMatrix)
    BY <1>2, TurnedZero DEF Regular
  <1>4. ASSUME NEW x \in BOOLEAN, NEW z \in BOOLEAN, NEW w0 \in Complex, NEW w1 \in Complex,
               NEW v0 \in Complex, NEW v1 \in Complex, At(x, z, w0, w1, v0, v1)
        PROVE  At(x, z, Turned(Low(IdentityMatrix, w0, w1), 2 * Bit(FALSE)), Turned(High(IdentityMatrix, w0, w1), 2 * Bit(FALSE)),
                  Low(IdentityMatrix, v0, v1), High(IdentityMatrix, v0, v1))
    <2>1. /\ Low(IdentityMatrix, w0, w1) = w0 /\ High(IdentityMatrix, w0, w1) = w1
          /\ Low(IdentityMatrix, v0, v1) = v0 /\ High(IdentityMatrix, v0, v1) = v1
      BY <1>2
    <2>2. Low(IdentityMatrix, w0, w1) \in Complex /\ High(IdentityMatrix, w0, w1) \in Complex
      BY <1>1, MixedTurn
    <2>3. CASE x = TRUE /\ z = TRUE
      <3>1. v1 = Turned(w0, 1) /\ v0 = Turned(w1, 3)
        BY <2>3, <1>4 DEF At
      <3>2. At(TRUE, TRUE, Turned(Low(IdentityMatrix, w0, w1), 0), Turned(High(IdentityMatrix, w0, w1), 0),
               Low(IdentityMatrix, v0, v1), High(IdentityMatrix, v0, v1))
        BY <2>1, <2>2, <3>1, Turning DEF At
      <3>3. 2 * Bit(FALSE) = 0 /\ x = TRUE /\ z = TRUE
        BY <2>3 DEF Bit, Xor
      <3> QED BY <3>2, <3>3
    <2>4. CASE x = TRUE /\ z = FALSE
      <3>1. v1 = w0 /\ v0 = w1
        BY <2>4, <1>4 DEF At
      <3>2. At(TRUE, FALSE, Turned(Low(IdentityMatrix, w0, w1), 0), Turned(High(IdentityMatrix, w0, w1), 0),
               Low(IdentityMatrix, v0, v1), High(IdentityMatrix, v0, v1))
        BY <2>1, <2>2, <3>1, Turning DEF At
      <3>3. 2 * Bit(FALSE) = 0 /\ x = TRUE /\ z = FALSE
        BY <2>4 DEF Bit, Xor
      <3> QED BY <3>2, <3>3
    <2>5. CASE x = FALSE /\ z = TRUE
      <3>1. v0 = w0 /\ v1 = Turned(w1, 2)
        BY <2>5, <1>4 DEF At
      <3>2. At(FALSE, TRUE, Turned(Low(IdentityMatrix, w0, w1), 0), Turned(High(IdentityMatrix, w0, w1), 0),
               Low(IdentityMatrix, v0, v1), High(IdentityMatrix, v0, v1))
        BY <2>1, <2>2, <3>1, Turning DEF At
      <3>3. 2 * Bit(FALSE) = 0 /\ x = FALSE /\ z = TRUE
        BY <2>5 DEF Bit, Xor
      <3> QED BY <3>2, <3>3
    <2>6. CASE x = FALSE /\ z = FALSE
      <3>1. v0 = w0 /\ v1 = w1
        BY <2>6, <1>4 DEF At
      <3>2. At(FALSE, FALSE, Turned(Low(IdentityMatrix, w0, w1), 0), Turned(High(IdentityMatrix, w0, w1), 0),
               Low(IdentityMatrix, v0, v1), High(IdentityMatrix, v0, v1))
        BY <2>1, <2>2, <3>1, Turning DEF At
      <3>3. 2 * Bit(FALSE) = 0 /\ x = FALSE /\ z = FALSE
        BY <2>6 DEF Bit, Xor
      <3> QED BY <3>2, <3>3
    <2> QED BY <2>3, <2>4, <2>5, <2>6
  <1> QED BY <1>1, <1>3, <1>4 DEF Rule

\* The rewriting of a row by X is that of the amplitudes by its matrix.
LEMMA XRule ==
    /\ UnitMatrix(XMatrix) /\ Regular(XMatrix)
    /\ \A x, z \in BOOLEAN : Rule(XMatrix, x, z, x, z, z)
  <1>1. UnitMatrix(XMatrix)
    BY DEF UnitMatrix, Units, XMatrix
  <1>2. ASSUME NEW a \in Complex, NEW b \in Complex
        PROVE  Low(XMatrix, a, b) = b /\ High(XMatrix, a, b) = a
    BY Entries, TurnedType DEF Low, High, XMatrix
  <1>3. Regular(XMatrix)
    BY <1>2, TurnedZero DEF Regular
  <1>4. ASSUME NEW x \in BOOLEAN, NEW z \in BOOLEAN, NEW w0 \in Complex, NEW w1 \in Complex,
               NEW v0 \in Complex, NEW v1 \in Complex, At(x, z, w0, w1, v0, v1)
        PROVE  At(x, z, Turned(Low(XMatrix, w0, w1), 2 * Bit(z)), Turned(High(XMatrix, w0, w1), 2 * Bit(z)),
                  Low(XMatrix, v0, v1), High(XMatrix, v0, v1))
    <2>1. /\ Low(XMatrix, w0, w1) = w1 /\ High(XMatrix, w0, w1) = w0
          /\ Low(XMatrix, v0, v1) = v1 /\ High(XMatrix, v0, v1) = v0
      BY <1>2
    <2>2. Low(XMatrix, w0, w1) \in Complex /\ High(XMatrix, w0, w1) \in Complex
      BY <1>1, MixedTurn
    <2>3. CASE x = TRUE /\ z = TRUE
      <3>1. v1 = Turned(w0, 1) /\ v0 = Turned(w1, 3)
        BY <2>3, <1>4 DEF At
      <3>2. At(TRUE, TRUE, Turned(Low(XMatrix, w0, w1), 2), Turned(High(XMatrix, w0, w1), 2),
               Low(XMatrix, v0, v1), High(XMatrix, v0, v1))
        BY <2>1, <2>2, <3>1, Turning DEF At
      <3>3. 2 * Bit(z) = 2 /\ x = TRUE /\ z = TRUE
        BY <2>3 DEF Bit, Xor
      <3> QED BY <3>2, <3>3
    <2>4. CASE x = TRUE /\ z = FALSE
      <3>1. v1 = w0 /\ v0 = w1
        BY <2>4, <1>4 DEF At
      <3>2. At(TRUE, FALSE, Turned(Low(XMatrix, w0, w1), 0), Turned(High(XMatrix, w0, w1), 0),
               Low(XMatrix, v0, v1), High(XMatrix, v0, v1))
        BY <2>1, <2>2, <3>1, Turning DEF At
      <3>3. 2 * Bit(z) = 0 /\ x = TRUE /\ z = FALSE
        BY <2>4 DEF Bit, Xor
      <3> QED BY <3>2, <3>3
    <2>5. CASE x = FALSE /\ z = TRUE
      <3>1. v0 = w0 /\ v1 = Turned(w1, 2)
        BY <2>5, <1>4 DEF At
      <3>2. At(FALSE, TRUE, Turned(Low(XMatrix, w0, w1), 2), Turned(High(XMatrix, w0, w1), 2),
               Low(XMatrix, v0, v1), High(XMatrix, v0, v1))
        BY <2>1, <2>2, <3>1, Turning DEF At
      <3>3. 2 * Bit(z) = 2 /\ x = FALSE /\ z = TRUE
        BY <2>5 DEF Bit, Xor
      <3> QED BY <3>2, <3>3
    <2>6. CASE x = FALSE /\ z = FALSE
      <3>1. v0 = w0 /\ v1 = w1
        BY <2>6, <1>4 DEF At
      <3>2. At(FALSE, FALSE, Turned(Low(XMatrix, w0, w1), 0), Turned(High(XMatrix, w0, w1), 0),
               Low(XMatrix, v0, v1), High(XMatrix, v0, v1))
        BY <2>1, <2>2, <3>1, Turning DEF At
      <3>3. 2 * Bit(z) = 0 /\ x = FALSE /\ z = FALSE
        BY <2>6 DEF Bit, Xor
      <3> QED BY <3>2, <3>3
    <2> QED BY <2>3, <2>4, <2>5, <2>6
  <1> QED BY <1>1, <1>3, <1>4 DEF Rule

\* The rewriting of a row by Y is that of the amplitudes by its matrix.
LEMMA YRule ==
    /\ UnitMatrix(YMatrix) /\ Regular(YMatrix)
    /\ \A x, z \in BOOLEAN : Rule(YMatrix, x, z, x, z, Xor(x, z))
  <1>1. UnitMatrix(YMatrix)
    BY DEF UnitMatrix, Units, YMatrix
  <1>2. ASSUME NEW a \in Complex, NEW b \in Complex
        PROVE  Low(YMatrix, a, b) = Turned(b, 3) /\ High(YMatrix, a, b) = Turned(a, 1)
    BY Entries, TurnedType DEF Low, High, YMatrix
  <1>3. Regular(YMatrix)
    BY <1>2, TurnedZero DEF Regular
  <1>4. ASSUME NEW x \in BOOLEAN, NEW z \in BOOLEAN, NEW w0 \in Complex, NEW w1 \in Complex,
               NEW v0 \in Complex, NEW v1 \in Complex, At(x, z, w0, w1, v0, v1)
        PROVE  At(x, z, Turned(Low(YMatrix, w0, w1), 2 * Bit(Xor(x, z))), Turned(High(YMatrix, w0, w1), 2 * Bit(Xor(x, z))),
                  Low(YMatrix, v0, v1), High(YMatrix, v0, v1))
    <2>1. /\ Low(YMatrix, w0, w1) = Turned(w1, 3) /\ High(YMatrix, w0, w1) = Turned(w0, 1)
          /\ Low(YMatrix, v0, v1) = Turned(v1, 3) /\ High(YMatrix, v0, v1) = Turned(v0, 1)
      BY <1>2
    <2>2. Low(YMatrix, w0, w1) \in Complex /\ High(YMatrix, w0, w1) \in Complex
      BY <1>1, MixedTurn
    <2>3. CASE x = TRUE /\ z = TRUE
      <3>1. v1 = Turned(w0, 1) /\ v0 = Turned(w1, 3)
        BY <2>3, <1>4 DEF At
      <3>2. At(TRUE, TRUE, Turned(Low(YMatrix, w0, w1), 0), Turned(High(YMatrix, w0, w1), 0),
               Low(YMatrix, v0, v1), High(YMatrix, v0, v1))
        BY <2>1, <2>2, <3>1, Turning DEF At
      <3>3. 2 * Bit(Xor(x, z)) = 0 /\ x = TRUE /\ z = TRUE
        BY <2>3 DEF Bit, Xor
      <3> QED BY <3>2, <3>3
    <2>4. CASE x = TRUE /\ z = FALSE
      <3>1. v1 = w0 /\ v0 = w1
        BY <2>4, <1>4 DEF At
      <3>2. At(TRUE, FALSE, Turned(Low(YMatrix, w0, w1), 2), Turned(High(YMatrix, w0, w1), 2),
               Low(YMatrix, v0, v1), High(YMatrix, v0, v1))
        BY <2>1, <2>2, <3>1, Turning DEF At
      <3>3. 2 * Bit(Xor(x, z)) = 2 /\ x = TRUE /\ z = FALSE
        BY <2>4 DEF Bit, Xor
      <3> QED BY <3>2, <3>3
    <2>5. CASE x = FALSE /\ z = TRUE
      <3>1. v0 = w0 /\ v1 = Turned(w1, 2)
        BY <2>5, <1>4 DEF At
      <3>2. At(FALSE, TRUE, Turned(Low(YMatrix, w0, w1), 2), Turned(High(YMatrix, w0, w1), 2),
               Low(YMatrix, v0, v1), High(YMatrix, v0, v1))
        BY <2>1, <2>2, <3>1, Turning DEF At
      <3>3. 2 * Bit(Xor(x, z)) = 2 /\ x = FALSE /\ z = TRUE
        BY <2>5 DEF Bit, Xor
      <3> QED BY <3>2, <3>3
    <2>6. CASE x = FALSE /\ z = FALSE
      <3>1. v0 = w0 /\ v1 = w1
        BY <2>6, <1>4 DEF At
      <3>2. At(FALSE, FALSE, Turned(Low(YMatrix, w0, w1), 0), Turned(High(YMatrix, w0, w1), 0),
               Low(YMatrix, v0, v1), High(YMatrix, v0, v1))
        BY <2>1, <2>2, <3>1, Turning DEF At
      <3>3. 2 * Bit(Xor(x, z)) = 0 /\ x = FALSE /\ z = FALSE
        BY <2>6 DEF Bit, Xor
      <3> QED BY <3>2, <3>3
    <2> QED BY <2>3, <2>4, <2>5, <2>6
  <1> QED BY <1>1, <1>3, <1>4 DEF Rule

\* The rewriting of a row by Z is that of the amplitudes by its matrix.
LEMMA ZRule ==
    /\ UnitMatrix(ZMatrix) /\ Regular(ZMatrix)
    /\ \A x, z \in BOOLEAN : Rule(ZMatrix, x, z, x, z, x)
  <1>1. UnitMatrix(ZMatrix)
    BY DEF UnitMatrix, Units, ZMatrix
  <1>2. ASSUME NEW a \in Complex, NEW b \in Complex
        PROVE  Low(ZMatrix, a, b) = a /\ High(ZMatrix, a, b) = Turned(b, 2)
    BY Entries, TurnedType DEF Low, High, ZMatrix
  <1>3. Regular(ZMatrix)
    BY <1>2, TurnedZero DEF Regular
  <1>4. ASSUME NEW x \in BOOLEAN, NEW z \in BOOLEAN, NEW w0 \in Complex, NEW w1 \in Complex,
               NEW v0 \in Complex, NEW v1 \in Complex, At(x, z, w0, w1, v0, v1)
        PROVE  At(x, z, Turned(Low(ZMatrix, w0, w1), 2 * Bit(x)), Turned(High(ZMatrix, w0, w1), 2 * Bit(x)),
                  Low(ZMatrix, v0, v1), High(ZMatrix, v0, v1))
    <2>1. /\ Low(ZMatrix, w0, w1) = w0 /\ High(ZMatrix, w0, w1) = Turned(w1, 2)
          /\ Low(ZMatrix, v0, v1) = v0 /\ High(ZMatrix, v0, v1) = Turned(v1, 2)
      BY <1>2
    <2>2. Low(ZMatrix, w0, w1) \in Complex /\ High(ZMatrix, w0, w1) \in Complex
      BY <1>1, MixedTurn
    <2>3. CASE x = TRUE /\ z = TRUE
      <3>1. v1 = Turned(w0, 1) /\ v0 = Turned(w1, 3)
        BY <2>3, <1>4 DEF At
      <3>2. At(TRUE, TRUE, Turned(Low(ZMatrix, w0, w1), 2), Turned(High(ZMatrix, w0, w1), 2),
               Low(ZMatrix, v0, v1), High(ZMatrix, v0, v1))
        BY <2>1, <2>2, <3>1, Turning DEF At
      <3>3. 2 * Bit(x) = 2 /\ x = TRUE /\ z = TRUE
        BY <2>3 DEF Bit, Xor
      <3> QED BY <3>2, <3>3
    <2>4. CASE x = TRUE /\ z = FALSE
      <3>1. v1 = w0 /\ v0 = w1
        BY <2>4, <1>4 DEF At
      <3>2. At(TRUE, FALSE, Turned(Low(ZMatrix, w0, w1), 2), Turned(High(ZMatrix, w0, w1), 2),
               Low(ZMatrix, v0, v1), High(ZMatrix, v0, v1))
        BY <2>1, <2>2, <3>1, Turning DEF At
      <3>3. 2 * Bit(x) = 2 /\ x = TRUE /\ z = FALSE
        BY <2>4 DEF Bit, Xor
      <3> QED BY <3>2, <3>3
    <2>5. CASE x = FALSE /\ z = TRUE
      <3>1. v0 = w0 /\ v1 = Turned(w1, 2)
        BY <2>5, <1>4 DEF At
      <3>2. At(FALSE, TRUE, Turned(Low(ZMatrix, w0, w1), 0), Turned(High(ZMatrix, w0, w1), 0),
               Low(ZMatrix, v0, v1), High(ZMatrix, v0, v1))
        BY <2>1, <2>2, <3>1, Turning DEF At
      <3>3. 2 * Bit(x) = 0 /\ x = FALSE /\ z = TRUE
        BY <2>5 DEF Bit, Xor
      <3> QED BY <3>2, <3>3
    <2>6. CASE x = FALSE /\ z = FALSE
      <3>1. v0 = w0 /\ v1 = w1
        BY <2>6, <1>4 DEF At
      <3>2. At(FALSE, FALSE, Turned(Low(ZMatrix, w0, w1), 0), Turned(High(ZMatrix, w0, w1), 0),
               Low(ZMatrix, v0, v1), High(ZMatrix, v0, v1))
        BY <2>1, <2>2, <3>1, Turning DEF At
      <3>3. 2 * Bit(x) = 0 /\ x = FALSE /\ z = FALSE
        BY <2>6 DEF Bit, Xor
      <3> QED BY <3>2, <3>3
    <2> QED BY <2>3, <2>4, <2>5, <2>6
  <1> QED BY <1>1, <1>3, <1>4 DEF Rule

\* The rewriting of a row by H is that of the amplitudes by its matrix.
LEMMA HRule ==
    /\ UnitMatrix(HMatrix) /\ Regular(HMatrix)
    /\ \A x, z \in BOOLEAN : Rule(HMatrix, x, z, z, x, x /\ z)
  <1>1. UnitMatrix(HMatrix)
    BY DEF UnitMatrix, Units, HMatrix
  <1>2. ASSUME NEW a \in Complex, NEW b \in Complex
        PROVE  Low(HMatrix, a, b) = Plus(a, b) /\ High(HMatrix, a, b) = Plus(a, Turned(b, 2))
    BY Entries, TurnedType DEF Low, High, HMatrix
  <1>3. Regular(HMatrix)
    <2> SUFFICES ASSUME NEW a \in Complex, NEW b \in Complex, Low(HMatrix, a, b) = Zero, High(HMatrix, a, b) = Zero
                 PROVE  a = Zero /\ b = Zero
      BY DEF Regular
    <2>1. PICK p \in Int, r \in Int, s \in Int, t \in Int : a = <<p, r>> /\ b = <<s, t>>
      BY DEF Complex
    <2>2. Plus(a, b) = <<0, 0>> /\ Plus(a, Turned(b, 2)) = <<0, 0>>
      BY <1>2 DEF Zero
    <2>3. Turned(b, 2) = <<-s, -t>>
      BY <2>1, TurnedPair
    <2>4. Plus(a, b) = Plus(<<p, r>>, <<s, t>>) /\ Plus(a, Turned(b, 2)) = Plus(<<p, r>>, <<-s, -t>>)
      BY <2>1, <2>3
    <2>5. Plus(a, b) = <<p + s, r + t>> /\ Plus(a, Turned(b, 2)) = <<p + (-s), r + (-t)>>
      BY <2>4 DEF Plus
    <2>6. p + s = 0 /\ r + t = 0 /\ p + (-s) = 0 /\ r + (-t) = 0
      BY <2>2, <2>5
    <2>7. p = 0 /\ r = 0 /\ s = 0 /\ t = 0
      BY <2>6
    <2> QED BY <2>1, <2>7 DEF Zero
  <1>4. ASSUME NEW x \in BOOLEAN, NEW z \in BOOLEAN, NEW w0 \in Complex, NEW w1 \in Complex,
               NEW v0 \in Complex, NEW v1 \in Complex, At(x, z, w0, w1, v0, v1)
        PROVE  At(z, x, Turned(Low(HMatrix, w0, w1), 2 * Bit(x /\ z)), Turned(High(HMatrix, w0, w1), 2 * Bit(x /\ z)),
                  Low(HMatrix, v0, v1), High(HMatrix, v0, v1))
    <2>1. /\ Low(HMatrix, w0, w1) = Plus(w0, w1) /\ High(HMatrix, w0, w1) = Plus(w0, Turned(w1, 2))
          /\ Low(HMatrix, v0, v1) = Plus(v0, v1) /\ High(HMatrix, v0, v1) = Plus(v0, Turned(v1, 2))
      BY <1>2
    <2>2. Low(HMatrix, w0, w1) \in Complex /\ High(HMatrix, w0, w1) \in Complex
      BY <1>1, MixedTurn
    <2>3. CASE x = TRUE /\ z = TRUE
      <3>1. v1 = Turned(w0, 1) /\ v0 = Turned(w1, 3)
        BY <2>3, <1>4 DEF At
      <3>2. At(TRUE, TRUE, Turned(Low(HMatrix, w0, w1), 2), Turned(High(HMatrix, w0, w1), 2),
               Low(HMatrix, v0, v1), High(HMatrix, v0, v1))
        BY <2>1, <2>2, <3>1, Turning, Adding DEF At
      <3>3. 2 * Bit(x /\ z) = 2 /\ z = TRUE /\ x = TRUE
        BY <2>3 DEF Bit, Xor
      <3> QED BY <3>2, <3>3
    <2>4. CASE x = TRUE /\ z = FALSE
      <3>1. v1 = w0 /\ v0 = w1
        BY <2>4, <1>4 DEF At
      <3>2. At(FALSE, TRUE, Turned(Low(HMatrix, w0, w1), 0), Turned(High(HMatrix, w0, w1), 0),
               Low(HMatrix, v0, v1), High(HMatrix, v0, v1))
        BY <2>1, <2>2, <3>1, Turning, Adding DEF At
      <3>3. 2 * Bit(x /\ z) = 0 /\ z = FALSE /\ x = TRUE
        BY <2>4 DEF Bit, Xor
      <3> QED BY <3>2, <3>3
    <2>5. CASE x = FALSE /\ z = TRUE
      <3>1. v0 = w0 /\ v1 = Turned(w1, 2)
        BY <2>5, <1>4 DEF At
      <3>2. At(TRUE, FALSE, Turned(Low(HMatrix, w0, w1), 0), Turned(High(HMatrix, w0, w1), 0),
               Low(HMatrix, v0, v1), High(HMatrix, v0, v1))
        BY <2>1, <2>2, <3>1, Turning, Adding DEF At
      <3>3. 2 * Bit(x /\ z) = 0 /\ z = TRUE /\ x = FALSE
        BY <2>5 DEF Bit, Xor
      <3> QED BY <3>2, <3>3
    <2>6. CASE x = FALSE /\ z = FALSE
      <3>1. v0 = w0 /\ v1 = w1
        BY <2>6, <1>4 DEF At
      <3>2. At(FALSE, FALSE, Turned(Low(HMatrix, w0, w1), 0), Turned(High(HMatrix, w0, w1), 0),
               Low(HMatrix, v0, v1), High(HMatrix, v0, v1))
        BY <2>1, <2>2, <3>1, Turning, Adding DEF At
      <3>3. 2 * Bit(x /\ z) = 0 /\ z = FALSE /\ x = FALSE
        BY <2>6 DEF Bit, Xor
      <3> QED BY <3>2, <3>3
    <2> QED BY <2>3, <2>4, <2>5, <2>6
  <1> QED BY <1>1, <1>3, <1>4 DEF Rule

\* The rewriting of a row by S is that of the amplitudes by its matrix.
LEMMA SRule ==
    /\ UnitMatrix(SMatrix) /\ Regular(SMatrix)
    /\ \A x, z \in BOOLEAN : Rule(SMatrix, x, z, x, Xor(z, x), x /\ z)
  <1>1. UnitMatrix(SMatrix)
    BY DEF UnitMatrix, Units, SMatrix
  <1>2. ASSUME NEW a \in Complex, NEW b \in Complex
        PROVE  Low(SMatrix, a, b) = a /\ High(SMatrix, a, b) = Turned(b, 1)
    BY Entries, TurnedType DEF Low, High, SMatrix
  <1>3. Regular(SMatrix)
    BY <1>2, TurnedZero DEF Regular
  <1>4. ASSUME NEW x \in BOOLEAN, NEW z \in BOOLEAN, NEW w0 \in Complex, NEW w1 \in Complex,
               NEW v0 \in Complex, NEW v1 \in Complex, At(x, z, w0, w1, v0, v1)
        PROVE  At(x, Xor(z, x), Turned(Low(SMatrix, w0, w1), 2 * Bit(x /\ z)), Turned(High(SMatrix, w0, w1), 2 * Bit(x /\ z)),
                  Low(SMatrix, v0, v1), High(SMatrix, v0, v1))
    <2>1. /\ Low(SMatrix, w0, w1) = w0 /\ High(SMatrix, w0, w1) = Turned(w1, 1)
          /\ Low(SMatrix, v0, v1) = v0 /\ High(SMatrix, v0, v1) = Turned(v1, 1)
      BY <1>2
    <2>2. Low(SMatrix, w0, w1) \in Complex /\ High(SMatrix, w0, w1) \in Complex
      BY <1>1, MixedTurn
    <2>3. CASE x = TRUE /\ z = TRUE
      <3>1. v1 = Turned(w0, 1) /\ v0 = Turned(w1, 3)
        BY <2>3, <1>4 DEF At
      <3>2. At(TRUE, FALSE, Turned(Low(SMatrix, w0, w1), 2), Turned(High(SMatrix, w0, w1), 2),
               Low(SMatrix, v0, v1), High(SMatrix, v0, v1))
        BY <2>1, <2>2, <3>1, Turning DEF At
      <3>3. 2 * Bit(x /\ z) = 2 /\ x = TRUE /\ Xor(z, x) = FALSE
        BY <2>3 DEF Bit, Xor
      <3> QED BY <3>2, <3>3
    <2>4. CASE x = TRUE /\ z = FALSE
      <3>1. v1 = w0 /\ v0 = w1
        BY <2>4, <1>4 DEF At
      <3>2. At(TRUE, TRUE, Turned(Low(SMatrix, w0, w1), 0), Turned(High(SMatrix, w0, w1), 0),
               Low(SMatrix, v0, v1), High(SMatrix, v0, v1))
        BY <2>1, <2>2, <3>1, Turning DEF At
      <3>3. 2 * Bit(x /\ z) = 0 /\ x = TRUE /\ Xor(z, x) = TRUE
        BY <2>4 DEF Bit, Xor
      <3> QED BY <3>2, <3>3
    <2>5. CASE x = FALSE /\ z = TRUE
      <3>1. v0 = w0 /\ v1 = Turned(w1, 2)
        BY <2>5, <1>4 DEF At
      <3>2. At(FALSE, TRUE, Turned(Low(SMatrix, w0, w1), 0), Turned(High(SMatrix, w0, w1), 0),
               Low(SMatrix, v0, v1), High(SMatrix, v0, v1))
        BY <2>1, <2>2, <3>1, Turning DEF At
      <3>3. 2 * Bit(x /\ z) = 0 /\ x = FALSE /\ Xor(z, x) = TRUE
        BY <2>5 DEF Bit, Xor
      <3> QED BY <3>2, <3>3
    <2>6. CASE x = FALSE /\ z = FALSE
      <3>1. v0 = w0 /\ v1 = w1
        BY <2>6, <1>4 DEF At
      <3>2. At(FALSE, FALSE, Turned(Low(SMatrix, w0, w1), 0), Turned(High(SMatrix, w0, w1), 0),
               Low(SMatrix, v0, v1), High(SMatrix, v0, v1))
        BY <2>1, <2>2, <3>1, Turning DEF At
      <3>3. 2 * Bit(x /\ z) = 0 /\ x = FALSE /\ Xor(z, x) = FALSE
        BY <2>6 DEF Bit, Xor
      <3> QED BY <3>2, <3>3
    <2> QED BY <2>3, <2>4, <2>5, <2>6
  <1> QED BY <1>1, <1>3, <1>4 DEF Rule

\* The rewriting of a row by SDG is that of the amplitudes by its matrix.
LEMMA SdgRule ==
    /\ UnitMatrix(SdgMatrix) /\ Regular(SdgMatrix)
    /\ \A x, z \in BOOLEAN : Rule(SdgMatrix, x, z, x, Xor(z, x), x /\ ~ z)
  <1>1. UnitMatrix(SdgMatrix)
    BY DEF UnitMatrix, Units, SdgMatrix
  <1>2. ASSUME NEW a \in Complex, NEW b \in Complex
        PROVE  Low(SdgMatrix, a, b) = a /\ High(SdgMatrix, a, b) = Turned(b, 3)
    BY Entries, TurnedType DEF Low, High, SdgMatrix
  <1>3. Regular(SdgMatrix)
    BY <1>2, TurnedZero DEF Regular
  <1>4. ASSUME NEW x \in BOOLEAN, NEW z \in BOOLEAN, NEW w0 \in Complex, NEW w1 \in Complex,
               NEW v0 \in Complex, NEW v1 \in Complex, At(x, z, w0, w1, v0, v1)
        PROVE  At(x, Xor(z, x), Turned(Low(SdgMatrix, w0, w1), 2 * Bit(x /\ ~ z)), Turned(High(SdgMatrix, w0, w1), 2 * Bit(x /\ ~ z)),
                  Low(SdgMatrix, v0, v1), High(SdgMatrix, v0, v1))
    <2>1. /\ Low(SdgMatrix, w0, w1) = w0 /\ High(SdgMatrix, w0, w1) = Turned(w1, 3)
          /\ Low(SdgMatrix, v0, v1) = v0 /\ High(SdgMatrix, v0, v1) = Turned(v1, 3)
      BY <1>2
    <2>2. Low(SdgMatrix, w0, w1) \in Complex /\ High(SdgMatrix, w0, w1) \in Complex
      BY <1>1, MixedTurn
    <2>3. CASE x = TRUE /\ z = TRUE
      <3>1. v1 = Turned(w0, 1) /\ v0 = Turned(w1, 3)
        BY <2>3, <1>4 DEF At
      <3>2. At(TRUE, FALSE, Turned(Low(SdgMatrix, w0, w1), 0), Turned(High(SdgMatrix, w0, w1), 0),
               Low(SdgMatrix, v0, v1), High(SdgMatrix, v0, v1))
        BY <2>1, <2>2, <3>1, Turning DEF At
      <3>3. 2 * Bit(x /\ ~ z) = 0 /\ x = TRUE /\ Xor(z, x) = FALSE
        BY <2>3 DEF Bit, Xor
      <3> QED BY <3>2, <3>3
    <2>4. CASE x = TRUE /\ z = FALSE
      <3>1. v1 = w0 /\ v0 = w1
        BY <2>4, <1>4 DEF At
      <3>2. At(TRUE, TRUE, Turned(Low(SdgMatrix, w0, w1), 2), Turned(High(SdgMatrix, w0, w1), 2),
               Low(SdgMatrix, v0, v1), High(SdgMatrix, v0, v1))
        BY <2>1, <2>2, <3>1, Turning DEF At
      <3>3. 2 * Bit(x /\ ~ z) = 2 /\ x = TRUE /\ Xor(z, x) = TRUE
        BY <2>4 DEF Bit, Xor
      <3> QED BY <3>2, <3>3
    <2>5. CASE x = FALSE /\ z = TRUE
      <3>1. v0 = w0 /\ v1 = Turned(w1, 2)
        BY <2>5, <1>4 DEF At
      <3>2. At(FALSE, TRUE, Turned(Low(SdgMatrix, w0, w1), 0), Turned(High(SdgMatrix, w0, w1), 0),
               Low(SdgMatrix, v0, v1), High(SdgMatrix, v0, v1))
        BY <2>1, <2>2, <3>1, Turning DEF At
      <3>3. 2 * Bit(x /\ ~ z) = 0 /\ x = FALSE /\ Xor(z, x) = TRUE
        BY <2>5 DEF Bit, Xor
      <3> QED BY <3>2, <3>3
    <2>6. CASE x = FALSE /\ z = FALSE
      <3>1. v0 = w0 /\ v1 = w1
        BY <2>6, <1>4 DEF At
      <3>2. At(FALSE, FALSE, Turned(Low(SdgMatrix, w0, w1), 0), Turned(High(SdgMatrix, w0, w1), 0),
               Low(SdgMatrix, v0, v1), High(SdgMatrix, v0, v1))
        BY <2>1, <2>2, <3>1, Turning DEF At
      <3>3. 2 * Bit(x /\ ~ z) = 0 /\ x = FALSE /\ Xor(z, x) = FALSE
        BY <2>6 DEF Bit, Xor
      <3> QED BY <3>2, <3>3
    <2> QED BY <2>3, <2>4, <2>5, <2>6
  <1> QED BY <1>1, <1>3, <1>4 DEF Rule

\* The rewriting of a row by X2P is that of the amplitudes by its matrix.
LEMMA X2PRule ==
    /\ UnitMatrix(X2PMatrix) /\ Regular(X2PMatrix)
    /\ \A x, z \in BOOLEAN : Rule(X2PMatrix, x, z, Xor(x, z), z, ~ x /\ z)
  <1>1. UnitMatrix(X2PMatrix)
    BY DEF UnitMatrix, Units, X2PMatrix
  <1>2. ASSUME NEW a \in Complex, NEW b \in Complex
        PROVE  Low(X2PMatrix, a, b) = Plus(a, Turned(b, 3)) /\ High(X2PMatrix, a, b) = Plus(Turned(a, 3), b)
    BY Entries, TurnedType DEF Low, High, X2PMatrix
  <1>3. Regular(X2PMatrix)
    <2> SUFFICES ASSUME NEW a \in Complex, NEW b \in Complex, Low(X2PMatrix, a, b) = Zero, High(X2PMatrix, a, b) = Zero
                 PROVE  a = Zero /\ b = Zero
      BY DEF Regular
    <2>1. PICK p \in Int, r \in Int, s \in Int, t \in Int : a = <<p, r>> /\ b = <<s, t>>
      BY DEF Complex
    <2>2. Plus(a, Turned(b, 3)) = <<0, 0>> /\ Plus(Turned(a, 3), b) = <<0, 0>>
      BY <1>2 DEF Zero
    <2>3. Turned(b, 3) = <<t, -s>> /\ Turned(a, 3) = <<r, -p>>
      BY <2>1, TurnedPair
    <2>4. Plus(a, Turned(b, 3)) = Plus(<<p, r>>, <<t, -s>>) /\ Plus(Turned(a, 3), b) = Plus(<<r, -p>>, <<s, t>>)
      BY <2>1, <2>3
    <2>5. Plus(a, Turned(b, 3)) = <<p + t, r + (-s)>> /\ Plus(Turned(a, 3), b) = <<r + s, -p + t>>
      BY <2>4 DEF Plus
    <2>6. p + t = 0 /\ r + (-s) = 0 /\ r + s = 0 /\ -p + t = 0
      BY <2>2, <2>5
    <2>7. p = 0 /\ r = 0 /\ s = 0 /\ t = 0
      BY <2>6
    <2> QED BY <2>1, <2>7 DEF Zero
  <1>4. ASSUME NEW x \in BOOLEAN, NEW z \in BOOLEAN, NEW w0 \in Complex, NEW w1 \in Complex,
               NEW v0 \in Complex, NEW v1 \in Complex, At(x, z, w0, w1, v0, v1)
        PROVE  At(Xor(x, z), z, Turned(Low(X2PMatrix, w0, w1), 2 * Bit(~ x /\ z)), Turned(High(X2PMatrix, w0, w1), 2 * Bit(~ x /\ z)),
                  Low(X2PMatrix, v0, v1), High(X2PMatrix, v0, v1))
    <2>1. /\ Low(X2PMatrix, w0, w1) = Plus(w0, Turned(w1, 3)) /\ High(X2PMatrix, w0, w1) = Plus(Turned(w0, 3), w1)
          /\ Low(X2PMatrix, v0, v1) = Plus(v0, Turned(v1, 3)) /\ High(X2PMatrix, v0, v1) = Plus(Turned(v0, 3), v1)
      BY <1>2
    <2>2. Low(X2PMatrix, w0, w1) \in Complex /\ High(X2PMatrix, w0, w1) \in Complex
      BY <1>1, MixedTurn
    <2>3. Plus(w0, Turned(w1, 3)) = Plus(Turned(w1, 3), w0) /\ Plus(w1, Turned(w0, 3)) = Plus(Turned(w0, 3), w1)
      BY Turning, Adding
    <2>4. CASE x = TRUE /\ z = TRUE
      <3>1. v1 = Turned(w0, 1) /\ v0 = Turned(w1, 3)
        BY <2>4, <1>4 DEF At
      <3>2. At(FALSE, TRUE, Turned(Low(X2PMatrix, w0, w1), 0), Turned(High(X2PMatrix, w0, w1), 0),
               Low(X2PMatrix, v0, v1), High(X2PMatrix, v0, v1))
        BY <2>1, <2>2, <3>1, Turning, Adding, <2>3 DEF At
      <3>3. 2 * Bit(~ x /\ z) = 0 /\ Xor(x, z) = FALSE /\ z = TRUE
        BY <2>4 DEF Bit, Xor
      <3> QED BY <3>2, <3>3
    <2>5. CASE x = TRUE /\ z = FALSE
      <3>1. v1 = w0 /\ v0 = w1
        BY <2>5, <1>4 DEF At
      <3>2. At(TRUE, FALSE, Turned(Low(X2PMatrix, w0, w1), 0), Turned(High(X2PMatrix, w0, w1), 0),
               Low(X2PMatrix, v0, v1), High(X2PMatrix, v0, v1))
        BY <2>1, <2>2, <3>1, Turning, Adding, <2>3 DEF At
      <3>3. 2 * Bit(~ x /\ z) = 0 /\ Xor(x, z) = TRUE /\ z = FALSE
        BY <2>5 DEF Bit, Xor
      <3> QED BY <3>2, <3>3
    <2>6. CASE x = FALSE /\ z = TRUE
      <3>1. v0 = w0 /\ v1 = Turned(w1, 2)
        BY <2>6, <1>4 DEF At
      <3>2. At(TRUE, TRUE, Turned(Low(X2PMatrix, w0, w1), 2), Turned(High(X2PMatrix, w0, w1), 2),
               Low(X2PMatrix, v0, v1), High(X2PMatrix, v0, v1))
        BY <2>1, <2>2, <3>1, Turning, Adding, <2>3 DEF At
      <3>3. 2 * Bit(~ x /\ z) = 2 /\ Xor(x, z) = TRUE /\ z = TRUE
        BY <2>6 DEF Bit, Xor
      <3> QED BY <3>2, <3>3
    <2>7. CASE x = FALSE /\ z = FALSE
      <3>1. v0 = w0 /\ v1 = w1
        BY <2>7, <1>4 DEF At
      <3>2. At(FALSE, FALSE, Turned(Low(X2PMatrix, w0, w1), 0), Turned(High(X2PMatrix, w0, w1), 0),
               Low(X2PMatrix, v0, v1), High(X2PMatrix, v0, v1))
        BY <2>1, <2>2, <3>1, Turning, Adding, <2>3 DEF At
      <3>3. 2 * Bit(~ x /\ z) = 0 /\ Xor(x, z) = FALSE /\ z = FALSE
        BY <2>7 DEF Bit, Xor
      <3> QED BY <3>2, <3>3
    <2> QED BY <2>4, <2>5, <2>6, <2>7
  <1> QED BY <1>1, <1>3, <1>4 DEF Rule

\* The rewriting of a row by X2M is that of the amplitudes by its matrix.
LEMMA X2MRule ==
    /\ UnitMatrix(X2MMatrix) /\ Regular(X2MMatrix)
    /\ \A x, z \in BOOLEAN : Rule(X2MMatrix, x, z, Xor(x, z), z, x /\ z)
  <1>1. UnitMatrix(X2MMatrix)
    BY DEF UnitMatrix, Units, X2MMatrix
  <1>2. ASSUME NEW a \in Complex, NEW b \in Complex
        PROVE  Low(X2MMatrix, a, b) = Plus(a, Turned(b, 1)) /\ High(X2MMatrix, a, b) = Plus(Turned(a, 1), b)
    BY Entries, TurnedType DEF Low, High, X2MMatrix
  <1>3. Regular(X2MMatrix)
    <2> SUFFICES ASSUME NEW a \in Complex, NEW b \in Complex, Low(X2MMatrix, a, b) = Zero, High(X2MMatrix, a, b) = Zero
                 PROVE  a = Zero /\ b = Zero
      BY DEF Regular
    <2>1. PICK p \in Int, r \in Int, s \in Int, t \in Int : a = <<p, r>> /\ b = <<s, t>>
      BY DEF Complex
    <2>2. Plus(a, Turned(b, 1)) = <<0, 0>> /\ Plus(Turned(a, 1), b) = <<0, 0>>
      BY <1>2 DEF Zero
    <2>3. Turned(b, 1) = <<-t, s>> /\ Turned(a, 1) = <<-r, p>>
      BY <2>1, TurnedPair
    <2>4. Plus(a, Turned(b, 1)) = Plus(<<p, r>>, <<-t, s>>) /\ Plus(Turned(a, 1), b) = Plus(<<-r, p>>, <<s, t>>)
      BY <2>1, <2>3
    <2>5. Plus(a, Turned(b, 1)) = <<p + (-t), r + s>> /\ Plus(Turned(a, 1), b) = <<-r + s, p + t>>
      BY <2>4 DEF Plus
    <2>6. p + (-t) = 0 /\ r + s = 0 /\ -r + s = 0 /\ p + t = 0
      BY <2>2, <2>5
    <2>7. p = 0 /\ r = 0 /\ s = 0 /\ t = 0
      BY <2>6
    <2> QED BY <2>1, <2>7 DEF Zero
  <1>4. ASSUME NEW x \in BOOLEAN, NEW z \in BOOLEAN, NEW w0 \in Complex, NEW w1 \in Complex,
               NEW v0 \in Complex, NEW v1 \in Complex, At(x, z, w0, w1, v0, v1)
        PROVE  At(Xor(x, z), z, Turned(Low(X2MMatrix, w0, w1), 2 * Bit(x /\ z)), Turned(High(X2MMatrix, w0, w1), 2 * Bit(x /\ z)),
                  Low(X2MMatrix, v0, v1), High(X2MMatrix, v0, v1))
    <2>1. /\ Low(X2MMatrix, w0, w1) = Plus(w0, Turned(w1, 1)) /\ High(X2MMatrix, w0, w1) = Plus(Turned(w0, 1), w1)
          /\ Low(X2MMatrix, v0, v1) = Plus(v0, Turned(v1, 1)) /\ High(X2MMatrix, v0, v1) = Plus(Turned(v0, 1), v1)
      BY <1>2
    <2>2. Low(X2MMatrix, w0, w1) \in Complex /\ High(X2MMatrix, w0, w1) \in Complex
      BY <1>1, MixedTurn
    <2>3. Plus(w0, Turned(w1, 1)) = Plus(Turned(w1, 1), w0) /\ Plus(w1, Turned(w0, 1)) = Plus(Turned(w0, 1), w1)
      BY Turning, Adding
    <2>4. CASE x = TRUE /\ z = TRUE
      <3>1. v1 = Turned(w0, 1) /\ v0 = Turned(w1, 3)
        BY <2>4, <1>4 DEF At
      <3>2. At(FALSE, TRUE, Turned(Low(X2MMatrix, w0, w1), 2), Turned(High(X2MMatrix, w0, w1), 2),
               Low(X2MMatrix, v0, v1), High(X2MMatrix, v0, v1))
        BY <2>1, <2>2, <3>1, Turning, Adding, <2>3 DEF At
      <3>3. 2 * Bit(x /\ z) = 2 /\ Xor(x, z) = FALSE /\ z = TRUE
        BY <2>4 DEF Bit, Xor
      <3> QED BY <3>2, <3>3
    <2>5. CASE x = TRUE /\ z = FALSE
      <3>1. v1 = w0 /\ v0 = w1
        BY <2>5, <1>4 DEF At
      <3>2. At(TRUE, FALSE, Turned(Low(X2MMatrix, w0, w1), 0), Turned(High(X2MMatrix, w0, w1), 0),
               Low(X2MMatrix, v0, v1), High(X2MMatrix, v0, v1))
        BY <2>1, <2>2, <3>1, Turning, Adding, <2>3 DEF At
      <3>3. 2 * Bit(x /\ z) = 0 /\ Xor(x, z) = TRUE /\ z = FALSE
        BY <2>5 DEF Bit, Xor
      <3> QED BY <3>2, <3>3
    <2>6. CASE x = FALSE /\ z = TRUE
      <3>1. v0 = w0 /\ v1 = Turned(w1, 2)
        BY <2>6, <1>4 DEF At
      <3>2. At(TRUE, TRUE, Turned(Low(X2MMatrix, w0, w1), 0), Turned(High(X2MMatrix, w0, w1), 0),
               Low(X2MMatrix, v0, v1), High(X2MMatrix, v0, v1))
        BY <2>1, <2>2, <3>1, Turning, Adding, <2>3 DEF At
      <3>3. 2 * Bit(x /\ z) = 0 /\ Xor(x, z) = TRUE /\ z = TRUE
        BY <2>6 DEF Bit, Xor
      <3> QED BY <3>2, <3>3
    <2>7. CASE x = FALSE /\ z = FALSE
      <3>1. v0 = w0 /\ v1 = w1
        BY <2>7, <1>4 DEF At
      <3>2. At(FALSE, FALSE, Turned(Low(X2MMatrix, w0, w1), 0), Turned(High(X2MMatrix, w0, w1), 0),
               Low(X2MMatrix, v0, v1), High(X2MMatrix, v0, v1))
        BY <2>1, <2>2, <3>1, Turning, Adding, <2>3 DEF At
      <3>3. 2 * Bit(x /\ z) = 0 /\ Xor(x, z) = FALSE /\ z = FALSE
        BY <2>7 DEF Bit, Xor
      <3> QED BY <3>2, <3>3
    <2> QED BY <2>4, <2>5, <2>6, <2>7
  <1> QED BY <1>1, <1>3, <1>4 DEF Rule

-----------------------------------------------------------------------------
(* Gates on one qubit keep the tableau and the amplitudes together *)

\* The gates on one qubit that the two simulators agree on.
AgreedGates == {"I", "H", "S", "SDG", "X", "Y", "Z", "X2P", "X2M"}

MatrixOf(gate) ==
    CASE gate = "I" -> IdentityMatrix
      [] gate = "X" -> XMatrix
      [] gate = "Y" -> YMatrix
      [] gate = "Z" -> ZMatrix
      [] gate = "H" -> HMatrix
      [] gate = "S" -> SMatrix
      [] gate = "SDG" -> SdgMatrix
      [] gate = "X2P" -> X2PMatrix
      [] gate = "X2M" -> X2MMatrix

\* The matrix that apply_standard_gate takes for a gate.
LEMMA MatrixUsed ==
    ASSUME NEW gate \in AgreedGates, NEW psi, NEW q
    PROVE  Rotated(psi, gate, q) = Rescaled(Kernel(psi, MatrixOf(gate), q, {}))
  BY DEF AgreedGates, MatrixOf, Rotated

\* Each gate on a row is a rewriting of one qubit that follows the rule of its matrix.
LEMMA GateRule ==
    ASSUME NEW gate \in AgreedGates, NEW g \in Paulis, NEW q \in Qubits
    PROVE  /\ UnitMatrix(MatrixOf(gate)) /\ Regular(MatrixOf(gate))
           /\ \E x2, z2, flip \in BOOLEAN :
                /\ OneQubit(gate, g, q) = Rewritten(g, q, x2, z2, flip)
                /\ Rule(MatrixOf(gate), q \in g.x, q \in g.z, x2, z2, flip)
  <1> DEFINE x == q \in g.x
             z == q \in g.z
             M == MatrixOf(gate)
  <1>1. x \in BOOLEAN /\ z \in BOOLEAN
    OBVIOUS
  <1>2. CASE gate = "I"
    <2>1. M = IdentityMatrix
      BY <1>2 DEF MatrixOf
    <2>2. OneQubit(gate, g, q) = Rewritten(g, q, x, z, FALSE)
      <3>1. OneQubit(gate, g, q) = g
        BY <1>2 DEF OneQubit
      <3>2. g = [x |-> g.x, z |-> g.z, phase |-> g.phase]
        BY DEF Paulis
      <3>3. With(g.x, q, q \in g.x) = g.x /\ With(g.z, q, q \in g.z) = g.z /\ Signed(g.phase, FALSE) = g.phase
        BY DEF With, Signed
      <3> QED BY <3>1, <3>2, <3>3 DEF Rewritten
    <2> QED BY <1>1, <2>1, <2>2, IdentityRule
  <1>3. CASE gate = "H"
    <2>1. M = HMatrix
      BY <1>3 DEF MatrixOf
    <2>2. OneQubit(gate, g, q) = Rewritten(g, q, z, x, x /\ z)
      BY <1>3 DEF OneQubit, ApplyH
    <2>3. (z) \in BOOLEAN /\ (x) \in BOOLEAN /\ (x /\ z) \in BOOLEAN
      BY DEF Xor
    <2> QED BY <1>1, <2>1, <2>2, <2>3, HRule
  <1>4. CASE gate = "S"
    <2>1. M = SMatrix
      BY <1>4 DEF MatrixOf
    <2>2. OneQubit(gate, g, q) = Rewritten(g, q, x, Xor(z, x), x /\ z)
      BY <1>4 DEF OneQubit, ApplyS
    <2>3. (x) \in BOOLEAN /\ (Xor(z, x)) \in BOOLEAN /\ (x /\ z) \in BOOLEAN
      BY DEF Xor
    <2> QED BY <1>1, <2>1, <2>2, <2>3, SRule
  <1>5. CASE gate = "SDG"
    <2>1. M = SdgMatrix
      BY <1>5 DEF MatrixOf
    <2>2. OneQubit(gate, g, q) = Rewritten(g, q, x, Xor(z, x), x /\ ~ z)
      BY <1>5 DEF OneQubit, ApplySdg
    <2>3. (x) \in BOOLEAN /\ (Xor(z, x)) \in BOOLEAN /\ (x /\ ~ z) \in BOOLEAN
      BY DEF Xor
    <2> QED BY <1>1, <2>1, <2>2, <2>3, SdgRule
  <1>6. CASE gate = "X"
    <2>1. M = XMatrix
      BY <1>6 DEF MatrixOf
    <2>2. OneQubit(gate, g, q) = Rewritten(g, q, x, z, z)
      BY <1>6 DEF OneQubit, ApplyX
    <2>3. (x) \in BOOLEAN /\ (z) \in BOOLEAN /\ (z) \in BOOLEAN
      BY DEF Xor
    <2> QED BY <1>1, <2>1, <2>2, <2>3, XRule
  <1>7. CASE gate = "Y"
    <2>1. M = YMatrix
      BY <1>7 DEF MatrixOf
    <2>2. OneQubit(gate, g, q) = Rewritten(g, q, x, z, Xor(x, z))
      BY <1>7 DEF OneQubit, ApplyY
    <2>3. (x) \in BOOLEAN /\ (z) \in BOOLEAN /\ (Xor(x, z)) \in BOOLEAN
      BY DEF Xor
    <2> QED BY <1>1, <2>1, <2>2, <2>3, YRule
  <1>8. CASE gate = "Z"
    <2>1. M = ZMatrix
      BY <1>8 DEF MatrixOf
    <2>2. OneQubit(gate, g, q) = Rewritten(g, q, x, z, x)
      BY <1>8 DEF OneQubit, ApplyZ
    <2>3. (x) \in BOOLEAN /\ (z) \in BOOLEAN /\ (x) \in BOOLEAN
      BY DEF Xor
    <2> QED BY <1>1, <2>1, <2>2, <2>3, ZRule
  <1>9. CASE gate = "X2P"
    <2>1. M = X2PMatrix
      BY <1>9 DEF MatrixOf
    <2>2. OneQubit(gate, g, q) = Rewritten(g, q, Xor(x, z), z, ~ x /\ z)
      BY <1>9 DEF OneQubit, ApplyX2P
    <2>3. (Xor(x, z)) \in BOOLEAN /\ (z) \in BOOLEAN /\ (~ x /\ z) \in BOOLEAN
      BY DEF Xor
    <2> QED BY <1>1, <2>1, <2>2, <2>3, X2PRule
  <1>10. CASE gate = "X2M"
    <2>1. M = X2MMatrix
      BY <1>10 DEF MatrixOf
    <2>2. OneQubit(gate, g, q) = Rewritten(g, q, Xor(x, z), z, x /\ z)
      BY <1>10 DEF OneQubit, ApplyX2M
    <2>3. (Xor(x, z)) \in BOOLEAN /\ (z) \in BOOLEAN /\ (x /\ z) \in BOOLEAN
      BY DEF Xor
    <2> QED BY <1>1, <2>1, <2>2, <2>3, X2MRule
  <1> QED BY <1>2, <1>3, <1>4, <1>5, <1>6, <1>7, <1>8, <1>9, <1>10 DEF AgreedGates

\* A row that fixes the amplitudes fixes them after the gate, rewritten by it.
LEMMA GateFixes ==
    ASSUME NEW gate \in AgreedGates, NEW g \in Paulis, NEW q \in Qubits,
           NEW psi \in [Basis -> Complex], Fixes(g, psi)
    PROVE  Fixes(OneQubit(gate, g, q), Kernel(psi, MatrixOf(gate), q, {}))
  BY GateRule, RewrittenFixes

\* These gates keep which rows anticommute, whatever gates callers apply.
LEMMA AgreedKeeps ==
    ASSUME NEW gate \in AgreedGates, NEW q \in Qubits, NEW g \in Paulis, NEW h \in Paulis
    PROVE  Keeps(g, h, OneQubit(gate, g, q), OneQubit(gate, h, q))
  <1>1. CASE gate = "I"
    BY <1>1 DEF OneQubit, Keeps
  <1>2. CASE gate = "H"
    <2>1. OneQubit(gate, g, q) = ApplyH(g, q) /\ OneQubit(gate, h, q) = ApplyH(h, q)
      BY <1>2 DEF OneQubit
    <2> QED BY <2>1, GatesKeep
  <1>3. CASE gate = "S"
    <2>1. OneQubit(gate, g, q) = ApplyS(g, q) /\ OneQubit(gate, h, q) = ApplyS(h, q)
      BY <1>3 DEF OneQubit
    <2> QED BY <2>1, GatesKeep
  <1>4. CASE gate = "SDG"
    <2>1. OneQubit(gate, g, q) = ApplySdg(g, q) /\ OneQubit(gate, h, q) = ApplySdg(h, q)
      BY <1>4 DEF OneQubit
    <2> QED BY <2>1, GatesKeep
  <1>5. CASE gate = "X"
    <2>1. OneQubit(gate, g, q) = ApplyX(g, q) /\ OneQubit(gate, h, q) = ApplyX(h, q)
      BY <1>5 DEF OneQubit
    <2> QED BY <2>1, GatesKeep
  <1>6. CASE gate = "Y"
    <2>1. OneQubit(gate, g, q) = ApplyY(g, q) /\ OneQubit(gate, h, q) = ApplyY(h, q)
      BY <1>6 DEF OneQubit
    <2> QED BY <2>1, GatesKeep
  <1>7. CASE gate = "Z"
    <2>1. OneQubit(gate, g, q) = ApplyZ(g, q) /\ OneQubit(gate, h, q) = ApplyZ(h, q)
      BY <1>7 DEF OneQubit
    <2> QED BY <2>1, GatesKeep
  <1>8. CASE gate = "X2P"
    <2>1. OneQubit(gate, g, q) = ApplyX2P(g, q) /\ OneQubit(gate, h, q) = ApplyX2P(h, q)
      BY <1>8 DEF OneQubit
    <2> QED BY <2>1, GatesKeep
  <1>9. CASE gate = "X2M"
    <2>1. OneQubit(gate, g, q) = ApplyX2M(g, q) /\ OneQubit(gate, h, q) = ApplyX2M(h, q)
      BY <1>9 DEF OneQubit
    <2> QED BY <2>1, GatesKeep
  <1> QED BY <1>1, <1>2, <1>3, <1>4, <1>5, <1>6, <1>7, <1>8, <1>9 DEF AgreedGates

\* After a gate on one qubit the tableau describes what the kernel makes of the amplitudes.
LEMMA RotatedDescribed ==
    ASSUME NEW T, NEW psi, Describes(T, psi), NEW gate \in AgreedGates, NEW q \in Qubits
    PROVE  Describes([i \in Indices |-> OneQubit(gate, T[i], q)], Rotated(psi, gate, q))
  <1> DEFINE K == Kernel(psi, MatrixOf(gate), q, {})
             U == [i \in Indices |-> OneQubit(gate, T[i], q)]
  <1>1. /\ IsSymplectic(T) /\ psi \in [Basis -> Complex] /\ Stabilizes(T, psi)
        /\ \A i \in Indices : T[i] \in Paulis
    BY DEF Describes, IsSymplectic
  <1>2. PICK b \in Basis : psi[b] # Zero
    BY DEF Describes
  <1>3. UnitMatrix(MatrixOf(gate)) /\ Regular(MatrixOf(gate))
    BY GateRule, IdentityFixes, <1>1
  <1>4. K \in [Basis -> Complex] /\ \E c \in Basis : K[c] # Zero
    BY <1>1, <1>2, <1>3, KernelIs, KernelNonzero
  <1>5. IsSymplectic(U)
    <2>1. \A i \in Indices : U[i] = OneQubit(gate, T[i], q)
      OBVIOUS
    <2>2. U = [i \in Indices |-> U[i]]
      OBVIOUS
    <2> HIDE DEF U
    <2>3. \A i, j \in Indices : Keeps(T[i], T[j], U[i], U[j])
      BY <1>1, <2>1, AgreedKeeps
    <2> QED BY <1>1, <2>2, <2>3, GateIsSymplectic
  <1>6. Stabilizes(U, K)
    <2> SUFFICES ASSUME NEW i \in Stabilizers PROVE Fixes(U[i], K)
      BY DEF Stabilizes
    <2>1. i \in Indices /\ Fixes(T[i], psi)
      BY <1>1, IndicesOf DEF Stabilizes
    <2> QED BY <1>1, <2>1, GateFixes
  <1>7. Describes(U, K)
    BY <1>4, <1>5, <1>6 DEF Describes
  <1>8. Rotated(psi, gate, q) = Rescaled(K)
    BY MatrixUsed
  <1> HIDE DEF U, K
  <1>9. Describes(U, Rescaled(K))
    BY <1>7, RescaledDescribed
  <1> QED BY <1>8, <1>9 DEF U

-----------------------------------------------------------------------------
(* Gates on two qubits *)

\* The basis state the gate CX exchanges b with.
Controlled(b, c, t) == IF c \in b THEN SymDiff(b, {t}) ELSE b

\* CX moves the basis states in pairs, and differences of them alike.
LEMMA ControlledFacts ==
    ASSUME NEW c \in Qubits, NEW t \in Qubits, c # t, NEW b \in Basis, NEW x \in Basis
    PROVE  /\ Controlled(b, c, t) \in Basis
           /\ Controlled(Controlled(b, c, t), c, t) = b
           /\ Controlled(SymDiff(b, Controlled(x, c, t)), c, t) = SymDiff(Controlled(b, c, t), x)
  <1>1. Controlled(b, c, t) \in Basis
    BY DEF Controlled, SymDiff, Basis
  <1>2. Controlled(Controlled(b, c, t), c, t) = b
    BY DEF Controlled, SymDiff
  <1>3. CASE c \in b
    <2>1. CASE c \in x
      <3>1. c \notin SymDiff(b, SymDiff(x, {t}))
        BY <1>3, <2>1 DEF SymDiff
      <3>2. SymDiff(b, SymDiff(x, {t})) = SymDiff(SymDiff(b, {t}), x)
        BY DEF SymDiff
      <3> QED BY <1>1, <1>2, <1>3, <2>1, <3>1, <3>2 DEF Controlled
    <2>2. CASE c \notin x
      <3>1. c \in SymDiff(b, x)
        BY <1>3, <2>2 DEF SymDiff
      <3>2. SymDiff(SymDiff(b, x), {t}) = SymDiff(SymDiff(b, {t}), x)
        BY DEF SymDiff
      <3> QED BY <1>1, <1>2, <1>3, <2>2, <3>1, <3>2 DEF Controlled
    <2> QED BY <2>1, <2>2
  <1>4. CASE c \notin b
    <2>1. CASE c \in x
      <3>1. c \in SymDiff(b, SymDiff(x, {t}))
        BY <1>4, <2>1 DEF SymDiff
      <3>2. SymDiff(SymDiff(b, SymDiff(x, {t})), {t}) = SymDiff(b, x)
        BY DEF SymDiff
      <3> QED BY <1>1, <1>2, <1>4, <2>1, <3>1, <3>2 DEF Controlled
    <2>2. CASE c \notin x
      <3>1. c \notin SymDiff(b, x)
        BY <1>4, <2>2 DEF SymDiff
      <3> QED BY <1>1, <1>2, <1>4, <2>2, <3>1 DEF Controlled
    <2> QED BY <2>1, <2>2
  <1> QED BY <1>3, <1>4

\* A size with the parts of two qubits apart.
LEMMA CountApartTwice ==
    ASSUME NEW S \in SUBSET Qubits, NEW c, NEW t, c # t
    PROVE  /\ Cardinality(S) = Cardinality(S \ {c, t}) + Bit(c \in S) + Bit(t \in S)
           /\ Cardinality(S \ {c, t}) \in Nat
  <1>1. S \ {c} \in SUBSET Qubits /\ (S \ {c}) \ {t} = S \ {c, t} /\ (t \in S \ {c} <=> t \in S)
    OBVIOUS
  <1>2. Cardinality(S) = Cardinality(S \ {c}) + Bit(c \in S)
    BY CountApart
  <1>3. /\ Cardinality(S \ {c}) = Cardinality((S \ {c}) \ {t}) + Bit(t \in S \ {c})
        /\ Cardinality((S \ {c}) \ {t}) \in Nat
    BY <1>1, CountApart
  <1>4. Bit(t \in S \ {c}) = Bit(t \in S) /\ Bit(t \in S) \in Nat /\ Bit(c \in S) \in Nat
    BY <1>1 DEF Bit
  <1> DEFINE u == Bit(c \in S)
             v == Bit(t \in S)
             n == Cardinality(S \ {c, t})
  <1>5. Cardinality(S) = Cardinality(S \ {c}) + u /\ Cardinality(S \ {c}) = n + v
        /\ u \in Nat /\ v \in Nat /\ n \in Nat
    BY <1>1, <1>2, <1>3, <1>4
  <1> HIDE DEF u, v, n
  <1>6. Cardinality(S) = n + u + v
    BY <1>5
  <1> QED BY <1>5, <1>6 DEF u, v, n

\* The phases the gate CX moves between the qubits of a row ...
CXBalance(xc, xt, zc, zt, bc, bt) ==
    (2 * Bit(xc /\ zt /\ (xt <=> zc))
        + Bit(xc /\ Xor(zc, zt)) + Bit(Xor(xt, xc) /\ zt)
        + 2 * Bit(bc /\ Xor(zc, zt)) + 2 * Bit(bt /\ zt)
        - Bit(xc /\ zc) - Bit(xt /\ zt)
        - 2 * Bit(bc /\ zc) - 2 * Bit(Xor(bt, bc) /\ zt)) % 4 = 0

\* ... cancel, whatever the row has on the two qubits.
LEMMA CXPhases ==
    ASSUME NEW xc \in BOOLEAN, NEW xt \in BOOLEAN, NEW zc \in BOOLEAN, NEW zt \in BOOLEAN,
           NEW bc \in BOOLEAN, NEW bt \in BOOLEAN
    PROVE  CXBalance(xc, xt, zc, zt, bc, bt)
  BY DEF Bit, Xor, CXBalance

\* The exponent of a row that apply_cx has rewritten.
LEMMA CXExponent ==
    ASSUME NEW c \in Qubits, NEW t \in Qubits, c # t, NEW b \in Basis, NEW g \in Paulis
    PROVE  LET h == ApplyCX(g, c, t)
           IN  /\ h \in Paulis /\ h.x = Controlled(g.x, c, t)
               /\ (Exponent(h, b) - Exponent(g, Controlled(b, c, t))) % 4 = 0
  <1> DEFINE h == ApplyCX(g, c, t)
             d == Controlled(b, c, t)
             O(S) == Cardinality(S \ {c, t})
             e == c \in g.x /\ t \in g.z /\ (t \in g.x <=> c \in g.z)
  <1>1. h \in Paulis
    BY CXKeeps DEF Keeps
  <1>2. /\ h.x = Controlled(g.x, c, t) /\ h.z = Controlled(g.z, t, c) /\ h.phase = Signed(g.phase, e)
    BY DEF ApplyCX, Controlled
  <1>3. /\ g.x \in SUBSET Qubits /\ g.z \in SUBSET Qubits /\ g.phase \in 0 .. 3
        /\ h.x \in SUBSET Qubits /\ h.z \in SUBSET Qubits /\ h.phase \in 0 .. 3
    BY <1>1, RowParts
  <1> HIDE DEF h
  <1>4. \A n \in Nat : /\ Bit(n \in h.x) = Bit(n \in h.x)
    OBVIOUS
  <1>5. /\ (c \in h.x <=> c \in g.x) /\ (t \in h.x <=> Xor(t \in g.x, c \in g.x))
        /\ (t \in h.z <=> t \in g.z) /\ (c \in h.z <=> Xor(c \in g.z, t \in g.z))
        /\ (c \in d <=> c \in b) /\ (t \in d <=> Xor(t \in b, c \in b))
        /\ h.x \ {c, t} = g.x \ {c, t} /\ h.z \ {c, t} = g.z \ {c, t} /\ d \ {c, t} = b \ {c, t}
    BY <1>2 DEF Controlled, SymDiff, Xor
  <1>6. d \in Basis
    BY ControlledFacts
  <1> HIDE DEF d
  <1> DEFINE A == g.x \cap g.z
             AA == h.x \cap h.z
             B == d \cap g.z
             BB == b \cap h.z
  <1>7. A \in SUBSET Qubits /\ AA \in SUBSET Qubits /\ B \in SUBSET Qubits /\ BB \in SUBSET Qubits
    BY <1>3
  <1>8. AA \ {c, t} = A \ {c, t} /\ BB \ {c, t} = B \ {c, t}
    BY <1>5
  <1>9. /\ Bit(c \in A) = Bit(c \in g.x /\ c \in g.z) /\ Bit(t \in A) = Bit(t \in g.x /\ t \in g.z)
        /\ Bit(c \in AA) = Bit(c \in g.x /\ Xor(c \in g.z, t \in g.z))
        /\ Bit(t \in AA) = Bit(Xor(t \in g.x, c \in g.x) /\ t \in g.z)
        /\ Bit(c \in B) = Bit(c \in b /\ c \in g.z) /\ Bit(t \in B) = Bit(Xor(t \in b, c \in b) /\ t \in g.z)
        /\ Bit(c \in BB) = Bit(c \in b /\ Xor(c \in g.z, t \in g.z)) /\ Bit(t \in BB) = Bit(t \in b /\ t \in g.z)
    BY <1>5 DEF Bit
  <1>10. /\ Exponent(g, d) = g.phase + Cardinality(A) + 2 * Cardinality(B)
         /\ Exponent(h, b) = h.phase + Cardinality(AA) + 2 * Cardinality(BB)
    BY DEF Exponent
  <1>11. (h.phase - g.phase - 2 * Bit(e)) % 4 = 0
    BY <1>2, <1>3 DEF Signed, Bit
  <1> HIDE DEF A, AA, B, BB
  <1>12. /\ Cardinality(A) = O(A) + Bit(c \in A) + Bit(t \in A) /\ O(A) \in Nat
         /\ Cardinality(AA) = O(A) + Bit(c \in AA) + Bit(t \in AA)
         /\ Cardinality(B) = O(B) + Bit(c \in B) + Bit(t \in B) /\ O(B) \in Nat
         /\ Cardinality(BB) = O(B) + Bit(c \in BB) + Bit(t \in BB)
    BY <1>7, <1>8, CountApartTwice
  <1>13. (2 * Bit(e) + Bit(c \in AA) + Bit(t \in AA) + 2 * Bit(c \in BB) + 2 * Bit(t \in BB)
            - Bit(c \in A) - Bit(t \in A) - 2 * Bit(c \in B) - 2 * Bit(t \in B)) % 4 = 0
    <2> DEFINE xc == c \in g.x
               xt == t \in g.x
               zc == c \in g.z
               zt == t \in g.z
               bc == c \in b
               bt == t \in b
    <2>1. (2 * Bit(xc /\ zt /\ (xt <=> zc))
                + Bit(xc /\ Xor(zc, zt)) + Bit(Xor(xt, xc) /\ zt)
                + 2 * Bit(bc /\ Xor(zc, zt)) + 2 * Bit(bt /\ zt)
                - Bit(xc /\ zc) - Bit(xt /\ zt)
                - 2 * Bit(bc /\ zc) - 2 * Bit(Xor(bt, bc) /\ zt)) % 4 = 0
      <3>1. xc \in BOOLEAN /\ xt \in BOOLEAN /\ zc \in BOOLEAN /\ zt \in BOOLEAN /\ bc \in BOOLEAN /\ bt \in BOOLEAN
        OBVIOUS
      <3> HIDE DEF xc, xt, zc, zt, bc, bt
      <3>2. CXBalance(xc, xt, zc, zt, bc, bt)
        BY <3>1, CXPhases
      <3> QED BY <3>2, Zenon DEF CXBalance
    <2> QED BY <1>9, <2>1, Zenon
  <1>14. /\ Bit(e) \in Int /\ Bit(c \in A) \in Int /\ Bit(t \in A) \in Int /\ Bit(c \in AA) \in Int /\ Bit(t \in AA) \in Int
         /\ Bit(c \in B) \in Int /\ Bit(t \in B) \in Int /\ Bit(c \in BB) \in Int /\ Bit(t \in BB) \in Int
    BY DEF Bit
  <1> HIDE DEF O, e
  <1>15. (Exponent(h, b) - Exponent(g, d)) % 4 = 0
    <2> DEFINE f == Bit(e)
               a1 == Bit(c \in A)
               a2 == Bit(t \in A)
               aa1 == Bit(c \in AA)
               aa2 == Bit(t \in AA)
               b1 == Bit(c \in B)
               b2 == Bit(t \in B)
               bb1 == Bit(c \in BB)
               bb2 == Bit(t \in BB)
               m == O(A)
               n == O(B)
               k == g.phase
               l == h.phase
    <2>1. Exponent(g, d) = k + (m + a1 + a2) + 2 * (n + b1 + b2)
      BY <1>10, <1>12
    <2>2. Exponent(h, b) = l + (m + aa1 + aa2) + 2 * (n + bb1 + bb2)
      BY <1>10, <1>12
    <2>3. (l - k - 2 * f) % 4 = 0
      BY <1>11
    <2>4. (2 * f + aa1 + aa2 + 2 * bb1 + 2 * bb2 - a1 - a2 - 2 * b1 - 2 * b2) % 4 = 0
      BY <1>13
    <2>5. /\ f \in Int /\ a1 \in Int /\ a2 \in Int /\ aa1 \in Int /\ aa2 \in Int /\ b1 \in Int /\ b2 \in Int
          /\ bb1 \in Int /\ bb2 \in Int /\ m \in Int /\ n \in Int /\ k \in Int /\ l \in Int
      BY <1>3, <1>12, <1>14
    <2> HIDE DEF f, a1, a2, aa1, aa2, b1, b2, bb1, bb2, m, n, k, l
    <2> QED BY <2>1, <2>2, <2>3, <2>4, <2>5
  <1> QED BY <1>1, <1>2, <1>15 DEF h, d

\* The kernel of CX moves the amplitudes.
LEMMA CXKernel ==
    ASSUME NEW c \in Qubits, NEW t \in Qubits, c # t, NEW psi \in [Basis -> Complex]
    PROVE  Kernel(psi, XMatrix, t, {c}) = [b \in Basis |-> psi[Controlled(b, c, t)]]
  <1> SUFFICES ASSUME NEW b \in Basis
               PROVE  Kernel(psi, XMatrix, t, {c})[b] = psi[Controlled(b, c, t)]
    BY DEF Kernel
  <1>1. b \ {t} \in Basis /\ b \cup {t} \in Basis
    BY DEF Basis
  <1>2. psi[b \ {t}] \in Complex /\ psi[b \cup {t}] \in Complex
    BY <1>1
  <1>3. CASE c \in b
    <2>1. {c} \subseteq b
      BY <1>3
    <2>2. CASE t \in b
      <3>1. Kernel(psi, XMatrix, t, {c})[b] = Plus(Times(One, psi[b \ {t}]), Times(Zero, psi[b \cup {t}]))
        BY <2>1, <2>2 DEF Kernel, XMatrix
      <3>2. Controlled(b, c, t) = b \ {t}
        BY <1>3, <2>2 DEF Controlled, SymDiff
      <3> QED BY <1>2, <3>1, <3>2, Entries
    <2>3. CASE t \notin b
      <3>1. Kernel(psi, XMatrix, t, {c})[b] = Plus(Times(Zero, psi[b \ {t}]), Times(One, psi[b \cup {t}]))
        BY <2>1, <2>3 DEF Kernel, XMatrix
      <3>2. Controlled(b, c, t) = b \cup {t}
        BY <1>3, <2>3 DEF Controlled, SymDiff
      <3> QED BY <1>2, <3>1, <3>2, Entries
    <2> QED BY <2>2, <2>3
  <1>4. CASE c \notin b
    BY <1>4 DEF Kernel, Controlled
  <1> QED BY <1>3, <1>4

\* A map of basis states that keeps symmetric differences and exponents keeps what is fixed.
LEMMA MovedFixes ==
    ASSUME NEW move \in [Basis -> Basis], NEW psi \in [Basis -> Complex], NEW g \in Paulis, NEW h \in Paulis, Fixes(g, psi),
           \A b \in Basis : /\ move[SymDiff(b, h.x)] = SymDiff(move[b], g.x)
                            /\ (Exponent(h, b) - Exponent(g, move[b])) % 4 = 0
    PROVE  Fixes(h, [b \in Basis |-> psi[move[b]]])
  <1> DEFINE K == [b \in Basis |-> psi[move[b]]]
  <1> SUFFICES ASSUME NEW b \in Basis PROVE K[SymDiff(b, h.x)] = Turned(K[b], Exponent(h, b))
    BY DEF Fixes
  <1>1. SymDiff(b, h.x) \in Basis /\ Exponent(h, b) \in Int /\ Exponent(g, move[b]) \in Int
    BY ExponentType
  <1>2. K[b] = psi[move[b]] /\ K[SymDiff(b, h.x)] = psi[SymDiff(move[b], g.x)]
    BY <1>1
  <1>3. psi[SymDiff(move[b], g.x)] = Turned(psi[move[b]], Exponent(g, move[b]))
    BY DEF Fixes
  <1>4. Turned(psi[move[b]], Exponent(h, b)) = Turned(psi[move[b]], Exponent(g, move[b]))
    BY <1>1, TurnedSame
  <1> QED BY <1>2, <1>3, <1>4

\* A row that fixes the amplitudes fixes them after CX.
LEMMA CXFixes ==
    ASSUME NEW c \in Qubits, NEW t \in Qubits, c # t, NEW psi \in [Basis -> Complex],
           NEW g \in Paulis, Fixes(g, psi)
    PROVE  /\ ApplyCX(g, c, t) \in Paulis
           /\ Fixes(ApplyCX(g, c, t), Kernel(psi, XMatrix, t, {c}))
  <1> DEFINE move == [b \in Basis |-> Controlled(b, c, t)]
             h == ApplyCX(g, c, t)
  <1>1. move \in [Basis -> Basis]
    BY ControlledFacts
  <1>2. h \in Paulis /\ h.x = Controlled(g.x, c, t) /\ g.x \in Basis
        /\ \A b \in Basis : (Exponent(h, b) - Exponent(g, Controlled(b, c, t))) % 4 = 0
    BY CXExponent, RowParts DEF Basis
  <1> HIDE DEF h
  <1>3. ASSUME NEW b \in Basis
        PROVE  /\ move[SymDiff(b, h.x)] = SymDiff(move[b], g.x)
               /\ (Exponent(h, b) - Exponent(g, move[b])) % 4 = 0
    <2>1. SymDiff(b, h.x) \in Basis
      BY <1>2, ExponentType
    <2>2. Controlled(SymDiff(b, h.x), c, t) = SymDiff(Controlled(b, c, t), g.x)
      BY <1>2, ControlledFacts
    <2> QED BY <1>2, <2>1, <2>2
  <1>4. Kernel(psi, XMatrix, t, {c}) = [b \in Basis |-> psi[move[b]]]
    BY CXKernel
  <1> HIDE DEF move
  <1>5. Fixes(h, [b \in Basis |-> psi[move[b]]])
    BY <1>1, <1>2, <1>3, MovedFixes
  <1> QED BY <1>2, <1>4, <1>5 DEF h

\* CX loses no amplitude ...
LEMMA CXLosesNone ==
    ASSUME NEW c \in Qubits, NEW t \in Qubits, c # t, NEW psi \in [Basis -> Complex]
    PROVE  /\ Kernel(psi, XMatrix, t, {c}) \in [Basis -> Complex]
           /\ (\E b \in Basis : psi[b] # Zero) => \E b \in Basis : Kernel(psi, XMatrix, t, {c})[b] # Zero
  <1> DEFINE K == Kernel(psi, XMatrix, t, {c})
  <1>1. K = [b \in Basis |-> psi[Controlled(b, c, t)]]
    BY CXKernel
  <1> HIDE DEF K
  <1>2. \A b \in Basis : Controlled(b, c, t) \in Basis /\ Controlled(Controlled(b, c, t), c, t) = b
    BY ControlledFacts
  <1>3. K \in [Basis -> Complex]
    BY <1>1, <1>2
  <1>4. ASSUME NEW b \in Basis, psi[b] # Zero PROVE \E d \in Basis : K[d] # Zero
    BY <1>1, <1>2, <1>4
  <1> QED BY <1>3, <1>4 DEF K

\* ... and exchanges those of the labels that the control is in.
LEMMA CXKeepsAmplitudes ==
    ASSUME NEW c \in Qubits, NEW t \in Qubits, c # t, NEW psi \in [Basis -> Complex]
    PROVE  /\ Kernel(psi, XMatrix, t, {c}) \in [Basis -> Complex]
           /\ (\E b \in Basis : psi[b] # Zero) => \E b \in Basis : Kernel(psi, XMatrix, t, {c})[b] # Zero
           /\ \A b \in Basis : t \notin b =>
                /\ c \in b => /\ Kernel(psi, XMatrix, t, {c})[b] = psi[b \cup {t}]
                              /\ Kernel(psi, XMatrix, t, {c})[b \cup {t}] = psi[b]
                /\ c \notin b => /\ Kernel(psi, XMatrix, t, {c})[b] = psi[b]
                                 /\ Kernel(psi, XMatrix, t, {c})[b \cup {t}] = psi[b \cup {t}]
  <1> DEFINE K == Kernel(psi, XMatrix, t, {c})
  <1>1. K = [b \in Basis |-> psi[Controlled(b, c, t)]]
    BY CXKernel
  <1>3. K \in [Basis -> Complex]
    BY CXLosesNone
  <1>4. (\E b \in Basis : psi[b] # Zero) => \E b \in Basis : K[b] # Zero
    BY CXLosesNone
  <1> HIDE DEF K
  <1>5. ASSUME NEW b \in Basis, t \notin b
        PROVE  /\ c \in b => K[b] = psi[b \cup {t}] /\ K[b \cup {t}] = psi[b]
               /\ c \notin b => K[b] = psi[b] /\ K[b \cup {t}] = psi[b \cup {t}]
    <2>1. b \cup {t} \in Basis
      BY DEF Basis
    <2>2. /\ c \in b => Controlled(b, c, t) = b \cup {t} /\ Controlled(b \cup {t}, c, t) = b
          /\ c \notin b => Controlled(b, c, t) = b /\ Controlled(b \cup {t}, c, t) = b \cup {t}
      BY <1>5 DEF Controlled, SymDiff
    <2> QED BY <1>1, <2>1, <2>2
  <1> QED BY <1>3, <1>4, <1>5 DEF K

\* What the matrices of H, S, SDG, Z and Y make of two amplitudes.
LEMMA MatrixForms ==
    ASSUME NEW a \in Complex, NEW b \in Complex
    PROVE  /\ Low(HMatrix, a, b) = Plus(a, b) /\ High(HMatrix, a, b) = Plus(a, Turned(b, 2))
           /\ Low(SMatrix, a, b) = a /\ High(SMatrix, a, b) = Turned(b, 1)
           /\ Low(SdgMatrix, a, b) = a /\ High(SdgMatrix, a, b) = Turned(b, 3)
           /\ Low(ZMatrix, a, b) = a /\ High(ZMatrix, a, b) = Turned(b, 2)
           /\ Low(YMatrix, a, b) = Turned(b, 3) /\ High(YMatrix, a, b) = Turned(a, 1)
  <1>1. Low(HMatrix, a, b) = Plus(a, b) /\ High(HMatrix, a, b) = Plus(a, Turned(b, 2))
    BY Entries, TurnedType DEF Low, High, HMatrix
  <1>2. Low(SMatrix, a, b) = a /\ High(SMatrix, a, b) = Turned(b, 1)
    BY Entries, TurnedType DEF Low, High, SMatrix
  <1>3. Low(SdgMatrix, a, b) = a /\ High(SdgMatrix, a, b) = Turned(b, 3)
    BY Entries, TurnedType DEF Low, High, SdgMatrix
  <1>4. Low(ZMatrix, a, b) = a /\ High(ZMatrix, a, b) = Turned(b, 2)
    BY Entries, TurnedType DEF Low, High, ZMatrix
  <1>5. Low(YMatrix, a, b) = Turned(b, 3) /\ High(YMatrix, a, b) = Turned(a, 1)
    BY Entries, TurnedType DEF Low, High, YMatrix
  <1> QED BY <1>1, <1>2, <1>3, <1>4, <1>5

\* f and h agree on the pairs of basis states that differ in qubit t.
PairsAgree(f, h, t) == \A b \in Basis : t \notin b => f[b] = h[b] /\ f[b \cup {t}] = h[b \cup {t}]

\* Two states are the same if they agree on the pairs.
LEMMA PairsDecide ==
    ASSUME NEW f \in [Basis -> Complex], NEW h \in [Basis -> Complex], NEW t \in Qubits,
           PairsAgree(f, h, t)
    PROVE  f = h
  <1>1. ASSUME NEW b \in Basis PROVE f[b] = h[b]
    <2>1. b \ {t} \in Basis /\ t \notin b \ {t} /\ (b = b \ {t} \/ b = (b \ {t}) \cup {t})
      BY DEF Basis
    <2> QED BY <2>1 DEF PairsAgree
  <1> QED BY <1>1

\* A kernel at one pair of basis states.
LEMMA KernelAt ==
    ASSUME NEW matrix, UnitMatrix(matrix), NEW psi \in [Basis -> Complex], NEW q \in Qubits,
           NEW K, K = Kernel(psi, matrix, q, {}), NEW b \in Basis, q \notin b
    PROVE  /\ K[b] = Low(matrix, psi[b], psi[b \cup {q}])
           /\ K[b \cup {q}] = High(matrix, psi[b], psi[b \cup {q}])
  BY KernelIs

\* Sums of sums and differences.
LEMMA Doubling ==
    ASSUME NEW u \in Complex, NEW v \in Complex
    PROVE  LET w == Turned(v, 2)
               p == Plus(u, v)
               m == Plus(u, w)
           IN  /\ Plus(p, m) = Plus(u, u) /\ Plus(p, Turned(m, 2)) = Plus(v, v)
               /\ Plus(m, p) = Plus(u, u) /\ Plus(m, Turned(p, 2)) = Plus(w, w)
               /\ Plus(u, u) = Plus(v, v) => u = v
               /\ Plus(u, u) = Zero <=> u = Zero
  <1>1. PICK a \in Int, b \in Int, c \in Int, d \in Int : u = <<a, b>> /\ v = <<c, d>>
    BY DEF Complex
  <1> DEFINE w == Turned(v, 2)
             p == Plus(u, v)
             m == Plus(u, w)
  <1>2. w = <<-c, -d>>
    BY <1>1, TurnedPair
  <1>3. p = <<a + c, b + d>> /\ m = <<a - c, b - d>>
    <2>1. p = <<a + c, b + d>> /\ m = <<a + (-c), b + (-d)>>
      BY <1>1, <1>2 DEF Plus
    <2>2. a + (-c) = a - c /\ b + (-d) = b - d
      OBVIOUS
    <2> QED BY <2>1, <2>2
  <1> HIDE DEF w, p, m
  <1>4. Turned(m, 2) = <<c - a, d - b>> /\ Turned(p, 2) = <<-(a + c), -(b + d)>>
    <2>1. Turned(m, 2) = <<-(a - c), -(b - d)>> /\ Turned(p, 2) = <<-(a + c), -(b + d)>>
      <3>1. a + c \in Int /\ b + d \in Int /\ a - c \in Int /\ b - d \in Int
        OBVIOUS
      <3> QED BY <1>3, <3>1, TurnedPair
    <2>2. -(a - c) = c - a /\ -(b - d) = d - b
      OBVIOUS
    <2> QED BY <2>1, <2>2
  <1>5. /\ Plus(u, u) = <<a + a, b + b>> /\ Plus(v, v) = <<c + c, d + d>>
        /\ Plus(w, w) = <<(-c) + (-c), (-d) + (-d)>>
    BY <1>1, <1>2 DEF Plus
  <1>6. /\ Plus(p, m) = <<(a + c) + (a - c), (b + d) + (b - d)>>
        /\ Plus(m, p) = <<(a - c) + (a + c), (b - d) + (b + d)>>
        /\ Plus(p, Turned(m, 2)) = <<(a + c) + (c - a), (b + d) + (d - b)>>
        /\ Plus(m, Turned(p, 2)) = <<(a - c) + (-(a + c)), (b - d) + (-(b + d))>>
    BY <1>3, <1>4 DEF Plus
  <1>7. /\ (a + c) + (a - c) = a + a /\ (b + d) + (b - d) = b + b
        /\ (a - c) + (a + c) = a + a /\ (b - d) + (b + d) = b + b
        /\ (a + c) + (c - a) = c + c /\ (b + d) + (d - b) = d + d
        /\ (a - c) + (-(a + c)) = (-c) + (-c) /\ (b - d) + (-(b + d)) = (-d) + (-d)
    OBVIOUS
  <1>8. Plus(u, u) = Plus(v, v) => u = v
    <2> SUFFICES ASSUME Plus(u, u) = Plus(v, v) PROVE u = v
      OBVIOUS
    <2>1. <<a + a, b + b>> = <<c + c, d + d>>
      BY <1>5
    <2>2. a + a = c + c /\ b + b = d + d
      BY <2>1
    <2>3. a = c /\ b = d
      BY <2>2
    <2> QED BY <1>1, <2>3
  <1>9. Plus(u, u) = Zero <=> u = Zero
    <2>1. Plus(u, u) = Zero <=> a + a = 0 /\ b + b = 0
      BY <1>5 DEF Zero
    <2>2. u = Zero <=> a = 0 /\ b = 0
      BY <1>1 DEF Zero
    <2>3. a + a = 0 /\ b + b = 0 <=> a = 0 /\ b = 0
      OBVIOUS
    <2> QED BY <2>1, <2>2, <2>3
  <1>10. /\ Plus(p, m) = Plus(u, u) /\ Plus(p, Turned(m, 2)) = Plus(v, v)
         /\ Plus(m, p) = Plus(u, u) /\ Plus(m, Turned(p, 2)) = Plus(w, w)
    BY <1>5, <1>6, <1>7
  <1> QED BY <1>8, <1>9, <1>10 DEF w, p, m

\* CY is CX between the turns of the target that change Y to X and back.
LEMMA CYKernel ==
    ASSUME NEW c \in Qubits, NEW t \in Qubits, c # t, NEW psi \in [Basis -> Complex]
    PROVE  Kernel(psi, YMatrix, t, {c})
             = Kernel(Kernel(Kernel(psi, SdgMatrix, t, {}), XMatrix, t, {c}), SMatrix, t, {})
  <1> DEFINE K1 == Kernel(psi, SdgMatrix, t, {})
             K2 == Kernel(K1, XMatrix, t, {c})
             K3 == Kernel(K2, SMatrix, t, {})
             Y == Kernel(psi, YMatrix, t, {c})
             UY == Kernel(psi, YMatrix, t, {})
  <1>1. UnitMatrix(SdgMatrix) /\ UnitMatrix(SMatrix) /\ UnitMatrix(YMatrix)
    BY SdgRule, SRule, YRule
  <1>2. K1 \in [Basis -> Complex]
    BY <1>1, KernelIs
  <1>3. K2 \in [Basis -> Complex]
    BY <1>2, CXKeepsAmplitudes
  <1>4. K3 \in [Basis -> Complex]
    BY <1>1, <1>3, KernelIs
  <1>5. ASSUME NEW b \in Basis, t \notin b
        PROVE  K1[b] = Low(SdgMatrix, psi[b], psi[b \cup {t}]) /\ K1[b \cup {t}] = High(SdgMatrix, psi[b], psi[b \cup {t}])
    <2>1. K1 = Kernel(psi, SdgMatrix, t, {}) /\ UnitMatrix(SdgMatrix) /\ psi \in [Basis -> Complex]
      BY <1>1
    <2> HIDE DEF K1
    <2> QED BY <1>5, <2>1, KernelAt
  <1>6. ASSUME NEW b \in Basis, t \notin b
        PROVE  K3[b] = Low(SMatrix, K2[b], K2[b \cup {t}]) /\ K3[b \cup {t}] = High(SMatrix, K2[b], K2[b \cup {t}])
    <2>1. K3 = Kernel(K2, SMatrix, t, {}) /\ UnitMatrix(SMatrix) /\ K2 \in [Basis -> Complex]
      BY <1>1, <1>3
    <2> HIDE DEF K2, K3
    <2> QED BY <1>6, <2>1, KernelAt
  <1>7. Y = [b \in Basis |-> IF c \in b THEN UY[b] ELSE psi[b]]
    BY DEF Kernel
  <1>8. Y \in [Basis -> Complex]
    <2>1. UY \in [Basis -> Complex]
      BY <1>1, KernelIs
    <2> HIDE DEF Y, UY
    <2> QED BY <1>7, <2>1
  <1>9. ASSUME NEW b \in Basis, t \notin b
         PROVE  UY[b] = Low(YMatrix, psi[b], psi[b \cup {t}]) /\ UY[b \cup {t}] = High(YMatrix, psi[b], psi[b \cup {t}])
    <2>1. UY = Kernel(psi, YMatrix, t, {}) /\ UnitMatrix(YMatrix)
      BY <1>1
    <2> HIDE DEF UY
    <2> QED BY <1>9, <2>1, KernelAt
  <1>10. ASSUME NEW b \in Basis, t \notin b
        PROVE  Y[b] = K3[b] /\ Y[b \cup {t}] = K3[b \cup {t}]
    <2> DEFINE u == psi[b]
               v == psi[b \cup {t}]
    <2>1. b \cup {t} \in Basis
      BY DEF Basis
    <2>2. u \in Complex /\ v \in Complex
      BY <2>1
    <2>3. K1[b] = Low(SdgMatrix, u, v) /\ K1[b \cup {t}] = High(SdgMatrix, u, v)
      BY <1>10, <1>5
    <2>4. K3[b] = Low(SMatrix, K2[b], K2[b \cup {t}]) /\ K3[b \cup {t}] = High(SMatrix, K2[b], K2[b \cup {t}])
      BY <1>10, <1>6
    <2>5. /\ c \in b => Y[b] = Low(YMatrix, u, v) /\ Y[b \cup {t}] = High(YMatrix, u, v)
          /\ c \notin b => Y[b] = u /\ Y[b \cup {t}] = v
      <3>1. b \cup {t} \in Basis /\ (c \in b \cup {t} <=> c \in b)
        BY <2>1
      <3> HIDE DEF Y, UY
      <3> QED BY <1>10, <1>9, <1>7, <3>1
    <2>6. /\ c \in b => K2[b] = K1[b \cup {t}] /\ K2[b \cup {t}] = K1[b]
          /\ c \notin b => K2[b] = K1[b] /\ K2[b \cup {t}] = K1[b \cup {t}]
      <3> HIDE DEF K1
      <3> QED BY <1>2, <1>10, CXKeepsAmplitudes
    <2> HIDE DEF K1, K2, K3, Y, u, v
    <2>7. K1[b] = u /\ K1[b \cup {t}] = Turned(v, 3)
      BY <2>2, <2>3, MatrixForms
    <2>8. K2[b] \in Complex /\ K2[b \cup {t}] \in Complex
      BY <1>3, <2>1
    <2>9. K3[b] = K2[b] /\ K3[b \cup {t}] = Turned(K2[b \cup {t}], 1)
      BY <2>4, <2>8, MatrixForms
    <2>10. Low(YMatrix, u, v) = Turned(v, 3) /\ High(YMatrix, u, v) = Turned(u, 1)
      BY <2>2, MatrixForms
    <2>11. Turned(Turned(v, 3), 1) = v
      BY <2>2, Turning
    <2> QED BY <2>5, <2>6, <2>7, <2>9, <2>10, <2>11
  <1>11. Y = K3
    <2>1. \A b \in Basis : t \notin b => Y[b] = K3[b] /\ Y[b \cup {t}] = K3[b \cup {t}]
      BY <1>10
    <2> HIDE DEF K1, K2, K3, Y
    <2>2. PairsAgree(Y, K3, t)
      BY <2>1 DEF PairsAgree
    <2> QED BY <1>4, <1>8, <2>2, PairsDecide
  <1> QED BY <1>11 DEF K1, K2, K3, Y

\* CZ, doubled, is CX between two H on the target.
LEMMA CZKernel ==
    ASSUME NEW c \in Qubits, NEW t \in Qubits, c # t, NEW psi \in [Basis -> Complex]
    PROVE  LET Z == Kernel(psi, ZMatrix, t, {c})
               K == Kernel(Kernel(Kernel(psi, HMatrix, t, {}), XMatrix, t, {c}), HMatrix, t, {})
           IN  \A b \in Basis : K[b] = Plus(Z[b], Z[b])
  <1> DEFINE K1 == Kernel(psi, HMatrix, t, {})
             K2 == Kernel(K1, XMatrix, t, {c})
             K3 == Kernel(K2, HMatrix, t, {})
             Z == Kernel(psi, ZMatrix, t, {c})
             UZ == Kernel(psi, ZMatrix, t, {})
             ZZ == [b \in Basis |-> Plus(Z[b], Z[b])]
  <1>1. UnitMatrix(HMatrix) /\ UnitMatrix(ZMatrix)
    BY HRule, ZRule
  <1>2. K1 \in [Basis -> Complex]
    BY <1>1, KernelIs
  <1>3. K2 \in [Basis -> Complex]
    BY <1>2, CXKeepsAmplitudes
  <1>4. K3 \in [Basis -> Complex]
    BY <1>1, <1>3, KernelIs
  <1>5. ASSUME NEW b \in Basis, t \notin b
        PROVE  K1[b] = Low(HMatrix, psi[b], psi[b \cup {t}]) /\ K1[b \cup {t}] = High(HMatrix, psi[b], psi[b \cup {t}])
    <2>1. K1 = Kernel(psi, HMatrix, t, {}) /\ UnitMatrix(HMatrix) /\ psi \in [Basis -> Complex]
      BY <1>1
    <2> HIDE DEF K1
    <2> QED BY <1>5, <2>1, KernelAt
  <1>6. ASSUME NEW b \in Basis, t \notin b
        PROVE  K3[b] = Low(HMatrix, K2[b], K2[b \cup {t}]) /\ K3[b \cup {t}] = High(HMatrix, K2[b], K2[b \cup {t}])
    <2>1. K3 = Kernel(K2, HMatrix, t, {}) /\ UnitMatrix(HMatrix) /\ K2 \in [Basis -> Complex]
      BY <1>1, <1>3
    <2> HIDE DEF K2, K3
    <2> QED BY <1>6, <2>1, KernelAt
  <1>7. Z = [b \in Basis |-> IF c \in b THEN UZ[b] ELSE psi[b]]
    BY DEF Kernel
  <1>8. Z \in [Basis -> Complex]
    <2>1. UZ \in [Basis -> Complex]
      BY <1>1, KernelIs
    <2> HIDE DEF Z, UZ
    <2> QED BY <1>7, <2>1
  <1>9. ASSUME NEW b \in Basis, t \notin b
         PROVE  UZ[b] = Low(ZMatrix, psi[b], psi[b \cup {t}]) /\ UZ[b \cup {t}] = High(ZMatrix, psi[b], psi[b \cup {t}])
    <2>1. UZ = Kernel(psi, ZMatrix, t, {}) /\ UnitMatrix(ZMatrix)
      BY <1>1
    <2> HIDE DEF UZ
    <2> QED BY <1>9, <2>1, KernelAt
  <1>10. ZZ \in [Basis -> Complex]
    <2> HIDE DEF Z
    <2> QED BY <1>8, Adding
  <1>11. ASSUME NEW b \in Basis, t \notin b
        PROVE  ZZ[b] = K3[b] /\ ZZ[b \cup {t}] = K3[b \cup {t}]
    <2> DEFINE u == psi[b]
               v == psi[b \cup {t}]
    <2>1. b \cup {t} \in Basis
      BY DEF Basis
    <2>2. u \in Complex /\ v \in Complex
      BY <2>1
    <2>3. K1[b] = Low(HMatrix, u, v) /\ K1[b \cup {t}] = High(HMatrix, u, v)
      BY <1>11, <1>5
    <2>4. K3[b] = Low(HMatrix, K2[b], K2[b \cup {t}]) /\ K3[b \cup {t}] = High(HMatrix, K2[b], K2[b \cup {t}])
      BY <1>11, <1>6
    <2>5. /\ c \in b => Z[b] = Low(ZMatrix, u, v) /\ Z[b \cup {t}] = High(ZMatrix, u, v)
          /\ c \notin b => Z[b] = u /\ Z[b \cup {t}] = v
      <3>1. b \cup {t} \in Basis /\ (c \in b \cup {t} <=> c \in b)
        BY <2>1
      <3> HIDE DEF Z, UZ
      <3> QED BY <1>11, <1>9, <1>7, <3>1
    <2>6. /\ c \in b => K2[b] = K1[b \cup {t}] /\ K2[b \cup {t}] = K1[b]
          /\ c \notin b => K2[b] = K1[b] /\ K2[b \cup {t}] = K1[b \cup {t}]
      <3> HIDE DEF K1
      <3> QED BY <1>2, <1>11, CXKeepsAmplitudes
    <2>7. ZZ[b] = Plus(Z[b], Z[b]) /\ ZZ[b \cup {t}] = Plus(Z[b \cup {t}], Z[b \cup {t}])
      BY <2>1
    <2> HIDE DEF K1, K2, K3, Z, ZZ, u, v
    <2> DEFINE w == Turned(v, 2)
               p == Plus(u, v)
               m == Plus(u, w)
    <2>8. K1[b] = p /\ K1[b \cup {t}] = m
      BY <2>2, <2>3, MatrixForms
    <2>9. K2[b] \in Complex /\ K2[b \cup {t}] \in Complex
      BY <1>3, <2>1
    <2>10. K3[b] = Plus(K2[b], K2[b \cup {t}]) /\ K3[b \cup {t}] = Plus(K2[b], Turned(K2[b \cup {t}], 2))
      BY <2>4, <2>9, MatrixForms
    <2>11. Low(ZMatrix, u, v) = u /\ High(ZMatrix, u, v) = w
      BY <2>2, MatrixForms
    <2>12. /\ Plus(p, m) = Plus(u, u) /\ Plus(p, Turned(m, 2)) = Plus(v, v)
           /\ Plus(m, p) = Plus(u, u) /\ Plus(m, Turned(p, 2)) = Plus(w, w)
      BY <2>2, Doubling
    <2> HIDE DEF w, p, m
    <2> QED BY <2>5, <2>6, <2>7, <2>8, <2>10, <2>11, <2>12
  <1> HIDE DEF K1, K2, K3, Z, ZZ
  <1>12. ZZ = K3
    <2>1. \A b \in Basis : t \notin b => ZZ[b] = K3[b] /\ ZZ[b \cup {t}] = K3[b \cup {t}]
      BY <1>11
    <2>2. PairsAgree(ZZ, K3, t)
      BY <2>1 DEF PairsAgree
    <2> QED BY <1>4, <1>10, <2>2, PairsDecide
  <1> QED BY <1>12 DEF K1, K2, K3, Z, ZZ

\* The gates on one qubit that CY and CZ are made of.
LEMMA PartFixes ==
    ASSUME NEW g \in Paulis, NEW q \in Qubits, NEW psi \in [Basis -> Complex], Fixes(g, psi)
    PROVE  /\ ApplyH(g, q) \in Paulis /\ Fixes(ApplyH(g, q), Kernel(psi, HMatrix, q, {}))
           /\ ApplyS(g, q) \in Paulis /\ Fixes(ApplyS(g, q), Kernel(psi, SMatrix, q, {}))
           /\ ApplySdg(g, q) \in Paulis /\ Fixes(ApplySdg(g, q), Kernel(psi, SdgMatrix, q, {}))
  <1>1. ApplyH(g, q) \in Paulis /\ ApplyS(g, q) \in Paulis /\ ApplySdg(g, q) \in Paulis
    BY GatesKeep DEF Keeps
  <1>2. Fixes(ApplyH(g, q), Kernel(psi, HMatrix, q, {}))
    <2>1. "H" \in AgreedGates /\ MatrixOf("H") = HMatrix /\ OneQubit("H", g, q) = ApplyH(g, q)
      BY DEF AgreedGates, MatrixOf, OneQubit
    <2>2. Fixes(OneQubit("H", g, q), Kernel(psi, MatrixOf("H"), q, {}))
      BY <2>1, GateFixes
    <2> QED BY <2>1, <2>2
  <1>3. Fixes(ApplyS(g, q), Kernel(psi, SMatrix, q, {}))
    <2>1. "S" \in AgreedGates /\ MatrixOf("S") = SMatrix /\ OneQubit("S", g, q) = ApplyS(g, q)
      BY DEF AgreedGates, MatrixOf, OneQubit
    <2>2. Fixes(OneQubit("S", g, q), Kernel(psi, MatrixOf("S"), q, {}))
      BY <2>1, GateFixes
    <2> QED BY <2>1, <2>2
  <1>4. Fixes(ApplySdg(g, q), Kernel(psi, SdgMatrix, q, {}))
    <2>1. "SDG" \in AgreedGates /\ MatrixOf("SDG") = SdgMatrix /\ OneQubit("SDG", g, q) = ApplySdg(g, q)
      BY DEF AgreedGates, MatrixOf, OneQubit
    <2>2. Fixes(OneQubit("SDG", g, q), Kernel(psi, MatrixOf("SDG"), q, {}))
      BY <2>1, GateFixes
    <2> QED BY <2>1, <2>2
  <1> QED BY <1>1, <1>2, <1>3, <1>4

\* The kernels of H, S and SDG keep the type and some amplitude.
LEMMA PartKernels ==
    ASSUME NEW psi \in [Basis -> Complex], NEW q \in Qubits
    PROVE  /\ Kernel(psi, HMatrix, q, {}) \in [Basis -> Complex]
           /\ Kernel(psi, SMatrix, q, {}) \in [Basis -> Complex]
           /\ Kernel(psi, SdgMatrix, q, {}) \in [Basis -> Complex]
           /\ (\E b \in Basis : psi[b] # Zero) =>
                /\ \E b \in Basis : Kernel(psi, HMatrix, q, {})[b] # Zero
                /\ \E b \in Basis : Kernel(psi, SMatrix, q, {})[b] # Zero
                /\ \E b \in Basis : Kernel(psi, SdgMatrix, q, {})[b] # Zero
  <1>1. /\ UnitMatrix(HMatrix) /\ Regular(HMatrix) /\ UnitMatrix(SMatrix) /\ Regular(SMatrix)
        /\ UnitMatrix(SdgMatrix) /\ Regular(SdgMatrix)
    BY HRule, SRule, SdgRule
  <1>2. /\ Kernel(psi, HMatrix, q, {}) \in [Basis -> Complex]
        /\ Kernel(psi, SMatrix, q, {}) \in [Basis -> Complex]
        /\ Kernel(psi, SdgMatrix, q, {}) \in [Basis -> Complex]
    BY <1>1, KernelIs
  <1>3. ASSUME NEW b \in Basis, psi[b] # Zero
        PROVE  /\ \E d \in Basis : Kernel(psi, HMatrix, q, {})[d] # Zero
               /\ \E d \in Basis : Kernel(psi, SMatrix, q, {})[d] # Zero
               /\ \E d \in Basis : Kernel(psi, SdgMatrix, q, {})[d] # Zero
    BY <1>1, <1>3, KernelNonzero
  <1> QED BY <1>2, <1>3

\* A row that fixes a state doubled fixes it.
LEMMA DoubledFixes ==
    ASSUME NEW psi \in [Basis -> Complex], NEW K \in [Basis -> Complex], \A b \in Basis : K[b] = Plus(psi[b], psi[b]),
           NEW g \in Paulis, Fixes(g, K)
    PROVE  Fixes(g, psi)
  <1> SUFFICES ASSUME NEW b \in Basis PROVE psi[SymDiff(b, g.x)] = Turned(psi[b], Exponent(g, b))
    BY DEF Fixes
  <1> DEFINE c == SymDiff(b, g.x)
             k == Exponent(g, b)
  <1>1. c \in Basis /\ k \in Int
    BY ExponentType
  <1>2. K[c] = Turned(K[b], k)
    BY DEF Fixes
  <1> HIDE DEF c, k
  <1>3. psi[c] \in Complex /\ psi[b] \in Complex /\ Turned(psi[b], k) \in Complex
    BY <1>1, TurnedType
  <1>4. Plus(psi[c], psi[c]) = Turned(Plus(psi[b], psi[b]), k)
    BY <1>1, <1>2
  <1>5. Turned(Plus(psi[b], psi[b]), k) = Plus(Turned(psi[b], k), Turned(psi[b], k))
    BY <1>1, <1>3, TurnedPlus
  <1>6. psi[c] = Turned(psi[b], k)
    BY <1>3, <1>4, <1>5, Doubling
  <1> QED BY <1>6 DEF c, k

\* A row that fixes the amplitudes fixes them after CY.
LEMMA CYFixes ==
    ASSUME NEW c \in Qubits, NEW t \in Qubits, c # t, NEW psi \in [Basis -> Complex]
    PROVE  /\ \A g \in Paulis : Fixes(g, psi) => Fixes(ApplyCY(g, c, t), Kernel(psi, YMatrix, t, {c}))
           /\ Kernel(psi, YMatrix, t, {c}) \in [Basis -> Complex]
           /\ (\E b \in Basis : psi[b] # Zero) => \E b \in Basis : Kernel(psi, YMatrix, t, {c})[b] # Zero
  <1> DEFINE K1 == Kernel(psi, SdgMatrix, t, {})
             K2 == Kernel(K1, XMatrix, t, {c})
             K3 == Kernel(K2, SMatrix, t, {})
  <1>1. K1 \in [Basis -> Complex] /\ ((\E b \in Basis : psi[b] # Zero) => \E b \in Basis : K1[b] # Zero)
    BY PartKernels
  <1>2. K2 \in [Basis -> Complex] /\ ((\E b \in Basis : K1[b] # Zero) => \E b \in Basis : K2[b] # Zero)
    <2> HIDE DEF K1
    <2> QED BY <1>1, CXLosesNone
  <1>3. K3 \in [Basis -> Complex] /\ ((\E b \in Basis : K2[b] # Zero) => \E b \in Basis : K3[b] # Zero)
    <2> HIDE DEF K2
    <2> QED BY <1>2, PartKernels
  <1>4. Kernel(psi, YMatrix, t, {c}) = K3
    BY CYKernel
  <1>5. ASSUME NEW g \in Paulis, Fixes(g, psi) PROVE Fixes(ApplyCY(g, c, t), K3)
    <2>1. ApplySdg(g, t) \in Paulis /\ Fixes(ApplySdg(g, t), K1)
      BY <1>5, PartFixes
    <2>2. ApplyCX(ApplySdg(g, t), c, t) \in Paulis /\ Fixes(ApplyCX(ApplySdg(g, t), c, t), K2)
      <3> HIDE DEF K1
      <3> QED BY <1>1, <2>1, CXFixes
    <2>3. Fixes(ApplyS(ApplyCX(ApplySdg(g, t), c, t), t), K3)
      <3> HIDE DEF K2
      <3> QED BY <1>2, <2>2, PartFixes
    <2> QED BY <2>3 DEF ApplyCY
  <1> HIDE DEF K1, K2, K3
  <1> QED BY <1>1, <1>2, <1>3, <1>4, <1>5

\* A row that fixes the amplitudes fixes them after CZ.
LEMMA CZFixes ==
    ASSUME NEW c \in Qubits, NEW t \in Qubits, c # t, NEW psi \in [Basis -> Complex]
    PROVE  /\ \A g \in Paulis : Fixes(g, psi) => Fixes(ApplyCZ(g, c, t), Kernel(psi, ZMatrix, t, {c}))
           /\ Kernel(psi, ZMatrix, t, {c}) \in [Basis -> Complex]
           /\ (\E b \in Basis : psi[b] # Zero) => \E b \in Basis : Kernel(psi, ZMatrix, t, {c})[b] # Zero
  <1> DEFINE K1 == Kernel(psi, HMatrix, t, {})
             K2 == Kernel(K1, XMatrix, t, {c})
             K3 == Kernel(K2, HMatrix, t, {})
             Z == Kernel(psi, ZMatrix, t, {c})
             U == Kernel(psi, ZMatrix, t, {})
  <1>1. K1 \in [Basis -> Complex] /\ ((\E b \in Basis : psi[b] # Zero) => \E b \in Basis : K1[b] # Zero)
    BY PartKernels
  <1>2. K2 \in [Basis -> Complex] /\ ((\E b \in Basis : K1[b] # Zero) => \E b \in Basis : K2[b] # Zero)
    <2> HIDE DEF K1
    <2> QED BY <1>1, CXLosesNone
  <1>3. K3 \in [Basis -> Complex] /\ ((\E b \in Basis : K2[b] # Zero) => \E b \in Basis : K3[b] # Zero)
    <2> HIDE DEF K2
    <2> QED BY <1>2, PartKernels
  <1>4. \A b \in Basis : K3[b] = Plus(Z[b], Z[b])
    BY CZKernel
  <1>5. Z \in [Basis -> Complex]
    <2>1. Z = [b \in Basis |-> IF c \in b THEN U[b] ELSE psi[b]]
      BY DEF Kernel
    <2>2. U \in [Basis -> Complex]
      BY ZRule, KernelIs
    <2> HIDE DEF Z, U
    <2> QED BY <2>1, <2>2
  <1>6. ASSUME NEW g \in Paulis, Fixes(g, psi) PROVE Fixes(ApplyCZ(g, c, t), Z)
    <2>1. ApplyH(g, t) \in Paulis /\ Fixes(ApplyH(g, t), K1)
      BY <1>6, PartFixes
    <2>2. ApplyCX(ApplyH(g, t), c, t) \in Paulis /\ Fixes(ApplyCX(ApplyH(g, t), c, t), K2)
      <3> HIDE DEF K1
      <3> QED BY <1>1, <2>1, CXFixes
    <2>3. /\ Fixes(ApplyH(ApplyCX(ApplyH(g, t), c, t), t), K3)
          /\ ApplyH(ApplyCX(ApplyH(g, t), c, t), t) \in Paulis
      <3> HIDE DEF K2
      <3> QED BY <1>2, <2>2, PartFixes
    <2> HIDE DEF K3, Z
    <2> QED BY <1>3, <1>4, <1>5, <2>3, DoubledFixes DEF ApplyCZ
  <1> HIDE DEF K1, K2, K3, Z, U
  <1>7. ASSUME NEW b \in Basis, K3[b] # Zero PROVE Z[b] # Zero
    <2>1. Z[b] \in Complex
      BY <1>5
    <2> QED BY <1>4, <1>7, <2>1, Doubling
  <1> QED BY <1>1, <1>2, <1>3, <1>5, <1>6, <1>7 DEF Z

\* Exchanging two qubits in a basis state.
LEMMA ExchangedFacts ==
    ASSUME NEW p \in Qubits, NEW q \in Qubits, p # q, NEW b \in Basis, NEW x \in Basis
    PROVE  /\ \A j : j \in Exchanged(b, p, q) <=>
                        IF j = p THEN q \in b ELSE IF j = q THEN p \in b ELSE j \in b
           /\ Exchanged(b, p, q) \in Basis
           /\ Exchanged(Exchanged(b, p, q), p, q) = b
           /\ Exchanged(b, p, q) = With(With(b, p, q \in b), q, p \in b)
           /\ Exchanged(SymDiff(b, Exchanged(x, p, q)), p, q) = SymDiff(Exchanged(b, p, q), x)
  <1>1. ASSUME NEW a
        PROVE  \A j : j \in Exchanged(a, p, q) <=>
                        IF j = p THEN q \in a ELSE IF j = q THEN p \in a ELSE j \in a
    BY DEF Exchanged
  <1>2. Exchanged(b, p, q) \in Basis
    BY <1>1 DEF Basis
  <1>3. Exchanged(Exchanged(b, p, q), p, q) = b
    <2>1. \A j : j \in Exchanged(Exchanged(b, p, q), p, q) <=> j \in b
      BY <1>1
    <2> QED BY <2>1
  <1>4. Exchanged(b, p, q) = With(With(b, p, q \in b), q, p \in b)
    <2>1. \A j : j \in Exchanged(b, p, q) <=> j \in With(With(b, p, q \in b), q, p \in b)
      BY <1>1 DEF With
    <2> QED BY <2>1
  <1>5. Exchanged(SymDiff(b, Exchanged(x, p, q)), p, q) = SymDiff(Exchanged(b, p, q), x)
    <2>1. \A a, d, j : j \in SymDiff(a, d) <=> ~ (j \in a <=> j \in d)
      BY DEF SymDiff
    <2>2. \A j : j \in Exchanged(SymDiff(b, Exchanged(x, p, q)), p, q) <=> j \in SymDiff(Exchanged(b, p, q), x)
      <3> SUFFICES ASSUME NEW j
                   PROVE  j \in Exchanged(SymDiff(b, Exchanged(x, p, q)), p, q) <=> j \in SymDiff(Exchanged(b, p, q), x)
        OBVIOUS
      <3> DEFINE y == Exchanged(x, p, q)
                 e == Exchanged(b, p, q)
                 d == SymDiff(b, y)
      <3>1. j \in Exchanged(d, p, q) <=> IF j = p THEN q \in d ELSE IF j = q THEN p \in d ELSE j \in d
        BY <1>1
      <3>2. /\ j \in e <=> IF j = p THEN q \in b ELSE IF j = q THEN p \in b ELSE j \in b
            /\ p \in y <=> q \in x
            /\ q \in y <=> p \in x
            /\ (j # p /\ j # q) => (j \in y <=> j \in x)
        BY <1>1
      <3>3. /\ p \in d <=> ~ (p \in b <=> p \in y)
            /\ q \in d <=> ~ (q \in b <=> q \in y)
            /\ j \in d <=> ~ (j \in b <=> j \in y)
            /\ j \in SymDiff(e, x) <=> ~ (j \in e <=> j \in x)
        BY <2>1
      <3> HIDE DEF y, e, d
      <3>4. j \in Exchanged(d, p, q) <=> j \in SymDiff(e, x)
        BY <3>1, <3>2, <3>3
      <3> QED BY <3>4 DEF y, e, d
    <2> QED BY <2>2
  <1> QED BY <1>1, <1>2, <1>3, <1>4, <1>5

\* Exchanging two qubits keeps the number of ones.
LEMMA ExchangedSize ==
    ASSUME NEW p \in Qubits, NEW q \in Qubits, p # q, NEW S \in Basis
    PROVE  Cardinality(Exchanged(S, p, q)) = Cardinality(S)
  <1> DEFINE R == Exchanged(S, p, q)
  <1>1. R \in Basis /\ (p \in R <=> q \in S) /\ (q \in R <=> p \in S)
    BY ExchangedFacts
  <1>2. R \ {p, q} = S \ {p, q}
    <2>1. \A j : j \in R <=> IF j = p THEN q \in S ELSE IF j = q THEN p \in S ELSE j \in S
      BY ExchangedFacts
    <2> HIDE DEF R
    <2>2. \A j : j \in R \ {p, q} <=> j \in S \ {p, q}
      BY <2>1
    <2> QED BY <2>2
  <1> HIDE DEF R
  <1> DEFINE u == Bit(p \in S)
             v == Bit(q \in S)
             n == Cardinality(S \ {p, q})
  <1>3. Cardinality(S) = n + u + v /\ n \in Nat
    BY CountApartTwice DEF Basis
  <1>4. Bit(p \in R) = v /\ Bit(q \in R) = u /\ u \in Nat /\ v \in Nat
    BY <1>1 DEF Bit
  <1>5. Cardinality(R) = Cardinality(R \ {p, q}) + Bit(p \in R) + Bit(q \in R)
    BY <1>1, CountApartTwice DEF Basis
  <1>6. Cardinality(R) = n + v + u
    BY <1>2, <1>4, <1>5
  <1> HIDE DEF u, v, n
  <1> QED BY <1>3, <1>4, <1>6 DEF R

\* A row that fixes the amplitudes fixes them after SWAP.
LEMMA SwapFixes ==
    ASSUME NEW p \in Qubits, NEW q \in Qubits, p # q, NEW psi \in [Basis -> Complex]
    PROVE  LET K == [b \in Basis |-> psi[Exchanged(b, p, q)]]
           IN  /\ \A g \in Paulis : Fixes(g, psi) => Fixes(ApplySwap(g, p, q), K)
               /\ K \in [Basis -> Complex]
               /\ (\E b \in Basis : psi[b] # Zero) => \E b \in Basis : K[b] # Zero
  <1> DEFINE K == [b \in Basis |-> psi[Exchanged(b, p, q)]]
             move == [b \in Basis |-> Exchanged(b, p, q)]
  <1>1. \A b \in Basis : Exchanged(b, p, q) \in Basis /\ Exchanged(Exchanged(b, p, q), p, q) = b
    BY ExchangedFacts
  <1>2. K \in [Basis -> Complex] /\ move \in [Basis -> Basis]
    BY <1>1
  <1>3. ASSUME NEW b \in Basis, psi[b] # Zero PROVE \E d \in Basis : K[d] # Zero
    BY <1>1, <1>3
  <1>4. ASSUME NEW g \in Paulis, Fixes(g, psi) PROVE Fixes(ApplySwap(g, p, q), K)
    <2> DEFINE h == ApplySwap(g, p, q)
    <2>1. h \in Paulis
      BY SwapKeeps DEF Keeps
    <2>2. g.x \in Basis /\ g.z \in Basis /\ g.phase \in 0 .. 3
      BY RowParts DEF Basis
    <2>3. h.x = Exchanged(g.x, p, q) /\ h.z = Exchanged(g.z, p, q) /\ h.phase = g.phase
      BY <2>2, ExchangedFacts DEF ApplySwap
    <2> HIDE DEF h
    <2>4. ASSUME NEW b \in Basis
          PROVE  /\ move[SymDiff(b, h.x)] = SymDiff(move[b], g.x)
                 /\ (Exponent(h, b) - Exponent(g, move[b])) % 4 = 0
      <3> DEFINE e == Exchanged(b, p, q)
      <3>1. SymDiff(b, h.x) \in Basis /\ e \in Basis
        BY <1>1, <2>1, ExponentType
      <3>2. Exchanged(SymDiff(b, Exchanged(g.x, p, q)), p, q) = SymDiff(e, g.x)
        BY <2>2, ExchangedFacts
      <3>3. h.x \cap h.z = Exchanged(g.x \cap g.z, p, q) /\ g.x \cap g.z \in Basis
        <4>1. g.x \cap g.z \in Basis
          BY <2>2 DEF Basis
        <4>2. \A j : j \in Exchanged(g.x, p, q) /\ j \in Exchanged(g.z, p, q) <=> j \in Exchanged(g.x \cap g.z, p, q)
          BY <2>2, <4>1, ExchangedFacts
        <4> QED BY <2>3, <4>1, <4>2
      <3>4. b \cap h.z = Exchanged(e \cap g.z, p, q) /\ e \cap g.z \in Basis
        <4>1. e \cap g.z \in Basis
          BY <2>2, <3>1 DEF Basis
        <4>2. \A j : j \in b /\ j \in Exchanged(g.z, p, q) <=> j \in Exchanged(e \cap g.z, p, q)
          <5>1. \A j : j \in Exchanged(g.z, p, q) <=> IF j = p THEN q \in g.z ELSE IF j = q THEN p \in g.z ELSE j \in g.z
            BY <2>2, ExchangedFacts
          <5>2. \A j : j \in e <=> IF j = p THEN q \in b ELSE IF j = q THEN p \in b ELSE j \in b
            BY ExchangedFacts
          <5> HIDE DEF e
          <5>3. \A j : j \in Exchanged(e \cap g.z, p, q) <=>
                    IF j = p THEN q \in e \cap g.z ELSE IF j = q THEN p \in e \cap g.z ELSE j \in e \cap g.z
            BY <4>1, ExchangedFacts
          <5> QED BY <5>1, <5>2, <5>3
        <4> QED BY <2>3, <4>1, <4>2
      <3> HIDE DEF e
      <3>5. Cardinality(h.x \cap h.z) = Cardinality(g.x \cap g.z) /\ Cardinality(b \cap h.z) = Cardinality(e \cap g.z)
        <4>1. Cardinality(Exchanged(g.x \cap g.z, p, q)) = Cardinality(g.x \cap g.z)
          BY <3>3, ExchangedSize
        <4>2. Cardinality(Exchanged(e \cap g.z, p, q)) = Cardinality(e \cap g.z)
          BY <3>4, ExchangedSize
        <4> QED BY <3>3, <3>4, <4>1, <4>2
      <3>6. Exponent(h, b) = Exponent(g, e)
        BY <2>3, <3>5 DEF Exponent
      <3>7. (Exponent(h, b) - Exponent(g, e)) % 4 = 0
        <4>1. Exponent(g, e) \in Nat
          BY <3>1, ExponentType
        <4> QED BY <3>6, <4>1
      <3> QED BY <2>3, <3>1, <3>2, <3>7 DEF e
    <2> HIDE DEF move
    <2>5. Fixes(h, [b \in Basis |-> psi[move[b]]])
      BY <1>2, <1>4, <2>1, <2>4, MovedFixes
    <2>6. K = [b \in Basis |-> psi[move[b]]]
      BY DEF move
    <2> HIDE DEF K
    <2> QED BY <2>5, <2>6 DEF h
  <1> QED BY <1>2, <1>3, <1>4

\* The amplitudes a gate on two qubits leaves, up to their common factor.
CoupledKernel(psi, gate, q0, q1) ==
    CASE gate = "CX" -> Kernel(psi, XMatrix, q1, {q0})
      [] gate = "CY" -> Kernel(psi, YMatrix, q1, {q0})
      [] gate = "CZ" -> Kernel(psi, ZMatrix, q1, {q0})
      [] gate = "SWAP" -> [b \in Basis |-> psi[Exchanged(b, q0, q1)]]

\* Gates on two qubits keep the tableau and the amplitudes together.
LEMMA CoupledDescribed ==
    ASSUME NEW T, NEW psi, Describes(T, psi), NEW gate \in TwoQubitGates,
           NEW p \in Qubits, NEW q \in Qubits, p # q
    PROVE  Describes([i \in Indices |-> TwoQubit(gate, T[i], p, q)], Coupled(psi, gate, p, q))
  <1> DEFINE K == CoupledKernel(psi, gate, p, q)
             U == [i \in Indices |-> TwoQubit(gate, T[i], p, q)]
  <1>1. /\ IsSymplectic(T) /\ psi \in [Basis -> Complex] /\ Stabilizes(T, psi)
        /\ \A i \in Indices : T[i] \in Paulis
        /\ \E b \in Basis : psi[b] # Zero
    BY DEF Describes, IsSymplectic
  <1>2. gate \in {"CX", "CY", "CZ", "SWAP"}
    BY GatesAreClifford
  <1>3. /\ K \in [Basis -> Complex] /\ \E b \in Basis : K[b] # Zero
        /\ \A g \in Paulis : Fixes(g, psi) => Fixes(TwoQubit(gate, g, p, q), K)
    <2>1. CASE gate = "CX"
      <3> DEFINE L == Kernel(psi, XMatrix, q, {p})
      <3>1. K = L /\ \A g : TwoQubit(gate, g, p, q) = ApplyCX(g, p, q)
        BY <2>1 DEF CoupledKernel, TwoQubit
      <3>2. \A g \in Paulis : Fixes(g, psi) => Fixes(ApplyCX(g, p, q), L)
        BY <1>1, CXFixes
      <3>3. L \in [Basis -> Complex] /\ \E b \in Basis : L[b] # Zero
        BY <1>1, CXLosesNone
      <3> HIDE DEF L, K
      <3> QED BY <3>1, <3>2, <3>3
    <2>2. CASE gate = "CY"
      <3> DEFINE L == Kernel(psi, YMatrix, q, {p})
      <3>1. K = L /\ \A g : TwoQubit(gate, g, p, q) = ApplyCY(g, p, q)
        BY <2>2 DEF CoupledKernel, TwoQubit
      <3>2. \A g \in Paulis : Fixes(g, psi) => Fixes(ApplyCY(g, p, q), L)
        BY <1>1, CYFixes
      <3>3. L \in [Basis -> Complex] /\ \E b \in Basis : L[b] # Zero
        BY <1>1, CYFixes
      <3> HIDE DEF L, K
      <3> QED BY <3>1, <3>2, <3>3
    <2>3. CASE gate = "CZ"
      <3> DEFINE L == Kernel(psi, ZMatrix, q, {p})
      <3>1. K = L /\ \A g : TwoQubit(gate, g, p, q) = ApplyCZ(g, p, q)
        BY <2>3 DEF CoupledKernel, TwoQubit
      <3>2. \A g \in Paulis : Fixes(g, psi) => Fixes(ApplyCZ(g, p, q), L)
        BY <1>1, CZFixes
      <3>3. L \in [Basis -> Complex] /\ \E b \in Basis : L[b] # Zero
        BY <1>1, CZFixes
      <3> HIDE DEF L, K
      <3> QED BY <3>1, <3>2, <3>3
    <2>4. CASE gate = "SWAP"
      <3> DEFINE L == [b \in Basis |-> psi[Exchanged(b, p, q)]]
      <3>1. K = L /\ \A g : TwoQubit(gate, g, p, q) = ApplySwap(g, p, q)
        BY <2>4 DEF CoupledKernel, TwoQubit
      <3>2. /\ \A g \in Paulis : Fixes(g, psi) => Fixes(ApplySwap(g, p, q), L)
            /\ L \in [Basis -> Complex] /\ \E b \in Basis : L[b] # Zero
        BY <1>1, SwapFixes
      <3> HIDE DEF L, K
      <3> QED BY <3>1, <3>2
    <2> QED BY <1>2, <2>1, <2>2, <2>3, <2>4
  <1>4. Coupled(psi, gate, p, q) = Rescaled(K)
    BY <1>2 DEF Coupled, CoupledKernel
  <1> HIDE DEF K
  <1>5. IsSymplectic(U)
    <2>1. \A i \in Indices : U[i] = TwoQubit(gate, T[i], p, q)
      OBVIOUS
    <2>2. U = [i \in Indices |-> U[i]]
      OBVIOUS
    <2> HIDE DEF U
    <2>3. \A i, j \in Indices : Keeps(T[i], T[j], U[i], U[j])
      BY <1>1, <2>1, TwoQubitKeeps
    <2> QED BY <1>1, <2>2, <2>3, GateIsSymplectic
  <1>6. Stabilizes(U, K)
    <2> SUFFICES ASSUME NEW i \in Stabilizers PROVE Fixes(U[i], K)
      BY DEF Stabilizes
    <2>1. i \in Indices /\ Fixes(T[i], psi)
      BY <1>1, IndicesOf DEF Stabilizes
    <2> QED BY <1>1, <1>3, <2>1
  <1> HIDE DEF U
  <1>7. Describes(U, K)
    BY <1>3, <1>5, <1>6 DEF Describes
  <1>8. Describes(U, Rescaled(K))
    BY <1>7, RescaledDescribed
  <1> QED BY <1>4, <1>8 DEF U

-----------------------------------------------------------------------------
(* Loops over the qubits *)

\* The states f a loop of n steps goes through from s0.
Trace(f, S, n, s0, step) ==
    /\ f \in [0 .. n -> S]
    /\ f[0] = s0
    /\ \A k \in 1 .. n : f[k] = step[k][f[k - 1]]

\* A loop of n steps from s0 has a trace.
LEMMA LoopExists ==
    ASSUME NEW S, NEW n \in Nat, NEW s0 \in S, NEW step \in [1 .. n -> [S -> S]]
    PROVE  \E f : Trace(f, S, n, s0, step)
  <1> DEFINE Good == {m \in 0 .. n : \E f \in [0 .. m -> S] : f[0] = s0 /\ \A k \in 1 .. m : f[k] = step[k][f[k - 1]]}
  <1>1. 0 \in Good
    <2> DEFINE f == [k \in 0 .. 0 |-> s0]
    <2>1. f \in [0 .. 0 -> S] /\ f[0] = s0 /\ 1 .. 0 = {} /\ 0 \in 0 .. n
      OBVIOUS
    <2> HIDE DEF f
    <2>2. \A k \in 1 .. 0 : f[k] = step[k][f[k - 1]]
      BY <2>1
    <2> QED BY <2>1, <2>2
  <1>2. ASSUME NEW m \in 1 .. n, m - 1 \in Good PROVE m \in Good
    <2>1. PICK f \in [0 .. m - 1 -> S] : f[0] = s0 /\ \A k \in 1 .. m - 1 : f[k] = step[k][f[k - 1]]
      BY <1>2
    <2> DEFINE h == [k \in 0 .. m |-> IF k = m THEN step[m][f[m - 1]] ELSE f[k]]
    <2>2. f[m - 1] \in S /\ step[m] \in [S -> S]
      BY <2>1
    <2>3. step[m][f[m - 1]] \in S
      BY <2>2
    <2>4. \A k \in 0 .. m : k # m => k \in 0 .. m - 1
      OBVIOUS
    <2>5. h \in [0 .. m -> S]
      BY <2>1, <2>3, <2>4
    <2>6. h[0] = s0
      BY <2>1
    <2>7. ASSUME NEW k \in 1 .. m PROVE h[k] = step[k][h[k - 1]]
      <3>1. k - 1 \in 0 .. m /\ k - 1 # m
        OBVIOUS
      <3>2. h[k - 1] = f[k - 1]
        BY <3>1
      <3>3. CASE k = m
        BY <3>2, <3>3
      <3>4. CASE k # m
        <4>1. k \in 1 .. m - 1
          BY <3>4
        <4> QED BY <2>1, <3>2, <3>4, <4>1
      <3> QED BY <3>3, <3>4
    <2> HIDE DEF h
    <2>8. m \in 0 .. n /\ \A k \in 1 .. m : h[k] = step[k][h[k - 1]]
      BY <2>7
    <2> QED BY <2>5, <2>6, <2>8
  <1> HIDE DEF Good
  <1>3. \A m \in 0 .. n : m \in Good
    BY <1>1, <1>2, CountUp
  <1> QED BY <1>3 DEF Good, Trace

-----------------------------------------------------------------------------
(* Measurement *)

\* The amplitudes left when q is found to be bit, up to their common factor.
Kept(psi, q, bit) == [b \in Basis |-> IF (q \in b) = bit THEN psi[b] ELSE Zero]

\* The row that stands for qubit q being bit.
BitRow(q, bit) == [x |-> {}, z |-> {q}, phase |-> IF bit THEN 2 ELSE 0]

\* Amplitudes kept are amplitudes.
LEMMA KeptType ==
    ASSUME NEW psi \in [Basis -> Complex], NEW q, NEW bit
    PROVE  Kept(psi, q, bit) \in [Basis -> Complex]
  BY TurnedZero, OneIs DEF Kept

\* The exponent of the row a measurement puts in.
LEMMA BitRowExponent ==
    ASSUME NEW q \in Qubits, NEW row \in Paulis, row.x = {}, row.z = {q}, NEW b \in Basis
    PROVE  Exponent(row, b) = row.phase + 2 * Bit(q \in b) /\ SymDiff(b, row.x) = b
  <1>1. row.x \cap row.z = {} /\ Cardinality({}) = 0
    BY FS_EmptySet
  <1>2. Cardinality(b \cap row.z) = Bit(q \in b)
    <2>1. q \in b => b \cap row.z = {q}
      OBVIOUS
    <2>2. q \notin b => b \cap row.z = {}
      OBVIOUS
    <2> QED BY <1>1, <2>1, <2>2, FS_Singleton DEF Bit
  <1>3. SymDiff(b, row.x) = b
    BY DEF SymDiff
  <1>4. row.phase \in 0 .. 3 /\ Bit(q \in b) \in Nat
    BY RowParts DEF Bit
  <1>5. Exponent(row, b) = row.phase + 0 + 2 * Bit(q \in b)
    BY <1>1, <1>2 DEF Exponent
  <1> QED BY <1>3, <1>4, <1>5

\* The row a measurement puts in fixes what the measurement keeps.
LEMMA BitRowFixes ==
    ASSUME NEW psi \in [Basis -> Complex], NEW q \in Qubits, NEW bit \in BOOLEAN
    PROVE  BitRow(q, bit) \in Paulis /\ Fixes(BitRow(q, bit), Kept(psi, q, bit))
  <1> DEFINE z == BitRow(q, bit)
             K == Kept(psi, q, bit)
  <1>1. z \in Paulis
    BY MeasuredRow, IdentityFixes DEF BitRow, Paulis
  <1>2. z.x = {} /\ z.z = {q} /\ z.phase = IF bit THEN 2 ELSE 0
    BY DEF BitRow
  <1> HIDE DEF z
  <1>3. ASSUME NEW b \in Basis PROVE K[SymDiff(b, z.x)] = Turned(K[b], Exponent(z, b))
    <2>1. Exponent(z, b) = z.phase + 2 * Bit(q \in b) /\ SymDiff(b, z.x) = b
      BY <1>1, <1>2, BitRowExponent
    <2>2. CASE (q \in b) = bit
      <3>1. Exponent(z, b) \in Int /\ (Exponent(z, b) - 0) % 4 = 0
        BY <1>2, <2>1, <2>2 DEF Bit
      <3>2. Turned(K[b], Exponent(z, b)) = Turned(K[b], 0)
        BY <3>1, TurnedSame
      <3> QED BY <2>1, <3>2, TurnedConstants
    <2>3. CASE (q \in b) # bit
      <3>1. K[b] = Zero
        BY <2>3 DEF Kept
      <3>2. Exponent(z, b) \in Int
        BY <1>1, ExponentType
      <3> QED BY <2>1, <3>1, <3>2, OneIs, TurnedZero
    <2> QED BY <2>2, <2>3
  <1> QED BY <1>1, <1>3 DEF Fixes, z

\* A row without an X part on q still fixes what measuring q leaves.
LEMMA CommutingFixes ==
    ASSUME NEW psi \in [Basis -> Complex], NEW q \in Qubits, NEW bit \in BOOLEAN,
           NEW g \in Paulis, q \notin g.x, Fixes(g, psi)
    PROVE  Fixes(g, Kept(psi, q, bit))
  <1> DEFINE K == Kept(psi, q, bit)
  <1> SUFFICES ASSUME NEW b \in Basis PROVE K[SymDiff(b, g.x)] = Turned(K[b], Exponent(g, b))
    BY DEF Fixes
  <1>1. SymDiff(b, g.x) \in Basis /\ Exponent(g, b) \in Int
    BY ExponentType
  <1>2. q \in SymDiff(b, g.x) <=> q \in b
    BY DEF SymDiff
  <1>3. CASE (q \in b) = bit
    <2>1. K[b] = psi[b] /\ K[SymDiff(b, g.x)] = psi[SymDiff(b, g.x)]
      BY <1>1, <1>2, <1>3 DEF Kept
    <2> QED BY <2>1 DEF Fixes
  <1>4. CASE (q \in b) # bit
    <2>1. K[b] = Zero /\ K[SymDiff(b, g.x)] = Zero
      BY <1>1, <1>2, <1>4 DEF Kept
    <2> QED BY <1>1, <2>1, OneIs, TurnedZero
  <1> QED BY <1>3, <1>4

\* When an outcome is random the tableau collapses to describe the amplitudes of either.
LEMMA CollapsedDescribed ==
    ASSUME NEW T, NEW psi, Describes(T, psi), NEW q \in Qubits, NEW bit \in BOOLEAN,
           NEW p \in Stabilizers, q \in T[p].x
    PROVE  Describes(Collapsed(T, p, q, bit), Kept(psi, q, bit))
  <1> DEFINE K == Kept(psi, q, bit)
             U == Collapsed(T, p, q, bit)
  <1>1. /\ IsSymplectic(T) /\ psi \in [Basis -> Complex] /\ Stabilizes(T, psi)
        /\ \A i \in Indices : T[i] \in Paulis
    BY DEF Describes, IsSymplectic
  <1>2. IsSymplectic(U)
    BY <1>1, CollapseIsSymplectic
  <1>3. K \in [Basis -> Complex]
    BY <1>1, KeptType
  <1>4. \E b \in Basis : K[b] # Zero
    <2>1. PICK b \in Basis : psi[b] # Zero
      BY DEF Describes
    <2> DEFINE c == SymDiff(b, T[p].x)
    <2>2. p \in Indices /\ T[p] \in Paulis /\ Fixes(T[p], psi)
      BY <1>1, IndicesOf DEF Stabilizes
    <2>3. c \in Basis /\ Exponent(T[p], b) \in Int
      BY <2>2, ExponentType
    <2>4. psi[c] = Turned(psi[b], Exponent(T[p], b))
      BY <2>2 DEF Fixes
    <2>5. psi[c] # Zero
      BY <1>1, <2>1, <2>3, <2>4, TurnedZero
    <2>6. q \in c <=> q \notin b
      BY DEF SymDiff
    <2>7. (q \in b) = bit \/ (q \in c) = bit
      BY <2>6
    <2> QED BY <2>1, <2>3, <2>5, <2>7 DEF Kept
  <1>5. Stabilizes(U, K)
    <2> SUFFICES ASSUME NEW i \in Stabilizers PROVE Fixes(U[i], K)
      BY DEF Stabilizes
    <2>1. /\ i \in Indices /\ i # p - N /\ T[i] \in Paulis /\ Fixes(T[i], psi)
          /\ T[p] \in Paulis /\ Fixes(T[p], psi)
      <3>1. i \in Indices /\ p \in Indices /\ i # p - N
        BY IndicesOf
      <3> QED BY <1>1, <3>1 DEF Stabilizes
    <2>2. CASE i = p
      <3>1. U[i] = BitRow(q, bit)
        BY <2>1, <2>2 DEF Collapsed, BitRow
      <3> QED BY <1>1, <3>1, BitRowFixes
    <2>3. CASE i # p /\ q \in T[i].x
      <3>1. U[i] = Product(T[i], T[p])
        BY <2>1, <2>3 DEF Collapsed
      <3>2. Product(T[i], T[p]) \in Paulis /\ Fixes(Product(T[i], T[p]), psi)
        BY <1>1, <2>1, ProductType, ProductFixes
      <3>3. q \notin Product(T[i], T[p]).x
        BY <2>3 DEF Product, SymDiff
      <3> QED BY <1>1, <3>1, <3>2, <3>3, CommutingFixes
    <2>4. CASE i # p /\ q \notin T[i].x
      <3>1. U[i] = T[i]
        BY <2>1, <2>4 DEF Collapsed
      <3> QED BY <1>1, <2>1, <2>4, <3>1, CommutingFixes
    <2> QED BY <2>2, <2>3, <2>4
  <1> QED BY <1>2, <1>3, <1>4, <1>5 DEF Describes

\* The products that the deterministic case of measure goes through.
LEMMA ScratchIs ==
    ASSUME NEW T \in [Indices -> Paulis], NEW q \in Qubits
    PROVE  \E f \in [0 .. N -> Paulis] :
               /\ f[0] = Identity
               /\ \A k \in 1 .. N : f[k] = IF q \in T[k - 1].x THEN Product(f[k - 1], T[N + k - 1]) ELSE f[k - 1]
               /\ Scratch(T, q) = f[N]
  <1> DEFINE Is(f) == f = [k \in 0 .. N |->
                              IF k = 0 THEN Identity
                              ELSE IF q \in T[k - 1].x THEN Product(f[k - 1], T[N + k - 1])
                              ELSE f[k - 1]]
             step == [k \in 1 .. N |-> [s \in Paulis |-> IF q \in T[k - 1].x THEN Product(s, T[N + k - 1]) ELSE s]]
  <1>1. N \in Nat /\ \A k \in 1 .. N : k - 1 \in Indices /\ N + k - 1 \in Indices
    BY IndicesOf
  <1>2. step \in [1 .. N -> [Paulis -> Paulis]]
    BY <1>1, ProductType
  <1>3. PICK f \in [0 .. N -> Paulis] : f[0] = Identity /\ \A k \in 1 .. N : f[k] = step[k][f[k - 1]]
    <2>1. Identity \in Paulis
      BY DEF Identity, Paulis
    <2> HIDE DEF step
    <2>2. \E f : Trace(f, Paulis, N, Identity, step)
      BY <1>1, <1>2, <2>1, LoopExists
    <2> QED BY <2>2 DEF Trace
  <1>4. \A k \in 1 .. N : f[k] = IF q \in T[k - 1].x THEN Product(f[k - 1], T[N + k - 1]) ELSE f[k - 1]
    <2> SUFFICES ASSUME NEW k \in 1 .. N
                 PROVE  f[k] = IF q \in T[k - 1].x THEN Product(f[k - 1], T[N + k - 1]) ELSE f[k - 1]
      OBVIOUS
    <2>1. k - 1 \in 0 .. N
      BY <1>1
    <2>2. f[k - 1] \in Paulis /\ f[k] = step[k][f[k - 1]]
      BY <1>3, <2>1
    <2> QED BY <2>2
  <1>5. Is(f)
    <2>1. \A k \in 0 .. N : k = 0 \/ k \in 1 .. N
      OBVIOUS
    <2> QED BY <1>3, <1>4, <2>1
  <1> DEFINE g == CHOOSE h : Is(h)
  <1>6. Is(g)
    <2> HIDE DEF Is
    <2> QED BY <1>5
  <1>7. Scratch(T, q) = g[N]
    BY DEF Scratch
  <1> HIDE DEF g
  <1> DEFINE Same == {k \in 0 .. N : g[k] = f[k]}
  <1>8. 0 \in Same
    BY <1>1, <1>3, <1>6
  <1>9. ASSUME NEW k \in 1 .. N, k - 1 \in Same PROVE k \in Same
    <2>1. k \in 0 .. N /\ k # 0
      OBVIOUS
    <2>2. g[k] = IF q \in T[k - 1].x THEN Product(g[k - 1], T[N + k - 1]) ELSE g[k - 1]
      BY <1>6, <2>1
    <2> QED BY <1>4, <1>9, <2>1, <2>2
  <1> HIDE DEF Same, Is
  <1>10. N \in Same
    <2>1. \A k \in 0 .. N : k \in Same
      BY <1>1, <1>8, <1>9, CountUp
    <2> QED BY <1>1, <2>1
  <1> QED BY <1>3, <1>4, <1>7, <1>10 DEF Same

\* If no stabilizer is the first with an X part on q, none has one.
LEMMA NoPivot ==
    ASSUME NEW T, NEW q, Pivots(T, q) = {}
    PROVE  \A p \in Stabilizers : q \notin T[p].x
  <1> SUFFICES ASSUME NEW p \in Stabilizers, q \in T[p].x PROVE FALSE
    OBVIOUS
  <1> DEFINE Has == {j \in Stabilizers : q \in T[j].x}
  <1>1. Has \subseteq Nat /\ p \in Has
    BY IndicesOf
  <1> HIDE DEF Has
  <1>2. PICK j \in Has : \A k \in Has : j <= k
    BY <1>1, LeastNatural
  <1>3. j \in Stabilizers /\ q \in T[j].x
    BY <1>2 DEF Has
  <1>4. ASSUME NEW k \in N .. j - 1 PROVE q \notin T[k].x
    <2>1. k \in Stabilizers /\ ~ (j <= k)
      BY <1>3, IndicesOf
    <2> QED BY <1>2, <2>1 DEF Has
  <1> QED BY <1>3, <1>4 DEF Pivots

\* The scratch row is the row of qubit q, of the sign of the only outcome there is.
LEMMA DeterminedKeeps ==
    ASSUME NEW T, NEW psi, Describes(T, psi), NEW q \in Qubits, \A p \in Stabilizers : q \notin T[p].x
    PROVE  /\ Determined(T, q) \in BOOLEAN
           /\ \A b \in Basis : psi[b] # Zero => (q \in b) = Determined(T, q)
           /\ Kept(psi, q, Determined(T, q)) = psi
  <1>1. /\ IsSymplectic(T) /\ psi \in [Basis -> Complex] /\ Stabilizes(T, psi) /\ T \in [Indices -> Paulis]
        /\ \A i, j \in Indices : Anticommute(T[i], T[j]) <=> i = j + N \/ j = i + N
    BY DEF Describes, IsSymplectic
  <1>2. PICK f \in [0 .. N -> Paulis] :
               /\ f[0] = Identity
               /\ \A k \in 1 .. N : f[k] = IF q \in T[k - 1].x THEN Product(f[k - 1], T[N + k - 1]) ELSE f[k - 1]
               /\ Scratch(T, q) = f[N]
    BY <1>1, ScratchIs
  <1>3. N \in Nat /\ N >= 1
    BY IndicesOf
  <1> DEFINE Good == {k \in 0 .. N : /\ Fixes(f[k], psi)
                                     /\ \A i \in Indices : Anticommute(f[k], T[i]) <=> i < k /\ q \in T[i].x}
  <1>4. 0 \in Good
    <2>1. \A i \in Indices : ~ (i < 0)
      BY IndicesOf
    <2> QED BY <1>1, <1>2, <1>3, <2>1, IdentityFixes, IdentityCommutes
  <1>5. ASSUME NEW k \in 1 .. N, k - 1 \in Good PROVE k \in Good
    <2>1. k - 1 \in Indices /\ N + k - 1 \in Indices /\ N + k - 1 \in Stabilizers /\ k \in 0 .. N
      BY IndicesOf
    <2>2. f[k - 1] \in Paulis /\ T[N + k - 1] \in Paulis /\ Fixes(T[N + k - 1], psi) /\ Fixes(f[k - 1], psi)
          /\ \A i \in Indices : Anticommute(f[k - 1], T[i]) <=> i < k - 1 /\ q \in T[i].x
      <3>1. k - 1 \in 0 .. N
        BY <1>3
      <3> QED BY <1>1, <1>2, <1>5, <2>1, <3>1 DEF Stabilizes
    <2>3. CASE q \in T[k - 1].x
      <3> DEFINE h == Product(f[k - 1], T[N + k - 1])
      <3>1. f[k] = h
        BY <1>2, <2>3
      <3>2. h \in Paulis /\ Fixes(h, psi)
        BY <1>1, <2>2, ProductType, ProductFixes
      <3>3. ASSUME NEW i \in Indices PROVE Anticommute(h, T[i]) <=> i < k /\ q \in T[i].x
        <4>1. T[i] \in Paulis
          BY <1>1
        <4>2. Anticommute(h, T[i]) <=> Xor(Anticommute(f[k - 1], T[i]), Anticommute(T[N + k - 1], T[i]))
          BY <2>2, <3>2, <4>1, ProductAnticommutes
        <4>3. Anticommute(T[N + k - 1], T[i]) <=> i = k - 1
          <5>1. Anticommute(T[N + k - 1], T[i]) <=> N + k - 1 = i + N \/ i = N + k - 1 + N
            BY <1>1, <2>1
          <5>2. (N + k - 1 = i + N \/ i = N + k - 1 + N) <=> i = k - 1
            BY IndicesOf
          <5> QED BY <5>1, <5>2
        <4>4. i \in Nat /\ k \in Nat
          BY IndicesOf
        <4>5. i < k <=> i < k - 1 \/ i = k - 1
          BY <4>4
        <4>6. ~ (i < k - 1 /\ i = k - 1)
          BY <4>4
        <4> HIDE DEF h
        <4> QED BY <2>2, <2>3, <4>2, <4>3, <4>5, <4>6 DEF Xor
      <3> QED BY <2>1, <3>1, <3>2, <3>3
    <2>4. CASE q \notin T[k - 1].x
      <3>1. f[k] = f[k - 1]
        BY <1>2, <2>4
      <3>2. ASSUME NEW i \in Indices PROVE (i < k /\ q \in T[i].x) <=> (i < k - 1 /\ q \in T[i].x)
        <4>1. i \in Nat /\ k \in Nat
          BY IndicesOf
        <4>2. i < k <=> i < k - 1 \/ i = k - 1
          BY <4>1
        <4> QED BY <2>4, <4>2
      <3> QED BY <2>1, <2>2, <3>1, <3>2
    <2> QED BY <2>3, <2>4
  <1>6. N \in Good
    <2> HIDE DEF Good
    <2>1. \A k \in 0 .. N : k \in Good
      BY <1>3, <1>4, <1>5, CountUp
    <2> QED BY <1>3, <2>1
  <1> DEFINE s == Scratch(T, q)
             z == BitRow(q, FALSE)
  <1>7. s \in Paulis /\ Fixes(s, psi) /\ \A i \in Indices : Anticommute(s, T[i]) <=> i < N /\ q \in T[i].x
    BY <1>2, <1>3, <1>6
  <1>8. z \in Paulis /\ z.x = {} /\ z.z = {q}
    BY <1>1, BitRowFixes DEF BitRow
  <1>9. \A i \in Indices : Anticommute(z, T[i]) <=> q \in T[i].x
    <2>1. z = [x |-> {}, z |-> {q}, phase |-> IF FALSE THEN 2 ELSE 0]
      BY DEF BitRow
    <2> HIDE DEF z
    <2> QED BY <1>1, <2>1, MeasuredRow
  <1>10. Facing(T, s) = Facing(T, z)
    <2>1. \A i \in Indices : q \in T[i].x => i < N
      BY IndicesOf
    <2> HIDE DEF s, z
    <2> QED BY <1>7, <1>9, <2>1 DEF Facing
  <1>11. s.x = {} /\ s.z = {q}
    <2> HIDE DEF s, z
    <2>1. Bits(s) = Bits(z)
      BY <1>1, <1>7, <1>8, <1>10, FacingDecides
    <2> QED BY <1>7, <1>8, <2>1, BitsEqual
  <1>12. ASSUME NEW b \in Basis, psi[b] # Zero PROVE (q \in b) = (s.phase = 2)
    <2> HIDE DEF s
    <2>1. Exponent(s, b) = s.phase + 2 * Bit(q \in b) /\ SymDiff(b, s.x) = b
      BY <1>7, <1>11, BitRowExponent
    <2>2. psi[b] = Turned(psi[b], Exponent(s, b)) /\ Exponent(s, b) \in Int /\ psi[b] \in Complex
      BY <1>1, <1>7, <2>1, ExponentType DEF Fixes
    <2>3. Exponent(s, b) % 4 = 0
      BY <1>12, <2>2, TurnedSelf
    <2>4. s.phase \in 0 .. 3
      BY <1>7, RowParts
    <2>5. CASE q \in b
      <3>1. (s.phase + 2) % 4 = 0
        BY <2>1, <2>3, <2>5 DEF Bit
      <3> QED BY <2>4, <2>5, <3>1
    <2>6. CASE q \notin b
      <3>1. (s.phase + 0) % 4 = 0
        BY <2>1, <2>3, <2>6 DEF Bit
      <3> QED BY <2>4, <2>6, <3>1
    <2> QED BY <2>5, <2>6
  <1>13. Determined(T, q) = (s.phase = 2)
    BY DEF Determined
  <1> HIDE DEF s
  <1>14. Kept(psi, q, Determined(T, q)) = psi
    <2> SUFFICES ASSUME NEW b \in Basis PROVE Kept(psi, q, Determined(T, q))[b] = psi[b]
      BY <1>1 DEF Kept
    <2> QED BY <1>12, <1>13 DEF Kept
  <1> QED BY <1>12, <1>13, <1>14

\* Whatever is read, the tableau left describes the amplitudes left.
LEMMA MeasuredDescribed ==
    ASSUME NEW T, NEW psi, Describes(T, psi), NEW q \in Qubits, NEW m \in Measurements(T, q)
    PROVE  m.bit \in BOOLEAN /\ Describes(m.tableau, Projected(psi, q, m.bit))
  <1>1. \A bit \in BOOLEAN : Projected(psi, q, bit) = Rescaled(Kept(psi, q, bit))
    BY DEF Projected, Kept
  <1>2. CASE Pivots(T, q) = {}
    <2>1. m.bit = Determined(T, q) /\ m.tableau = T
      BY <1>2 DEF Measurements
    <2>2. \A p \in Stabilizers : q \notin T[p].x
      BY <1>2, NoPivot
    <2>3. m.bit \in BOOLEAN /\ Kept(psi, q, m.bit) = psi
      BY <2>1, <2>2, DeterminedKeeps
    <2>4. Describes(T, Rescaled(psi))
      BY RescaledDescribed
    <2> QED BY <1>1, <2>1, <2>3, <2>4
  <1>3. CASE Pivots(T, q) # {}
    <2>1. PICK p \in Pivots(T, q) : m.bit \in BOOLEAN /\ m.tableau = Collapsed(T, p, q, m.bit)
      BY <1>3 DEF Measurements
    <2>2. p \in Stabilizers /\ q \in T[p].x
      BY DEF Pivots
    <2>3. Describes(m.tableau, Kept(psi, q, m.bit))
      BY <2>1, <2>2, CollapsedDescribed
    <2>4. Describes(m.tableau, Rescaled(Kept(psi, q, m.bit)))
      BY <2>3, RescaledDescribed
    <2> QED BY <1>1, <2>1, <2>4
  <1> QED BY <1>2, <1>3

-----------------------------------------------------------------------------
(* The tableau describes the amplitudes *)

\* The two simulators hold the same state.
Described == Describes(tableau, amplitudes)

\* Neither of the gates the simulators disagree on is applied.
GatesAgree == OneQubitGates \subseteq AgreedGates

\* Both simulators start with |0...0>.
LEMMA InitDescribed == Init => Described
  <1> SUFFICES ASSUME Init PROVE Described
    OBVIOUS
  <1>1. IsSymplectic(tableau)
    BY InitSymplectic, Restated
  <1>2. amplitudes = Ground
    BY DEF Init
  <1>3. Ground \in [Basis -> Complex] /\ {} \in Basis /\ Ground[{}] # Zero
    BY OneIs, TurnedZero DEF Ground, Basis
  <1>4. ASSUME NEW i \in Stabilizers PROVE Fixes(tableau[i], Ground)
    <2> DEFINE g == tableau[i]
    <2>1. i \in Indices /\ ~ (i < N) /\ i - N \in Qubits
      BY IndicesOf
    <2>2. g = [x |-> {}, z |-> {i - N}, phase |-> 0]
      BY <2>1 DEF Init
    <2>3. g \in Paulis /\ g.x = {} /\ g.z = {i - N} /\ g.phase = 0
      BY <1>1, <2>1, <2>2 DEF IsSymplectic
    <2> HIDE DEF g
    <2>4. ASSUME NEW b \in Basis
          PROVE  Ground[SymDiff(b, g.x)] = Turned(Ground[b], Exponent(g, b))
      <3>1. Exponent(g, b) = 0 + 2 * Bit(i - N \in b) /\ SymDiff(b, g.x) = b
        BY <2>1, <2>3, BitRowExponent
      <3>2. CASE b = {}
        <4>1. Exponent(g, b) = 0
          BY <3>1, <3>2 DEF Bit
        <4> QED BY <3>1, <4>1, TurnedConstants
      <3>3. CASE b # {}
        <4>1. Ground[b] = Zero
          BY <3>3 DEF Ground
        <4>2. Exponent(g, b) \in Int
          BY <2>3, ExponentType
        <4> QED BY <3>1, <4>1, <4>2, OneIs, TurnedZero
      <3> QED BY <3>2, <3>3
    <2> QED BY <2>4 DEF Fixes, g
  <1> QED BY <1>1, <1>2, <1>3, <1>4 DEF Described, Describes, Stabilizes

\* Every call keeps the tableau and the amplitudes together.
LEMMA StepDescribed ==
    ASSUME GatesAgree, Described, [Next]_vars
    PROVE  Described'
  <1>1. Describes(tableau, amplitudes)
    BY DEF Described
  <1>2. ASSUME NEW gate \in OneQubitGates, NEW q \in Qubits, ApplyOneQubit(gate, q)
        PROVE  Described'
    <2>1. gate \in AgreedGates
      BY DEF GatesAgree
    <2>2. Describes([i \in Indices |-> OneQubit(gate, tableau[i], q)], Rotated(amplitudes, gate, q))
      BY <1>1, <2>1, RotatedDescribed
    <2> QED BY <1>2, <2>2 DEF ApplyOneQubit, Described
  <1>3. ASSUME NEW gate \in TwoQubitGates, NEW a \in Qubits, NEW b \in Qubits, a # b, ApplyTwoQubit(gate, a, b)
        PROVE  Described'
    <2>1. Describes([i \in Indices |-> TwoQubit(gate, tableau[i], a, b)], Coupled(amplitudes, gate, a, b))
      BY <1>1, <1>3, CoupledDescribed
    <2> QED BY <1>3, <2>1 DEF ApplyTwoQubit, Described
  <1>4. ASSUME NEW q \in Qubits, Measure(q)
        PROVE  Described'
    <2>1. PICK m \in Measurements(tableau, q) : tableau' = m.tableau /\ amplitudes' = Projected(amplitudes, q, m.bit)
      BY <1>4 DEF Measure
    <2>2. Describes(m.tableau, Projected(amplitudes, q, m.bit))
      BY <1>1, MeasuredDescribed
    <2> QED BY <2>1, <2>2 DEF Described
  <1>5. ASSUME NEW q \in Qubits, Reset(q)
        PROVE  Described'
    <2>1. PICK m \in Measurements(tableau, q) :
            IF m.bit
            THEN /\ tableau' = [i \in Indices |-> ApplyX(m.tableau[i], q)]
                 /\ amplitudes' = Rotated(Projected(amplitudes, q, TRUE), "X", q)
            ELSE /\ tableau' = m.tableau
                 /\ amplitudes' = Projected(amplitudes, q, FALSE)
      BY <1>5 DEF Reset
    <2>2. m.bit \in BOOLEAN /\ Describes(m.tableau, Projected(amplitudes, q, m.bit))
      BY <1>1, MeasuredDescribed
    <2>3. CASE m.bit = TRUE
      <3> DEFINE P == Projected(amplitudes, q, TRUE)
      <3>1. Describes(m.tableau, P)
        BY <2>2, <2>3
      <3>2. "X" \in AgreedGates
        BY DEF AgreedGates
      <3> HIDE DEF P
      <3>3. Describes([i \in Indices |-> OneQubit("X", m.tableau[i], q)], Rotated(P, "X", q))
        BY <3>1, <3>2, RotatedDescribed
      <3>4. tableau' = [i \in Indices |-> OneQubit("X", m.tableau[i], q)] /\ amplitudes' = Rotated(P, "X", q)
        BY <2>1, <2>3 DEF OneQubit, P
      <3> QED BY <3>3, <3>4 DEF Described
    <2>4. CASE m.bit = FALSE
      BY <2>1, <2>2, <2>4 DEF Described
    <2> QED BY <2>2, <2>3, <2>4
  <1>6. ASSUME UNCHANGED vars PROVE Described'
    BY <1>1, <1>6 DEF vars, Described
  <1> QED BY <1>2, <1>3, <1>4, <1>5, <1>6 DEF Next

\* As long as callers apply no gate the simulators disagree on, the tableau and
\* the statevector hold the same state after any sequence of gates, measurements
\* and resets, for any number of qubits: each stabilizer, sign included, takes
\* the amplitudes to themselves (apply_clifford_gate, measure, reset and rowsum
\* against apply_standard_gate and the collapse of the statevector).
THEOREM TableauDescribesAmplitudes ==
    ASSUME GatesAgree
    PROVE  Spec => []Described
  <1>1. Init => Described
    BY InitDescribed
  <1>2. Described /\ [Next]_vars => Described'
    BY StepDescribed
  <1> QED BY <1>1, <1>2, PTL DEF Spec

-----------------------------------------------------------------------------
(* Sums over the basis states *)

\* A sum in another order, the order being turned round by doing it twice.
LEMMA SumReordered ==
    ASSUME NEW S, IsFiniteSet(S), NEW w, \A y \in S : w[y] \in Int,
           NEW m \in [S -> S], \A y \in S : m[m[y]] = y,
           NEW v, \A y \in S : v[y] = w[m[y]]
    PROVE  SumFunctionOnSet(v, S) = SumFunctionOnSet(w, S)
  <1> DEFINE Image(T) == {m[y] : y \in T}
             Bad == {T \in SUBSET S : SumFunctionOnSet(v, T) # SumFunctionOnSet(w, Image(T))}
  <1>1. Bad = {}
    <2> SUFFICES ASSUME Bad # {} PROVE FALSE
      OBVIOUS
    <2>1. Bad \in SUBSET SUBSET S
      OBVIOUS
    <2>2. PICK T \in Bad : \A U \in Bad : Cardinality(T) <= Cardinality(U)
      <3> HIDE DEF Bad
      <3> QED BY <2>1, LeastPart
    <2>3. T \in SUBSET S /\ IsFiniteSet(T) /\ SumFunctionOnSet(v, T) # SumFunctionOnSet(w, Image(T))
      BY <2>2, FS_Subset
    <2>4. T # {}
      <3>1. Image({}) = {}
        OBVIOUS
      <3> QED BY <2>3, <3>1, SumEmpty
    <2>5. PICK y \in T : TRUE
      BY <2>4
    <2> DEFINE R == T \ {y}
    <2>6. R \in SUBSET S /\ R \notin Bad
      <3>1. Cardinality(R) = Cardinality(T) - 1 /\ Cardinality(T) \in Nat
        BY <2>3, <2>5, FS_RemoveElement, FS_CardinalityType
      <3>2. ~ (Cardinality(T) <= Cardinality(R))
        BY <3>1
      <3> HIDE DEF Bad
      <3> QED BY <2>2, <2>3, <3>2
    <2>7. SumFunctionOnSet(v, R) = SumFunctionOnSet(w, Image(R))
      BY <2>6
    <2>8. Image(T) \in SUBSET S /\ IsFiniteSet(Image(T)) /\ m[y] \in Image(T)
      BY <2>3, <2>5, FS_Image, FS_Subset
    <2>9. Image(T) \ {m[y]} = Image(R)
      <3>1. \A z \in T : m[z] = m[y] => z = y
        BY <2>3, <2>5
      <3> QED BY <3>1
    <2>10. \A z \in T : v[z] \in Int
      BY <2>3
    <2>11. \A z \in Image(T) : w[z] \in Int
      BY <2>8
    <2>12. SumFunctionOnSet(v, T) = v[y] + SumFunctionOnSet(v, R)
      BY <2>3, <2>5, <2>10, SumTakesOut
    <2>13. SumFunctionOnSet(w, Image(T)) = w[m[y]] + SumFunctionOnSet(w, Image(T) \ {m[y]})
      <3> HIDE DEF Image
      <3> QED BY <2>8, <2>11, SumTakesOut
    <2>14. v[y] = w[m[y]]
      BY <2>3, <2>5
    <2> QED BY <2>3, <2>7, <2>9, <2>12, <2>13, <2>14
  <1>2. Image(S) = S
    OBVIOUS
  <1> QED BY <1>1, <1>2

\* The sum of sums.
LEMMA SumOfSums ==
    ASSUME NEW S, IsFiniteSet(S),
           NEW v, \A y \in S : v[y] \in Int, NEW w, \A y \in S : w[y] \in Int,
           NEW u, \A y \in S : u[y] = v[y] + w[y]
    PROVE  SumFunctionOnSet(u, S) = SumFunctionOnSet(v, S) + SumFunctionOnSet(w, S)
  <1> DEFINE Bad == {T \in SUBSET S : SumFunctionOnSet(u, T) # SumFunctionOnSet(v, T) + SumFunctionOnSet(w, T)}
  <1>1. Bad = {}
    <2> SUFFICES ASSUME Bad # {} PROVE FALSE
      OBVIOUS
    <2>1. Bad \in SUBSET SUBSET S
      OBVIOUS
    <2>2. PICK T \in Bad : \A U \in Bad : Cardinality(T) <= Cardinality(U)
      <3> HIDE DEF Bad
      <3> QED BY <2>1, LeastPart
    <2>3. T \in SUBSET S /\ IsFiniteSet(T) /\ SumFunctionOnSet(u, T) # SumFunctionOnSet(v, T) + SumFunctionOnSet(w, T)
      BY <2>2, FS_Subset
    <2>4. T # {}
      BY <2>3, SumEmpty
    <2>5. PICK y \in T : TRUE
      BY <2>4
    <2> DEFINE R == T \ {y}
    <2>6. R \in SUBSET S /\ R \notin Bad /\ IsFiniteSet(R)
      <3>1. Cardinality(R) = Cardinality(T) - 1 /\ Cardinality(T) \in Nat /\ IsFiniteSet(R)
        BY <2>3, <2>5, FS_RemoveElement, FS_CardinalityType
      <3>2. ~ (Cardinality(T) <= Cardinality(R))
        BY <3>1
      <3> HIDE DEF Bad
      <3> QED BY <2>2, <2>3, <3>1, <3>2
    <2>7. SumFunctionOnSet(u, R) = SumFunctionOnSet(v, R) + SumFunctionOnSet(w, R)
      BY <2>6
    <2>8. \A z \in T : u[z] \in Int /\ v[z] \in Int /\ w[z] \in Int
      BY <2>3
    <2>9. SumFunctionOnSet(u, T) = u[y] + SumFunctionOnSet(u, R)
      BY <2>3, <2>5, <2>8, SumTakesOut
    <2>10. SumFunctionOnSet(v, T) = v[y] + SumFunctionOnSet(v, R)
      BY <2>3, <2>5, <2>8, SumTakesOut
    <2>11. SumFunctionOnSet(w, T) = w[y] + SumFunctionOnSet(w, R)
      BY <2>3, <2>5, <2>8, SumTakesOut
    <2>12. SumFunctionOnSet(v, R) \in Int /\ SumFunctionOnSet(w, R) \in Int
      BY <2>6, SumIsInteger
    <2>13. v[y] \in Int /\ w[y] \in Int /\ u[y] = v[y] + w[y]
      BY <2>3, <2>5
    <2> HIDE DEF R, Bad
    <2> QED BY <2>3, <2>7, <2>9, <2>10, <2>11, <2>12, <2>13
  <1> QED BY <1>1

\* A sum of zeros.
LEMMA SumOfZeros ==
    ASSUME NEW S, IsFiniteSet(S), NEW w, \A y \in S : w[y] = 0
    PROVE  SumFunctionOnSet(w, S) = 0
  <1> DEFINE s == SumFunctionOnSet(w, S)
  <1>1. s \in Int
    BY SumIsInteger
  <1>2. s = s + s
    BY SumOfSums
  <1> HIDE DEF s
  <1>3. s = 0
    BY <1>1, <1>2
  <1> QED BY <1>3 DEF s

\* The sum of the negated.
LEMMA SumNegated ==
    ASSUME NEW S, IsFiniteSet(S), NEW v, \A y \in S : v[y] \in Int,
           NEW w, \A y \in S : w[y] = -v[y]
    PROVE  SumFunctionOnSet(w, S) = -SumFunctionOnSet(v, S)
  <1> DEFINE u == [y \in S |-> 0]
  <1>1. SumFunctionOnSet(u, S) = 0
    BY SumOfZeros
  <1>2. \A y \in S : w[y] \in Int /\ u[y] = v[y] + w[y]
    OBVIOUS
  <1> HIDE DEF u
  <1>3. SumFunctionOnSet(u, S) = SumFunctionOnSet(v, S) + SumFunctionOnSet(w, S)
    BY <1>2, SumOfSums
  <1>4. SumFunctionOnSet(v, S) \in Int /\ SumFunctionOnSet(w, S) \in Int
    BY <1>2, SumIsInteger
  <1> QED BY <1>1, <1>3, <1>4

\* The basis states are finitely many.
LEMMA BasisFinite == IsFiniteSet(Basis)
  BY QubitsFinite, FS_SUBSET DEF Basis

\* A sum over the basis states each moved by x.
LEMMA SumMoved ==
    ASSUME NEW w, \A b \in Basis : w[b] \in Int, NEW x \in Basis,
           NEW v, \A b \in Basis : v[b] = w[SymDiff(b, x)]
    PROVE  SumFunctionOnSet(v, Basis) = SumFunctionOnSet(w, Basis)
  <1> DEFINE m == [b \in Basis |-> SymDiff(b, x)]
  <1>1. m \in [Basis -> Basis]
    BY SymDiffInBasis
  <1>2. \A b \in Basis : m[b] = SymDiff(b, x)
    OBVIOUS
  <1> HIDE DEF m
  <1>3. \A b \in Basis : m[m[b]] = b /\ v[b] = w[m[b]]
    <2> SUFFICES ASSUME NEW b \in Basis PROVE m[m[b]] = b /\ v[b] = w[m[b]]
      OBVIOUS
    <2>1. SymDiff(SymDiff(b, x), x) = b
      BY SymDiffFacts
    <2> QED BY <1>1, <1>2, <2>1
  <1> QED BY <1>1, <1>3, BasisFinite, SumReordered

\* A sum whose terms change their sign when their basis states are moved by x.
LEMMA SumCancels ==
    ASSUME NEW w, \A b \in Basis : w[b] \in Int, NEW x \in Basis,
           \A b \in Basis : w[SymDiff(b, x)] = -w[b]
    PROVE  SumFunctionOnSet(w, Basis) = 0
  <1> DEFINE v == [b \in Basis |-> w[SymDiff(b, x)]]
  <1>1. \A b \in Basis : v[b] = w[SymDiff(b, x)] /\ v[b] = -w[b]
    OBVIOUS
  <1> HIDE DEF v
  <1>2. SumFunctionOnSet(v, Basis) = SumFunctionOnSet(w, Basis)
    BY <1>1, SumMoved
  <1>3. SumFunctionOnSet(v, Basis) = -SumFunctionOnSet(w, Basis)
    BY <1>1, BasisFinite, SumNegated
  <1>4. SumFunctionOnSet(w, Basis) \in Int
    BY BasisFinite, SumIsInteger
  <1> QED BY <1>2, <1>3, <1>4

-----------------------------------------------------------------------------
(* Weights *)

\* A power of i times an amplitude weighs as much.
LEMMA NormTurned ==
    ASSUME NEW a \in Complex, NEW k \in Int
    PROVE  SquaredNorm(a) \in Int /\ SquaredNorm(Turned(a, k)) = SquaredNorm(a) /\ SquaredNorm(Zero) = 0
  <1>1. PICK p \in Int, r \in Int : a = <<p, r>>
    BY ComplexParts
  <1>2. a[1] = p /\ a[2] = r
    BY <1>1
  <1>3. /\ SquaredNorm(a) = p * p + r * r
        /\ SquaredNorm(<<-a[2], a[1]>>) = (-r) * (-r) + p * p
        /\ SquaredNorm(<<-a[1], -a[2]>>) = (-p) * (-p) + (-r) * (-r)
        /\ SquaredNorm(<<a[2], -a[1]>>) = r * r + (-p) * (-p)
        /\ SquaredNorm(Zero) = 0 * 0 + 0 * 0
    BY <1>2 DEF SquaredNorm, Zero
  <1>4. p * p \in Int /\ r * r \in Int /\ (-r) * (-r) = r * r /\ (-p) * (-p) = p * p
    OBVIOUS
  <1> DEFINE pp == p * p
             rr == r * r
  <1>5. pp \in Int /\ rr \in Int
    BY <1>4
  <1>6. /\ SquaredNorm(a) = pp + rr
        /\ SquaredNorm(<<-a[2], a[1]>>) = rr + pp
        /\ SquaredNorm(<<-a[1], -a[2]>>) = pp + rr
        /\ SquaredNorm(<<a[2], -a[1]>>) = rr + pp
    BY <1>3, <1>4
  <1> HIDE DEF pp, rr
  <1>7. /\ SquaredNorm(a) \in Int
        /\ SquaredNorm(<<-a[2], a[1]>>) = SquaredNorm(a)
        /\ SquaredNorm(<<-a[1], -a[2]>>) = SquaredNorm(a)
        /\ SquaredNorm(<<a[2], -a[1]>>) = SquaredNorm(a)
    BY <1>5, <1>6
  <1>8. SquaredNorm(Turned(a, k)) = SquaredNorm(a)
    BY <1>7, Turns
  <1>9. SquaredNorm(Zero) = 0
    BY <1>3
  <1> QED BY <1>7, <1>8, <1>9

\* A stabilizer that anticommutes with the measurement of q leaves either bit
\* with half the weight.
LEMMA KeptIsHalf ==
    ASSUME NEW T, NEW psi, Describes(T, psi), NEW q \in Qubits, NEW bit \in BOOLEAN,
           NEW p \in Stabilizers, q \in T[p].x
    PROVE  /\ TotalWeight(Kept(psi, q, bit)) \in Int
           /\ TotalWeight(psi) = 2 * TotalWeight(Kept(psi, q, bit))
  <1> DEFINE x == T[p].x
             K == Kept(psi, q, bit)
             u == [b \in Basis |-> Weight(psi, b)]
             w == [b \in Basis |-> Weight(K, b)]
             v == [b \in Basis |-> w[SymDiff(b, x)]]
  <1>1. psi \in [Basis -> Complex] /\ T[p] \in Paulis /\ Fixes(T[p], psi) /\ x \in Basis
    BY IndicesOf DEF Describes, Stabilizes, IsSymplectic, Paulis, Basis
  <1>2. \A b \in Basis : SymDiff(b, x) \in Basis
    BY <1>1, SymDiffInBasis
  <1>3. K \in [Basis -> Complex]
    BY <1>1, KeptType
  <1>4. ASSUME NEW b \in Basis
        PROVE  /\ u[b] \in Int /\ w[b] \in Int
               /\ u[SymDiff(b, x)] = u[b]
               /\ w[b] = IF (q \in b) = bit THEN u[b] ELSE 0
    <2>1. psi[b] \in Complex /\ K[b] \in Complex
      BY <1>1, <1>3
    <2>2. K[b] = IF (q \in b) = bit THEN psi[b] ELSE Zero
      BY DEF Kept
    <2>3. u[b] = SquaredNorm(psi[b]) /\ w[b] = SquaredNorm(K[b])
      BY DEF Weight
    <2>4. u[SymDiff(b, x)] = SquaredNorm(psi[SymDiff(b, x)])
      BY <1>2 DEF Weight
    <2>5. psi[SymDiff(b, x)] = Turned(psi[b], Exponent(T[p], b)) /\ Exponent(T[p], b) \in Int
      BY <1>1, ExponentType DEF Fixes
    <2> HIDE DEF u, w, K, x
    <2>6. SquaredNorm(psi[b]) \in Int /\ SquaredNorm(K[b]) \in Int /\ SquaredNorm(Zero) = 0
      BY <2>1, NormTurned
    <2>7. SquaredNorm(psi[SymDiff(b, x)]) = SquaredNorm(psi[b])
      BY <2>1, <2>5, NormTurned
    <2> QED BY <2>2, <2>3, <2>4, <2>6, <2>7
  <1>5. \A b \in Basis : v[b] = w[SymDiff(b, x)]
    OBVIOUS
  <1>6. TotalWeight(psi) = SumFunctionOnSet(u, Basis) /\ TotalWeight(K) = SumFunctionOnSet(w, Basis)
    BY DEF TotalWeight, SumFunction
  <1>7. q \in x
    OBVIOUS
  <1> HIDE DEF u, v, w, K, x
  <1>8. \A b \in Basis : v[b] \in Int /\ u[b] = v[b] + w[b]
    <2> SUFFICES ASSUME NEW b \in Basis PROVE v[b] \in Int /\ u[b] = v[b] + w[b]
      OBVIOUS
    <2> DEFINE c == SymDiff(b, x)
    <2>1. c \in Basis /\ (q \in c) = ~ (q \in b)
      BY <1>2, <1>7 DEF SymDiff
    <2>2. v[b] = w[c] /\ u[c] = u[b] /\ u[b] \in Int
      BY <1>4, <1>5
    <2> HIDE DEF c
    <2>3. w[c] = (IF (q \in c) = bit THEN u[c] ELSE 0) /\ w[b] = (IF (q \in b) = bit THEN u[b] ELSE 0)
      BY <1>4, <2>1
    <2>4. CASE (q \in b) = bit
      <3>1. ~ ((q \in c) = bit)
        BY <2>1, <2>4
      <3> QED BY <2>2, <2>3, <2>4, <3>1
    <2>5. CASE ~ ((q \in b) = bit)
      <3>1. (q \in c) = bit
        BY <2>1, <2>5
      <3> QED BY <2>2, <2>3, <2>5, <3>1
    <2> QED BY <2>4, <2>5
  <1>9. SumFunctionOnSet(v, Basis) = SumFunctionOnSet(w, Basis)
    BY <1>1, <1>4, <1>5, SumMoved
  <1>10. SumFunctionOnSet(u, Basis) = SumFunctionOnSet(v, Basis) + SumFunctionOnSet(w, Basis)
    BY <1>4, <1>8, BasisFinite, SumOfSums
  <1>11. SumFunctionOnSet(w, Basis) \in Int
    BY <1>4, BasisFinite, SumIsInteger
  <1>12. TotalWeight(K) \in Int /\ TotalWeight(psi) = TotalWeight(K) + TotalWeight(K)
    BY <1>6, <1>9, <1>10, <1>11
  <1> DEFINE t == TotalWeight(K)
  <1>13. t \in Int /\ TotalWeight(psi) = t + t
    BY <1>12
  <1> HIDE DEF t
  <1>14. TotalWeight(psi) = 2 * t
    BY <1>13
  <1> QED BY <1>13, <1>14 DEF t, K

\* Amplitudes of one basis state only.
LEMMA WeightOfOne ==
    ASSUME NEW psi \in [Basis -> Complex], NEW b \in Basis, \A c \in Basis : c # b => psi[c] = Zero
    PROVE  TotalWeight(psi) = Weight(psi, b)
  <1> DEFINE w == [c \in Basis |-> Weight(psi, c)]
  <1>1. TotalWeight(psi) = SumFunctionOnSet(w, Basis)
    BY DEF TotalWeight, SumFunction
  <1>2. \A c \in Basis : w[c] \in Int /\ (c # b => w[c] = 0)
    BY NormTurned DEF Weight
  <1>3. w[b] = Weight(psi, b)
    OBVIOUS
  <1> HIDE DEF w
  <1>4. SumFunctionOnSet(w, Basis) = w[b] + SumFunctionOnSet(w, Basis \ {b})
    BY <1>2, BasisFinite, SumTakesOut
  <1>5. SumFunctionOnSet(w, Basis \ {b}) = 0
    <2>1. IsFiniteSet(Basis \ {b})
      BY BasisFinite, FS_Subset
    <2>2. \A c \in Basis \ {b} : w[c] = 0
      BY <1>2
    <2> QED BY <2>1, <2>2, SumOfZeros
  <1>6. w[b] \in Int
    BY <1>2
  <1> DEFINE s == SumFunctionOnSet(w, Basis \ {b})
  <1>7. SumFunctionOnSet(w, Basis) = w[b] + s /\ s = 0
    BY <1>4, <1>5
  <1> HIDE DEF s
  <1> QED BY <1>1, <1>3, <1>6, <1>7

-----------------------------------------------------------------------------
(* probability_of *)

\* The copies of the state that probability_of works on.
Copies == [tableau : [Indices -> Paulis], odds : Nat, possible : BOOLEAN]

\* A forced measurement leaves such a copy.
LEMMA ForcedType ==
    ASSUME NEW state \in Copies, NEW q \in Qubits, NEW bit \in BOOLEAN
    PROVE  Forced(state, q, bit) \in Copies
  <1> DEFINE T == state.tableau
  <1>1. T \in [Indices -> Paulis] /\ state.odds \in Nat /\ state.possible \in BOOLEAN
    BY DEF Copies
  <1>2. CASE ~ state.possible
    BY <1>2 DEF Forced
  <1>3. CASE state.possible /\ Pivots(T, q) = {}
    <2>1. Forced(state, q, bit) = [state EXCEPT !.possible = (Determined(T, q) = bit)]
      BY <1>3 DEF Forced
    <2>2. (Determined(T, q) = bit) \in BOOLEAN
      OBVIOUS
    <2> QED BY <2>1, <2>2 DEF Copies
  <1>4. CASE state.possible /\ Pivots(T, q) # {}
    <2> DEFINE p == CHOOSE p \in Pivots(T, q) : TRUE
    <2>1. p \in Stabilizers
      BY <1>4 DEF Pivots
    <2>2. Forced(state, q, bit) = [tableau |-> Collapsed(T, p, q, bit), odds |-> 2 * state.odds, possible |-> TRUE]
      BY <1>4 DEF Forced
    <2> HIDE DEF p
    <2>3. \A i \in Indices : T[i] \in Paulis /\ T[p] \in Paulis
      BY <1>1, <2>1, IndicesOf
    <2>4. BitRow(q, bit) \in Paulis
      BY DEF BitRow, Paulis
    <2>5. \A i \in Indices : Product(T[i], T[p]) \in Paulis
      BY <2>3, ProductType
    <2>6. Collapsed(T, p, q, bit) \in [Indices -> Paulis]
      BY <2>3, <2>4, <2>5 DEF Collapsed, BitRow
    <2>7. 2 * state.odds \in Nat
      BY <1>1
    <2> QED BY <2>2, <2>6, <2>7 DEF Copies
  <1> QED BY <1>2, <1>3, <1>4

\* The copies probability_of goes through for the outcome b.
LEMMA ForcedIs ==
    ASSUME NEW T \in [Indices -> Paulis], NEW b \in Basis
    PROVE  \E f \in [0 .. N -> Copies] :
               /\ f[0] = [tableau |-> T, odds |-> 1, possible |-> TRUE]
               /\ \A k \in 1 .. N : f[k] = Forced(f[k - 1], k - 1, k - 1 \in b)
               /\ ProbabilityOf(T, b) = f[N]
  <1> DEFINE s0 == [tableau |-> T, odds |-> 1, possible |-> TRUE]
             Is(f) == f = [k \in 0 .. N |-> IF k = 0 THEN s0 ELSE Forced(f[k - 1], k - 1, k - 1 \in b)]
             step == [k \in 1 .. N |-> [s \in Copies |-> Forced(s, k - 1, k - 1 \in b)]]
  <1>1. N \in Nat /\ \A k \in 1 .. N : k - 1 \in Qubits
    BY IndicesOf
  <1>2. step \in [1 .. N -> [Copies -> Copies]]
    <2>1. ASSUME NEW k \in 1 .. N, NEW s \in Copies PROVE Forced(s, k - 1, k - 1 \in b) \in Copies
      <3> DEFINE bit == k - 1 \in b
      <3>1. bit \in BOOLEAN /\ k - 1 \in Qubits
        BY <1>1
      <3> HIDE DEF bit
      <3>2. Forced(s, k - 1, bit) \in Copies
        BY <3>1, ForcedType
      <3> QED BY <3>2 DEF bit
    <2> QED BY <2>1
  <1>3. PICK f \in [0 .. N -> Copies] : f[0] = s0 /\ \A k \in 1 .. N : f[k] = step[k][f[k - 1]]
    <2>1. s0 \in Copies
      BY DEF Copies
    <2> HIDE DEF step, s0
    <2>2. \E f : Trace(f, Copies, N, s0, step)
      BY <1>1, <1>2, <2>1, LoopExists
    <2> QED BY <2>2 DEF Trace
  <1>4. \A k \in 1 .. N : f[k] = Forced(f[k - 1], k - 1, k - 1 \in b)
    <2> SUFFICES ASSUME NEW k \in 1 .. N PROVE f[k] = Forced(f[k - 1], k - 1, k - 1 \in b)
      OBVIOUS
    <2>1. k - 1 \in 0 .. N
      BY <1>1
    <2>2. f[k - 1] \in Copies /\ f[k] = step[k][f[k - 1]]
      BY <1>3, <2>1
    <2> QED BY <2>2
  <1>5. Is(f)
    <2>1. \A k \in 0 .. N : k = 0 \/ k \in 1 .. N
      OBVIOUS
    <2> QED BY <1>3, <1>4, <2>1
  <1> DEFINE g == CHOOSE h : Is(h)
  <1>6. Is(g)
    <2> HIDE DEF Is
    <2> QED BY <1>5
  <1>7. ProbabilityOf(T, b) = g[N]
    BY DEF ProbabilityOf
  <1> HIDE DEF g
  <1> DEFINE Same == {k \in 0 .. N : g[k] = f[k]}
  <1>8. 0 \in Same
    BY <1>1, <1>3, <1>6
  <1>9. ASSUME NEW k \in 1 .. N, k - 1 \in Same PROVE k \in Same
    <2>1. k \in 0 .. N /\ k # 0
      OBVIOUS
    <2>2. g[k] = Forced(g[k - 1], k - 1, k - 1 \in b)
      BY <1>6, <2>1
    <2> QED BY <1>4, <1>9, <2>1, <2>2
  <1> HIDE DEF Same, Is
  <1>10. N \in Same
    <2>1. \A k \in 0 .. N : k \in Same
      BY <1>1, <1>8, <1>9, CountUp
    <2> QED BY <1>1, <2>1
  <1> QED BY <1>3, <1>4, <1>7, <1>10 DEF Same

\* What phi is to psi once the qubits below k are forced to the bits of b: the
\* amplitudes that agree with b there, and one in odds of their weight.
Forces(psi, b, k, odds, phi) ==
    /\ phi[b] = psi[b]
    /\ \A c \in Basis : phi[c] # Zero => \A j \in 0 .. k - 1 : (j \in c) = (j \in b)
    /\ TotalWeight(phi) \in Int
    /\ odds * TotalWeight(phi) = TotalWeight(psi)

\* What a copy says of psi once the qubits below k are forced.
Forcible(psi, b, k, state) ==
    IF state.possible
    THEN \E phi : Describes(state.tableau, phi) /\ Forces(psi, b, k, state.odds, phi)
    ELSE psi[b] = Zero

\* One more qubit forced.
LEMMA ForcedAgrees ==
    ASSUME NEW psi \in [Basis -> Complex], NEW b \in Basis, NEW q \in Qubits,
           NEW state \in Copies, Forcible(psi, b, q, state)
    PROVE  Forcible(psi, b, q + 1, Forced(state, q, q \in b))
  <1> DEFINE T == state.tableau
             next == Forced(state, q, q \in b)
  <1>1. CASE ~ state.possible
    BY <1>1 DEF Forced, Forcible
  <1>2. ASSUME state.possible PROVE Forcible(psi, b, q + 1, next)
    <2>1. PICK phi : Describes(T, phi) /\ Forces(psi, b, q, state.odds, phi)
      BY <1>2 DEF Forcible
    <2>2. q \in Nat /\ \A j \in 0 .. (q + 1) - 1 : j \in 0 .. q - 1 \/ j = q
      BY IndicesOf
    <2>3. state.odds \in Nat /\ T \in [Indices -> Paulis]
      BY DEF Copies
    <2>4. CASE Pivots(T, q) = {}
      <3>1. next = [state EXCEPT !.possible = (Determined(T, q) = (q \in b))]
        BY <1>2, <2>4 DEF Forced
      <3>2. next.tableau = T /\ next.odds = state.odds /\ next.possible = (Determined(T, q) = (q \in b))
        BY <3>1 DEF Copies
      <3>3. \A p \in Stabilizers : q \notin T[p].x
        BY <2>4, NoPivot
      <3>4. \A c \in Basis : phi[c] # Zero => (q \in c) = Determined(T, q)
        BY <2>1, <3>3, DeterminedKeeps
      <3>5. CASE Determined(T, q) = (q \in b)
        <4>1. \A c \in Basis : phi[c] # Zero => (q \in c) = (q \in b)
          BY <3>4, <3>5
        <4>2. Forces(psi, b, q + 1, state.odds, phi)
          BY <2>1, <2>2, <4>1 DEF Forces
        <4>3. next.possible
          BY <3>2, <3>5
        <4> HIDE DEF next
        <4> QED BY <2>1, <3>2, <4>2, <4>3 DEF Forcible
      <3>6. CASE ~ (Determined(T, q) = (q \in b))
        <4>1. phi[b] = Zero
          BY <3>4, <3>6
        <4>2. psi[b] = Zero
          BY <2>1, <4>1 DEF Forces
        <4>3. ~ next.possible
          BY <3>2, <3>6
        <4> HIDE DEF next
        <4> QED BY <4>2, <4>3 DEF Forcible
      <3> QED BY <3>5, <3>6
    <2>5. CASE Pivots(T, q) # {}
      <3> DEFINE p == CHOOSE p \in Pivots(T, q) : TRUE
                 bit == q \in b
      <3>1. p \in Stabilizers /\ q \in T[p].x
        BY <2>5 DEF Pivots
      <3>2. next = [tableau |-> Collapsed(T, p, q, bit), odds |-> 2 * state.odds, possible |-> TRUE]
        BY <1>2, <2>5 DEF Forced
      <3>3. bit \in BOOLEAN /\ bit = (q \in b)
        OBVIOUS
      <3> PICK K : K = Kept(phi, q, bit)
        OBVIOUS
      <3>4. \A c \in Basis : K[c] = IF (q \in c) = bit THEN phi[c] ELSE Zero
        BY DEF Kept
      <3> HIDE DEF p, bit
      <3>5. Describes(Collapsed(T, p, q, bit), K)
        BY <2>1, <3>1, <3>3, CollapsedDescribed
      <3>6. TotalWeight(K) \in Int /\ TotalWeight(phi) = 2 * TotalWeight(K)
        BY <2>1, <3>1, <3>3, KeptIsHalf
      <3>7. K[b] = psi[b]
        BY <2>1, <3>3, <3>4 DEF Forces
      <3>8. ASSUME NEW c \in Basis, K[c] # Zero, NEW j \in 0 .. (q + 1) - 1 PROVE (j \in c) = (j \in b)
        <4>1. (q \in c) = bit /\ phi[c] # Zero
          BY <3>4, <3>8
        <4> QED BY <2>1, <2>2, <3>3, <4>1 DEF Forces
      <3>9. (2 * state.odds) * TotalWeight(K) = TotalWeight(psi)
        <4> DEFINE t == TotalWeight(K)
                   o == state.odds
        <4>1. t \in Int /\ o \in Int /\ o * (2 * t) = TotalWeight(psi)
          BY <2>1, <2>3, <3>6 DEF Forces
        <4> HIDE DEF t, o
        <4>2. (2 * o) * t = o * (2 * t)
          BY <4>1
        <4>3. (2 * o) * t = TotalWeight(psi)
          BY <4>1, <4>2
        <4> QED BY <4>3 DEF t, o
      <3>10. Forces(psi, b, q + 1, 2 * state.odds, K)
        <4> DEFINE o == 2 * state.odds
        <4>1. o * TotalWeight(K) = TotalWeight(psi)
          BY <3>9
        <4> HIDE DEF o
        <4>2. Forces(psi, b, q + 1, o, K)
          BY <3>6, <3>7, <3>8, <4>1 DEF Forces
        <4> QED BY <4>2 DEF o
      <3>11. next.possible /\ next.tableau = Collapsed(T, p, q, bit) /\ next.odds = 2 * state.odds
        BY <3>2
      <3> HIDE DEF next
      <3> QED BY <3>5, <3>10, <3>11 DEF Forcible
    <2> QED BY <2>4, <2>5
  <1> QED BY <1>1, <1>2

\* probability_of tells the probability of every outcome.
LEMMA ProbabilityIsExact ==
    ASSUME NEW T, NEW psi, Describes(T, psi), NEW b \in Basis
    PROVE  LET answer == ProbabilityOf(T, b)
           IN  IF answer.possible THEN answer.odds * Weight(psi, b) = TotalWeight(psi)
               ELSE Weight(psi, b) = 0
  <1>1. T \in [Indices -> Paulis] /\ psi \in [Basis -> Complex] /\ N \in Nat
    BY IndicesOf DEF Describes, IsSymplectic
  <1>2. PICK f \in [0 .. N -> Copies] :
            /\ f[0] = [tableau |-> T, odds |-> 1, possible |-> TRUE]
            /\ \A k \in 1 .. N : f[k] = Forced(f[k - 1], k - 1, k - 1 \in b)
            /\ ProbabilityOf(T, b) = f[N]
    BY <1>1, ForcedIs
  <1> DEFINE Good == {k \in 0 .. N : Forcible(psi, b, k, f[k])}
  <1>3. 0 \in Good
    <2>1. TotalWeight(psi) \in Int
      <3> DEFINE w == [c \in Basis |-> Weight(psi, c)]
      <3>1. \A c \in Basis : w[c] \in Int
        BY <1>1, NormTurned DEF Weight
      <3>2. TotalWeight(psi) = SumFunctionOnSet(w, Basis)
        BY DEF TotalWeight, SumFunction
      <3> HIDE DEF w
      <3> QED BY <3>1, <3>2, BasisFinite, SumIsInteger
    <2> DEFINE t == TotalWeight(psi)
    <2>2. t \in Int
      BY <2>1
    <2> HIDE DEF t
    <2>3. 1 * t = t
      BY <2>2
    <2>4. Forces(psi, b, 0, 1, psi)
      <3>1. \A j : j \notin 0 .. 0 - 1
        OBVIOUS
      <3> QED BY <2>2, <2>3, <3>1 DEF Forces, t
    <2>5. Forcible(psi, b, 0, f[0])
      BY <1>2, <2>4 DEF Forcible
    <2> QED BY <1>1, <2>5
  <1>4. ASSUME NEW k \in 1 .. N, k - 1 \in Good PROVE k \in Good
    <2>1. k - 1 \in Qubits /\ k - 1 \in 0 .. N /\ k \in 0 .. N /\ k - 1 + 1 = k
      BY <1>1, IndicesOf
    <2>2. f[k - 1] \in Copies /\ Forcible(psi, b, k - 1, f[k - 1]) /\ f[k] = Forced(f[k - 1], k - 1, k - 1 \in b)
      BY <1>2, <1>4, <2>1
    <2>3. Forcible(psi, b, k - 1 + 1, f[k])
      BY <1>1, <2>1, <2>2, ForcedAgrees
    <2> QED BY <2>1, <2>3
  <1> HIDE DEF Good
  <1>5. N \in Good
    <2>1. \A k \in 0 .. N : k \in Good
      BY <1>1, <1>3, <1>4, CountUp
    <2> QED BY <1>1, <2>1
  <1> DEFINE answer == ProbabilityOf(T, b)
  <1>6. Forcible(psi, b, N, answer)
    BY <1>2, <1>5 DEF Good
  <1> HIDE DEF answer
  <1>7. CASE ~ answer.possible
    <2>1. Weight(psi, b) = 0
      BY <1>6, <1>7, NormTurned, OneIs DEF Forcible, Weight
    <2> QED BY <1>7, <2>1 DEF answer
  <1>8. CASE answer.possible
    <2>1. PICK phi : Describes(answer.tableau, phi) /\ Forces(psi, b, N, answer.odds, phi)
      BY <1>6, <1>8 DEF Forcible
    <2>2. ASSUME NEW c \in Basis, c # b PROVE phi[c] = Zero
      <3>1. PICK j \in Qubits : (j \in c) # (j \in b)
        BY <2>2 DEF Basis
      <3>2. j \in 0 .. N - 1
        BY <3>1 DEF Qubits
      <3> QED BY <2>1, <3>1, <3>2 DEF Forces
    <2>3. phi \in [Basis -> Complex]
      BY <2>1 DEF Describes
    <2>4. TotalWeight(phi) = Weight(phi, b)
      BY <2>2, <2>3, WeightOfOne
    <2>5. Weight(phi, b) = Weight(psi, b)
      BY <2>1 DEF Forces, Weight
    <2>6. answer.odds * Weight(psi, b) = TotalWeight(psi)
      BY <2>1, <2>4, <2>5 DEF Forces
    <2> QED BY <1>8, <2>6 DEF answer
  <1> QED BY <1>7, <1>8

-----------------------------------------------------------------------------
(* pauli_expectation: one column *)

\* The generators and the query as the elimination rewrites them.
Works == [rows : [Qubits -> Paulis], query : Paulis, pivot : 0 .. N]

\* The row that stands at r once rows p and q are exchanged.
From(r, p, q) == IF r = q THEN p ELSE IF r = p THEN q ELSE r

\* Column cleared with row p, in every other row and in the query.
Cleared(work, p, column) ==
    LET row == work.rows[p]
        old(r) == work.rows[From(r, p, work.pivot)]
    IN  [rows |-> [r \in Qubits |->
                      IF r # work.pivot /\ HasBit(old(r), column) THEN Product(old(r), row) ELSE old(r)],
         query |-> IF HasBit(work.query, column) THEN Product(work.query, row) ELSE work.query,
         pivot |-> work.pivot + 1]

\* The parts of a state of the elimination.
LEMMA WorkParts ==
    ASSUME NEW work \in Works
    PROVE  /\ work.rows \in [Qubits -> Paulis] /\ work.query \in Paulis /\ work.pivot \in Nat
           /\ work.pivot <= N /\ \A r \in work.pivot .. N - 1 : r \in Qubits /\ work.pivot \in Qubits
           /\ \A r \in Qubits : work.rows[r] \in Paulis
  BY IndicesOf DEF Works

\* A column that no row left has is skipped, any other is cleared with one that has it.
LEMMA EliminatedIs ==
    ASSUME NEW work \in Works, NEW column
    PROVE  \/ /\ Eliminated(work, column) = work
              /\ \A r \in work.pivot .. N - 1 : ~ HasBit(work.rows[r], column)
           \/ \E p \in work.pivot .. N - 1 :
                 HasBit(work.rows[p], column) /\ Eliminated(work, column) = Cleared(work, p, column)
  <1> DEFINE found == {r \in work.pivot .. N - 1 : HasBit(work.rows[r], column)}
             p == Min(found)
             row == work.rows[p]
             rows == [work.rows EXCEPT ![p] = work.rows[work.pivot], ![work.pivot] = row]
  <1>1. CASE found = {}
    BY <1>1 DEF Eliminated
  <1>2. CASE found # {}
    <2>1. found \subseteq Nat
      BY WorkParts
    <2>2. p \in found
      <3> HIDE DEF found
      <3>1. \E n \in found : \A m \in found : n <= m
        BY <1>2, <2>1, LeastNatural
      <3> QED BY <3>1 DEF Min
    <2>3. Eliminated(work, column)
            = [rows |-> [r \in Qubits |->
                            IF r # work.pivot /\ HasBit(rows[r], column) THEN Product(rows[r], row) ELSE rows[r]],
               query |-> IF HasBit(work.query, column) THEN Product(work.query, row) ELSE work.query,
               pivot |-> work.pivot + 1]
      BY <1>2 DEF Eliminated
    <2>4. p \in work.pivot .. N - 1 /\ HasBit(work.rows[p], column)
      BY <2>2
    <2> HIDE DEF p, found
    <2>5. p \in Qubits /\ work.pivot \in Qubits /\ work.rows \in [Qubits -> Paulis]
      BY <2>4, WorkParts
    <2>6. \A r \in Qubits : rows[r] = work.rows[From(r, p, work.pivot)]
      BY <2>5 DEF From
    <2> HIDE DEF rows
    <2>7. Eliminated(work, column) = Cleared(work, p, column)
      BY <2>3, <2>6 DEF Cleared
    <2> QED BY <2>4, <2>7
  <1> QED BY <1>1, <1>2

\* The rows of a cleared column.
LEMMA ClearedRow ==
    ASSUME NEW work \in Works, NEW column, NEW p \in work.pivot .. N - 1, HasBit(work.rows[p], column),
           NEW r \in Qubits, NEW o, o = From(r, p, work.pivot)
    PROVE  /\ o \in Qubits /\ From(o, p, work.pivot) = r
           /\ r = work.pivot <=> o = p
           /\ r < work.pivot => o = r
           /\ ~ (r < work.pivot) => o \in work.pivot .. N - 1
           /\ Cleared(work, p, column).rows[r]
                = IF r # work.pivot /\ HasBit(work.rows[o], column) THEN Product(work.rows[o], work.rows[p])
                  ELSE work.rows[o]
  <1>1. p \in Qubits /\ work.pivot \in Qubits
    BY WorkParts
  <1>2. /\ o \in Qubits /\ From(o, p, work.pivot) = r
        /\ r = work.pivot <=> o = p
    BY <1>1 DEF From
  <1>3. /\ r < work.pivot => o = r
        /\ ~ (r < work.pivot) => o \in work.pivot .. N - 1
    <2>1. r \in Nat /\ r < N /\ work.pivot \in Nat /\ work.pivot < N /\ p \in Nat /\ work.pivot <= p /\ p < N
      BY <1>1, IndicesOf
    <2> QED BY <2>1, IndicesOf DEF From
  <1>4. Cleared(work, p, column).rows[r]
          = IF r # work.pivot /\ HasBit(work.rows[o], column) THEN Product(work.rows[o], work.rows[p])
            ELSE work.rows[o]
    BY DEF Cleared
  <1> QED BY <1>2, <1>3, <1>4

\* The type of a column's result.
LEMMA EliminatedType ==
    ASSUME NEW work \in Works, NEW column
    PROVE  Eliminated(work, column) \in Works
  <1>1. CASE Eliminated(work, column) = work
    BY <1>1
  <1>2. ASSUME NEW p \in work.pivot .. N - 1, HasBit(work.rows[p], column)
        PROVE  Cleared(work, p, column) \in Works
    <2> DEFINE E == Cleared(work, p, column)
    <2>1. work.rows[p] \in Paulis /\ work.query \in Paulis /\ work.pivot \in Qubits
      BY WorkParts
    <2>2. ASSUME NEW r \in Qubits PROVE E.rows[r] \in Paulis
      <3> PICK o : o = From(r, p, work.pivot)
        OBVIOUS
      <3>1. o \in Qubits
        BY WorkParts DEF From
      <3>2. work.rows[o] \in Paulis
        BY <3>1, WorkParts
      <3>3. Product(work.rows[o], work.rows[p]) \in Paulis
        BY <2>1, <3>2, ProductType
      <3>4. E.rows[r] = IF r # work.pivot /\ HasBit(work.rows[o], column)
                        THEN Product(work.rows[o], work.rows[p]) ELSE work.rows[o]
        BY DEF Cleared
      <3> QED BY <3>2, <3>3, <3>4
    <2>3. E.query \in Paulis
      BY <2>1, ProductType DEF Cleared
    <2>4. work.pivot + 1 \in 0 .. N
      BY <2>1, IndicesOf
    <2>5. E = [rows |-> E.rows, query |-> E.query, pivot |-> work.pivot + 1] /\ E.rows = [r \in Qubits |-> E.rows[r]]
      BY DEF Cleared
    <2> HIDE DEF E
    <2>6. E.rows \in [Qubits -> Paulis]
      BY <2>2, <2>5
    <2>7. E \in Works
      BY <2>3, <2>4, <2>5, <2>6 DEF Works
    <2> QED BY <2>7 DEF E
  <1> QED BY <1>1, <1>2, EliminatedIs

-----------------------------------------------------------------------------
(* pauli_expectation: the columns below k eliminated *)

\* What g makes of the amplitudes, at c.
Applied(g, psi, c) == Turned(psi[SymDiff(c, g.x)], Exponent(g, SymDiff(c, g.x)))

\* Sets of columns closed under the sum of their bits.
ClosedBits(V) == V \subseteq SUBSET Indices /\ {} \in V /\ \A u, v \in V : SymDiff(u, v) \in V

\* The only row that has column c is r, and the query does not have it.
Leads(work, r, c) ==
    /\ HasBit(work.rows[r], c)
    /\ ~ HasBit(work.query, c)
    /\ \A s \in Qubits : s # r => ~ HasBit(work.rows[s], c)

\* Every row used so far leads a column below k and the rows left have none.
Echelon(work, k) ==
    /\ \A r \in 0 .. work.pivot - 1 : \E c \in 0 .. k - 1 : Leads(work, r, c)
    /\ \A r \in work.pivot .. N - 1 : \A c \in 0 .. k - 1 : ~ HasBit(work.rows[r], c)

\* The rows fix the amplitudes, commute with the stabilizers and generate them.
Generates(T, psi, rows) ==
    /\ \A r \in Qubits : Fixes(rows[r], psi)
    /\ \A r \in Qubits : \A i \in Stabilizers : ~ Anticommute(rows[r], T[i])
    /\ \A V \in SUBSET SUBSET Indices :
            ClosedBits(V) /\ (\A r \in Qubits : Bits(rows[r]) \in V) => \A i \in Stabilizers : Bits(T[i]) \in V

\* The query anticommutes with the stabilizers the Pauli string anticommutes
\* with, and makes the same of the amplitudes.
Stands(T, psi, pauli, query) ==
    /\ \A i \in Stabilizers : Anticommute(query, T[i]) <=> Anticommute(pauli, T[i])
    /\ \A c \in Basis : Applied(query, psi, c) = Applied(pauli, psi, c)

\* A row that fixes the amplitudes changes nothing of what a product makes of them.
LEMMA AppliedProduct ==
    ASSUME NEW g \in Paulis, NEW h \in Paulis, NEW psi \in [Basis -> Complex], Fixes(h, psi), NEW c \in Basis
    PROVE  Applied(Product(g, h), psi, c) = Applied(g, psi, c)
  <1> PICK k : k = Product(g, h)
    OBVIOUS
  <1> DEFINE a == SymDiff(c, g.x)
             b == SymDiff(c, k.x)
  <1>1. g.x \in Basis /\ h.x \in Basis /\ k \in Paulis /\ k.x = SymDiff(g.x, h.x)
    BY ProductType, RowParts DEF Basis, Product
  <1>2. a \in Basis /\ b \in Basis /\ SymDiff(a, h.x) = b /\ SymDiff(b, h.x) = a
    <2>1. k.x \in Basis
      BY <1>1, SymDiffInBasis
    <2>2. b = SymDiff(a, h.x)
      BY <1>1, SymDiffFacts
    <2>3. SymDiff(SymDiff(a, h.x), h.x) = a
      BY SymDiffFacts
    <2> QED BY <1>1, <2>1, <2>2, <2>3, SymDiffInBasis
  <1>3. Applied(k, psi, c) = Turned(psi[b], Exponent(k, b)) /\ Applied(g, psi, c) = Turned(psi[a], Exponent(g, a))
    BY DEF Applied
  <1> HIDE DEF a, b
  <1> DEFINE m == Exponent(g, a)
             n == Exponent(h, b)
             l == Exponent(k, b)
  <1>4. m \in Int /\ n \in Int /\ l \in Int /\ (l - (m + n)) % 4 = 0
    BY <1>1, <1>2, ExponentType, ProductExponent
  <1>5. psi[a] = Turned(psi[b], n)
    BY <1>2 DEF Fixes
  <1>6. psi[b] \in Complex
    BY <1>2
  <1> HIDE DEF m, n, l
  <1>7. Turned(psi[b], l) = Turned(psi[b], n + m)
    <2>1. n + m \in Int /\ (l - (n + m)) % 4 = 0
      BY <1>4
    <2> QED BY <1>4, <2>1, TurnedSame
  <1>8. Turned(psi[a], m) = Turned(psi[b], n + m)
    BY <1>4, <1>5, <1>6, TurnedSum
  <1> QED BY <1>3, <1>7, <1>8 DEF m, l

\* What the elimination of one column does to a row.
LEMMA EliminatedRow ==
    ASSUME NEW work \in Works, NEW column, NEW p \in work.pivot .. N - 1, HasBit(work.rows[p], column),
           NEW r \in Qubits
    PROVE  LET E == Cleared(work, p, column)
               o == From(r, p, work.pivot)
           IN  /\ \A c : HasBit(E.rows[r], c) <=>
                            Xor(HasBit(work.rows[o], c),
                                r # work.pivot /\ HasBit(work.rows[o], column) /\ HasBit(work.rows[p], c))
               /\ \A c : HasBit(E.query, c) <=>
                            Xor(HasBit(work.query, c), HasBit(work.query, column) /\ HasBit(work.rows[p], c))
  <1> DEFINE E == Cleared(work, p, column)
  <1> PICK o : o = From(r, p, work.pivot)
    OBVIOUS
  <1>1. /\ o \in Qubits
        /\ E.rows[r] = IF r # work.pivot /\ HasBit(work.rows[o], column)
                       THEN Product(work.rows[o], work.rows[p]) ELSE work.rows[o]
    BY ClearedRow
  <1>2. work.rows[o] \in Paulis /\ work.rows[p] \in Paulis /\ work.query \in Paulis
    BY <1>1, WorkParts
  <1>3. E.query = IF HasBit(work.query, column) THEN Product(work.query, work.rows[p]) ELSE work.query
    BY DEF Cleared
  <1> HIDE DEF E
  <1>4. ASSUME NEW c
        PROVE  HasBit(E.rows[r], c) <=>
                 Xor(HasBit(work.rows[o], c), r # work.pivot /\ HasBit(work.rows[o], column) /\ HasBit(work.rows[p], c))
    <2>1. HasBit(Product(work.rows[o], work.rows[p]), c) <=> Xor(HasBit(work.rows[o], c), HasBit(work.rows[p], c))
      BY <1>2, BitsProduct
    <2>2. CASE r # work.pivot /\ HasBit(work.rows[o], column)
      BY <1>1, <2>1, <2>2 DEF Xor
    <2>3. CASE ~ (r # work.pivot /\ HasBit(work.rows[o], column))
      BY <1>1, <2>3 DEF Xor
    <2> QED BY <2>2, <2>3
  <1>5. ASSUME NEW c
        PROVE  HasBit(E.query, c) <=>
                 Xor(HasBit(work.query, c), HasBit(work.query, column) /\ HasBit(work.rows[p], c))
    <2>1. HasBit(Product(work.query, work.rows[p]), c) <=> Xor(HasBit(work.query, c), HasBit(work.rows[p], c))
      BY <1>2, BitsProduct
    <2>2. CASE HasBit(work.query, column)
      BY <1>3, <2>1, <2>2 DEF Xor
    <2>3. CASE ~ HasBit(work.query, column)
      BY <1>3, <2>3 DEF Xor
    <2> QED BY <2>2, <2>3
  <1> QED BY <1>4, <1>5 DEF E

-----------------------------------------------------------------------------
(* pauli_expectation: what one column keeps *)

\* The rows of a cleared column fix, commute and generate what the rows did.
LEMMA ClearedGenerates ==
    ASSUME NEW T, NEW psi, Describes(T, psi),
           NEW work \in Works, NEW column, NEW p \in work.pivot .. N - 1, HasBit(work.rows[p], column),
           Generates(T, psi, work.rows)
    PROVE  Generates(T, psi, Cleared(work, p, column).rows)
  <1> DEFINE rows == work.rows
             row == rows[p]
             new == Cleared(work, p, column).rows
             o(r) == From(r, p, work.pivot)
  <1>1. p \in Qubits /\ work.pivot \in Qubits /\ row \in Paulis /\ \A r \in Qubits : rows[r] \in Paulis
    BY WorkParts
  <1>2. psi \in [Basis -> Complex] /\ \A i \in Stabilizers : T[i] \in Paulis
    BY IndicesOf DEF Describes, IsSymplectic
  <1>3. ASSUME NEW r \in Qubits
        PROVE  o(r) \in Qubits /\ (new[r] = rows[o(r)] \/ (r # work.pivot /\ new[r] = Product(rows[o(r)], row)))
    <2>1. o(r) \in Qubits
      BY <1>1 DEF From
    <2>2. new[r] = IF r # work.pivot /\ HasBit(rows[o(r)], column) THEN Product(rows[o(r)], row) ELSE rows[o(r)]
      BY DEF Cleared
    <2> HIDE DEF new, o
    <2> QED BY <2>1, <2>2
  <1>4. \A r \in Qubits : o(o(r)) = r
    BY <1>1 DEF From
  <1>5. o(work.pivot) = p
    BY DEF From
  <1> HIDE DEF new, o, row, rows
  <1>6. row = rows[p]
    BY DEF row
  <1>7. /\ \A r \in Qubits : Fixes(rows[r], psi)
        /\ \A r \in Qubits : \A i \in Stabilizers : ~ Anticommute(rows[r], T[i])
        /\ \A V \in SUBSET SUBSET Indices :
              ClosedBits(V) /\ (\A r \in Qubits : Bits(rows[r]) \in V) => \A i \in Stabilizers : Bits(T[i]) \in V
    BY DEF Generates, rows
  <1>8. ASSUME NEW r \in Qubits PROVE Fixes(new[r], psi)
    <2> PICK g : g = rows[o(r)]
      OBVIOUS
    <2>1. g \in Paulis /\ Fixes(g, psi) /\ Fixes(row, psi)
      BY <1>1, <1>3, <1>6, <1>7
    <2>2. Fixes(Product(g, row), psi)
      BY <1>1, <1>2, <2>1, ProductFixes
    <2> QED BY <1>3, <2>1, <2>2
  <1>9. ASSUME NEW r \in Qubits, NEW i \in Stabilizers PROVE ~ Anticommute(new[r], T[i])
    <2> PICK g : g = rows[o(r)]
      OBVIOUS
    <2> PICK t : t = T[i]
      OBVIOUS
    <2>1. g \in Paulis /\ t \in Paulis /\ ~ Anticommute(g, t) /\ ~ Anticommute(row, t)
      BY <1>1, <1>2, <1>3, <1>6, <1>7
    <2>2. Product(g, row) \in Paulis
      BY <1>1, <2>1, ProductType
    <2>3. ~ Anticommute(Product(g, row), t)
      <3>1. Anticommute(Product(g, row), t) <=> Xor(Anticommute(g, t), Anticommute(row, t))
        BY <1>1, <2>1, <2>2, ProductAnticommutes
      <3> QED BY <2>1, <3>1 DEF Xor
    <2> QED BY <1>3, <2>1, <2>3
  <1>10. ASSUME NEW V \in SUBSET SUBSET Indices, ClosedBits(V), \A r \in Qubits : Bits(new[r]) \in V
         PROVE  \A i \in Stabilizers : Bits(T[i]) \in V
    <2>1. Bits(row) \in V
      <3>1. new[work.pivot] = rows[o(work.pivot)]
        BY <1>1, <1>3
      <3> QED BY <1>1, <1>5, <1>6, <1>10, <3>1
    <2>2. ASSUME NEW r \in Qubits PROVE Bits(rows[r]) \in V
      <3> PICK s : s = o(r)
        OBVIOUS
      <3>1. s \in Qubits /\ o(s) = r
        BY <1>3, <1>4
      <3> PICK g : g = rows[r]
        OBVIOUS
      <3>2. Bits(new[s]) \in V /\ g \in Paulis
        BY <1>1, <1>10, <3>1
      <3>3. CASE new[s] = g
        BY <3>2, <3>3
      <3>4. CASE new[s] = Product(g, row)
        <4>1. Bits(new[s]) = SymDiff(Bits(g), Bits(row))
          BY <1>1, <3>2, <3>4, BitsProduct
        <4>2. SymDiff(SymDiff(Bits(g), Bits(row)), Bits(row)) \in V
          BY <1>10, <2>1, <3>2, <4>1 DEF ClosedBits
        <4>3. SymDiff(SymDiff(Bits(g), Bits(row)), Bits(row)) = Bits(g)
          BY SymDiffFacts
        <4> QED BY <4>2, <4>3
      <3> QED BY <1>3, <3>1, <3>3, <3>4
    <2> QED BY <1>7, <1>10, <2>2
  <1>11. Generates(T, psi, new)
    BY <1>8, <1>9, <1>10 DEF Generates
  <1> QED BY <1>11 DEF new

\* The query of a cleared column stands for the same Pauli string.
LEMMA ClearedStands ==
    ASSUME NEW T, NEW psi, Describes(T, psi), NEW pauli,
           NEW work \in Works, NEW column, NEW p \in work.pivot .. N - 1, HasBit(work.rows[p], column),
           Generates(T, psi, work.rows), Stands(T, psi, pauli, work.query)
    PROVE  Stands(T, psi, pauli, Cleared(work, p, column).query)
  <1> PICK row : row = work.rows[p]
    OBVIOUS
  <1> PICK query : query = work.query
    OBVIOUS
  <1>1. row \in Paulis /\ query \in Paulis /\ p \in Qubits
    BY WorkParts
  <1>2. psi \in [Basis -> Complex] /\ \A i \in Stabilizers : T[i] \in Paulis
    BY IndicesOf DEF Describes, IsSymplectic
  <1>3. Fixes(row, psi) /\ \A i \in Stabilizers : ~ Anticommute(row, T[i])
    BY <1>1 DEF Generates
  <1>4. Product(query, row) \in Paulis
    BY <1>1, ProductType
  <1>5. ASSUME NEW i \in Stabilizers PROVE Anticommute(Product(query, row), T[i]) <=> Anticommute(pauli, T[i])
    <2>1. Anticommute(Product(query, row), T[i]) <=> Xor(Anticommute(query, T[i]), Anticommute(row, T[i]))
      BY <1>1, <1>2, <1>4, ProductAnticommutes
    <2>2. Anticommute(query, T[i]) <=> Anticommute(pauli, T[i])
      BY DEF Stands
    <2> QED BY <1>3, <2>1, <2>2 DEF Xor
  <1>6. ASSUME NEW c \in Basis PROVE Applied(Product(query, row), psi, c) = Applied(pauli, psi, c)
    <2>1. Applied(Product(query, row), psi, c) = Applied(query, psi, c)
      BY <1>1, <1>2, <1>3, AppliedProduct
    <2> QED BY <2>1 DEF Stands
  <1>7. Stands(T, psi, pauli, Product(query, row))
    BY <1>5, <1>6 DEF Stands
  <1>8. Cleared(work, p, column).query = query \/ Cleared(work, p, column).query = Product(query, row)
    BY DEF Cleared
  <1> QED BY <1>7, <1>8

\* The first k columns stay eliminated and the next one is too.
LEMMA ClearedEchelon ==
    ASSUME NEW k \in Nat, NEW work \in Works, Echelon(work, k),
           NEW p \in work.pivot .. N - 1, HasBit(work.rows[p], k)
    PROVE  Echelon(Cleared(work, p, k), k + 1)
  <1> PICK E : E = Cleared(work, p, k)
    OBVIOUS
  <1> PICK q : q = work.pivot
    OBVIOUS
  <1>1. p \in Qubits /\ q \in Qubits /\ q \in Nat /\ q < N /\ q <= p /\ E.pivot = q + 1
    <2>1. p \in Qubits /\ work.pivot \in Qubits /\ work.pivot \in Nat
      BY WorkParts
    <2>2. N \in Nat /\ q \in Nat /\ q < N /\ q <= p
      BY <2>1, IndicesOf
    <2>3. E.pivot = q + 1
      BY DEF Cleared
    <2> QED BY <2>1, <2>2, <2>3
  <1> DEFINE o(r) == From(r, p, q)
             Old(r, c) == HasBit(work.rows[r], c)
             New(r, c) == HasBit(E.rows[r], c)
  <1>2. ASSUME NEW r \in Qubits
        PROVE  /\ o(r) \in Qubits /\ (r = q <=> o(r) = p) /\ (r < q => o(r) = r)
               /\ (~ (r < q) => o(r) \in q .. N - 1)
    BY <1>1, IndicesOf DEF From
  <1>3. ASSUME NEW r \in Qubits, NEW c
        PROVE  New(r, c) <=> Xor(Old(o(r), c), r # q /\ Old(o(r), k) /\ Old(p, c))
    BY EliminatedRow
  <1>4. ASSUME NEW c
        PROVE  HasBit(E.query, c) <=> Xor(HasBit(work.query, c), HasBit(work.query, k) /\ Old(p, c))
    BY <1>1, EliminatedRow
  <1>5. Old(p, k)
    OBVIOUS
  <1>6. \A r \in 0 .. q - 1 : \E c \in 0 .. k - 1 : Leads(work, r, c)
    BY DEF Echelon
  <1>7. \A r \in q .. N - 1 : \A c \in 0 .. k - 1 : ~ Old(r, c)
    BY DEF Echelon
  <1> HIDE DEF o, New
  <1>8. ASSUME NEW r \in 0 .. q - 1, NEW c \in 0 .. k - 1, Leads(work, r, c) PROVE Leads(E, r, c)
    <2>1. r \in Qubits /\ r < q /\ r # p
      BY <1>1, IndicesOf
    <2>2. Old(r, c) /\ ~ HasBit(work.query, c) /\ \A s \in Qubits : s # r => ~ Old(s, c)
      BY <1>8 DEF Leads
    <2> HIDE DEF Old
    <2>3. ~ Old(p, c)
      BY <1>1, <2>1, <2>2
    <2>4. New(r, c)
      BY <1>2, <1>3, <2>1, <2>2, <2>3 DEF Xor
    <2>5. ~ HasBit(E.query, c)
      BY <1>4, <2>2, <2>3 DEF Xor
    <2>6. ASSUME NEW s \in Qubits, s # r PROVE ~ New(s, c)
      <3>1. o(s) \in Qubits /\ o(s) # r
        <4>1. CASE s < q
          BY <1>2, <2>6, <4>1
        <4>2. CASE ~ (s < q)
          BY <1>1, <1>2, <2>1, <4>2
        <4> QED BY <4>1, <4>2
      <3>2. ~ Old(o(s), c)
        BY <2>2, <3>1
      <3> QED BY <1>3, <2>3, <3>2 DEF Xor
    <2> QED BY <2>4, <2>5, <2>6 DEF Leads, New
  <1>9. Leads(E, q, k)
    <2> HIDE DEF Old
    <2>1. New(q, k)
      <3>1. o(q) = p
        BY <1>1, <1>2
      <3> QED BY <1>1, <1>3, <1>5, <3>1 DEF Xor
    <2>2. ~ HasBit(E.query, k)
      BY <1>4, <1>5 DEF Xor
    <2>3. ASSUME NEW s \in Qubits, s # q PROVE ~ New(s, k)
      BY <1>3, <1>5, <2>3 DEF Xor
    <2> QED BY <2>1, <2>2, <2>3 DEF Leads, New
  <1>10. ASSUME NEW r \in q + 1 .. N - 1, NEW c \in 0 .. (k + 1) - 1 PROVE ~ New(r, c)
    <2>1. r \in Qubits /\ ~ (r < q) /\ r # q
      BY <1>1, IndicesOf
    <2>2. o(r) \in q .. N - 1 /\ p \in q .. N - 1
      BY <1>2, <2>1
    <2> HIDE DEF Old
    <2>3. CASE c = k
      BY <1>3, <1>5, <2>1, <2>3 DEF Xor
    <2>4. CASE c # k
      <3>1. c \in 0 .. k - 1
        BY <2>4
      <3>2. ~ Old(o(r), c) /\ ~ Old(p, c)
        BY <1>7, <2>2, <3>1
      <3> QED BY <1>3, <2>1, <3>2 DEF Xor
    <2> QED BY <2>3, <2>4
  <1>11. ASSUME NEW r \in 0 .. E.pivot - 1 PROVE \E c \in 0 .. (k + 1) - 1 : Leads(E, r, c)
    <2>1. CASE r = q
      <3>1. k \in 0 .. (k + 1) - 1
        OBVIOUS
      <3> QED BY <1>9, <2>1, <3>1
    <2>2. CASE r # q
      <3>1. r \in 0 .. q - 1
        BY <1>1, <2>2
      <3>2. PICK c \in 0 .. k - 1 : Leads(work, r, c)
        BY <1>6, <3>1
      <3>3. c \in 0 .. (k + 1) - 1
        OBVIOUS
      <3> QED BY <1>8, <3>1, <3>2, <3>3
    <2> QED BY <2>1, <2>2
  <1>12. \A r \in E.pivot .. N - 1 : \A c \in 0 .. (k + 1) - 1 : ~ HasBit(E.rows[r], c)
    BY <1>1, <1>10 DEF New
  <1> QED BY <1>11, <1>12 DEF Echelon

\* A column that no row left has is eliminated as it is.
LEMMA SkippedEchelon ==
    ASSUME NEW k \in Nat, NEW work \in Works, Echelon(work, k),
           \A r \in work.pivot .. N - 1 : ~ HasBit(work.rows[r], k)
    PROVE  Echelon(work, k + 1)
  <1>1. ASSUME NEW r \in 0 .. work.pivot - 1 PROVE \E c \in 0 .. (k + 1) - 1 : Leads(work, r, c)
    <2>1. PICK c \in 0 .. k - 1 : Leads(work, r, c)
      BY DEF Echelon
    <2>2. c \in 0 .. (k + 1) - 1
      OBVIOUS
    <2> QED BY <2>1, <2>2
  <1>2. ASSUME NEW r \in work.pivot .. N - 1, NEW c \in 0 .. (k + 1) - 1 PROVE ~ HasBit(work.rows[r], c)
    <2>1. c = k \/ c \in 0 .. k - 1
      OBVIOUS
    <2> QED BY <2>1 DEF Echelon
  <1> QED BY <1>1, <1>2 DEF Echelon

-----------------------------------------------------------------------------
(* pauli_expectation: what is left of the query *)

\* The expectation read off what is left of the query.
Answer(rest) ==
    CASE rest = Identity -> 1
      [] rest = [Identity EXCEPT !.phase = 2] -> -1
      [] OTHER -> 0

\* The states the elimination goes through.
LEMMA EliminationIs ==
    ASSUME NEW T \in [Indices -> Paulis], NEW pauli \in Paulis
    PROVE  \E f \in [0 .. 2 * N -> Works] :
               /\ f[0] = [rows |-> [i \in Qubits |-> T[N + i]], query |-> pauli, pivot |-> 0]
               /\ \A k \in 1 .. 2 * N : f[k] = Eliminated(f[k - 1], k - 1)
               /\ PauliExpectation(T, pauli) = Answer(f[2 * N].query)
  <1> DEFINE M == 2 * N
             s0 == [rows |-> [i \in Qubits |-> T[N + i]], query |-> pauli, pivot |-> 0]
             Is(f) == f = [k \in 0 .. M |-> IF k = 0 THEN s0 ELSE Eliminated(f[k - 1], k - 1)]
             step == [k \in 1 .. M |-> [s \in Works |-> Eliminated(s, k - 1)]]
  <1>1. M \in Nat
    BY IndicesOf
  <1>2. step \in [1 .. M -> [Works -> Works]]
    BY EliminatedType
  <1>3. s0 \in Works
    <2>1. \A i \in Qubits : T[N + i] \in Paulis
      BY IndicesOf
    <2>2. 0 \in 0 .. N
      BY IndicesOf
    <2> QED BY <2>1, <2>2 DEF Works
  <1> HIDE DEF M
  <1>4. PICK f \in [0 .. M -> Works] : f[0] = s0 /\ \A k \in 1 .. M : f[k] = step[k][f[k - 1]]
    <2> HIDE DEF step, s0
    <2>1. \E f : Trace(f, Works, M, s0, step)
      BY <1>1, <1>2, <1>3, LoopExists
    <2> QED BY <2>1 DEF Trace
  <1> HIDE DEF s0
  <1>5. \A k \in 1 .. M : f[k] = Eliminated(f[k - 1], k - 1)
    <2> SUFFICES ASSUME NEW k \in 1 .. M PROVE f[k] = Eliminated(f[k - 1], k - 1)
      OBVIOUS
    <2>1. k - 1 \in 0 .. M
      BY <1>1
    <2>2. f[k - 1] \in Works /\ f[k] = step[k][f[k - 1]]
      BY <1>4, <2>1
    <2> QED BY <2>2
  <1>6. Is(f)
    <2>1. \A k \in 0 .. M : k = 0 \/ k \in 1 .. M
      OBVIOUS
    <2> QED BY <1>4, <1>5, <2>1
  <1> DEFINE g == CHOOSE h : Is(h)
  <1>7. Is(g)
    <2> HIDE DEF Is
    <2> QED BY <1>6
  <1>8. PauliExpectation(T, pauli) = Answer(g[M].query)
    BY DEF PauliExpectation, Answer, M, s0
  <1> HIDE DEF g
  <1> DEFINE Same == {k \in 0 .. M : g[k] = f[k]}
  <1>9. 0 \in Same
    BY <1>1, <1>4, <1>7
  <1>10. ASSUME NEW k \in 1 .. M, k - 1 \in Same PROVE k \in Same
    <2>1. k \in 0 .. M /\ k # 0
      OBVIOUS
    <2>2. g[k] = Eliminated(g[k - 1], k - 1)
      BY <1>7, <2>1
    <2> QED BY <1>5, <1>10, <2>1, <2>2
  <1> HIDE DEF Same, Is
  <1>11. g[M] = f[M]
    <2>1. \A k \in 0 .. M : k \in Same
      BY <1>1, <1>9, <1>10, CountUp
    <2> QED BY <1>1, <2>1 DEF Same
  <1> QED BY <1>4, <1>5, <1>8, <1>11 DEF M, s0

\* The elimination ends with all columns eliminated, the rows generating the
\* stabilizers and the query standing for the Pauli string.
LEMMA EliminationEnds ==
    ASSUME NEW T, NEW psi, Describes(T, psi), NEW pauli \in Paulis
    PROVE  \E work \in Works :
               /\ Echelon(work, 2 * N) /\ Generates(T, psi, work.rows) /\ Stands(T, psi, pauli, work.query)
               /\ PauliExpectation(T, pauli) = Answer(work.query)
  <1> PICK M : M = 2 * N
    OBVIOUS
  <1>1. T \in [Indices -> Paulis] /\ IsSymplectic(T) /\ Stabilizes(T, psi) /\ M \in Nat
    BY IndicesOf DEF Describes, IsSymplectic
  <1>2. PICK f \in [0 .. M -> Works] :
            /\ f[0] = [rows |-> [i \in Qubits |-> T[N + i]], query |-> pauli, pivot |-> 0]
            /\ \A k \in 1 .. M : f[k] = Eliminated(f[k - 1], k - 1)
            /\ PauliExpectation(T, pauli) = Answer(f[M].query)
    BY <1>1, EliminationIs
  <1> DEFINE Good == {k \in 0 .. M : /\ Echelon(f[k], k) /\ Generates(T, psi, f[k].rows)
                                     /\ Stands(T, psi, pauli, f[k].query)}
  <1>3. 0 \in Good
    <2> PICK w : w = f[0]
      OBVIOUS
    <2>1. w.rows = [i \in Qubits |-> T[N + i]] /\ w.query = pauli /\ w.pivot = 0
      BY <1>2
    <2>2. Echelon(w, 0)
      <3>1. 0 .. 0 - 1 = {}
        OBVIOUS
      <3> QED BY <2>1, <3>1 DEF Echelon
    <2>3. \A r \in Qubits : N + r \in Stabilizers /\ N + r \in Indices /\ w.rows[r] = T[N + r]
      BY <2>1, IndicesOf
    <2>4. \A i \in Stabilizers : i - N \in Qubits /\ N + (i - N) = i /\ i \in Indices
      BY IndicesOf
    <2>5. \A r \in Qubits : Fixes(w.rows[r], psi)
      BY <1>1, <2>3 DEF Stabilizes
    <2>6. ASSUME NEW r \in Qubits, NEW i \in Stabilizers PROVE ~ Anticommute(w.rows[r], T[i])
      <3>1. N + r \in Indices /\ i \in Indices /\ ~ (N + r = i + N) /\ ~ (i = (N + r) + N)
        BY <2>3, <2>4, IndicesOf
      <3> QED BY <1>1, <2>3, <3>1 DEF IsSymplectic
    <2>7. ASSUME NEW V, \A r \in Qubits : Bits(w.rows[r]) \in V, NEW i \in Stabilizers PROVE Bits(T[i]) \in V
      <3>1. Bits(w.rows[i - N]) \in V /\ w.rows[i - N] = T[i]
        BY <2>3, <2>4, <2>7
      <3> QED BY <3>1
    <2>8. Generates(T, psi, w.rows)
      BY <2>5, <2>6, <2>7 DEF Generates
    <2>9. Stands(T, psi, pauli, w.query)
      BY <2>1 DEF Stands
    <2>10. 0 \in 0 .. M
      BY <1>1
    <2> QED BY <2>2, <2>8, <2>9, <2>10
  <1>4. ASSUME NEW k \in 1 .. M, k - 1 \in Good PROVE k \in Good
    <2> PICK j : j = k - 1
      OBVIOUS
    <2> PICK w : w = f[j]
      OBVIOUS
    <2>1. j \in 0 .. M /\ j \in Nat /\ k = j + 1 /\ k \in 0 .. M
      BY <1>1
    <2>2. w \in Works /\ Echelon(w, j) /\ Generates(T, psi, w.rows) /\ Stands(T, psi, pauli, w.query)
      BY <1>2, <1>4, <2>1
    <2>3. f[k] = Eliminated(w, j)
      BY <1>2
    <2> HIDE DEF Good
    <2>4. CASE Eliminated(w, j) = w /\ \A r \in w.pivot .. N - 1 : ~ HasBit(w.rows[r], j)
      <3>1. Echelon(w, j + 1)
        BY <2>1, <2>2, <2>4, SkippedEchelon
      <3>2. Echelon(f[k], k) /\ Generates(T, psi, f[k].rows) /\ Stands(T, psi, pauli, f[k].query)
        BY <2>1, <2>2, <2>3, <2>4, <3>1
      <3> QED BY <2>1, <3>2 DEF Good
    <2>5. CASE \E p \in w.pivot .. N - 1 : HasBit(w.rows[p], j) /\ Eliminated(w, j) = Cleared(w, p, j)
      <3>1. PICK p \in w.pivot .. N - 1 : HasBit(w.rows[p], j) /\ Eliminated(w, j) = Cleared(w, p, j)
        BY <2>5
      <3>2. Echelon(Cleared(w, p, j), j + 1)
        BY <2>1, <2>2, <3>1, ClearedEchelon
      <3>3. Generates(T, psi, Cleared(w, p, j).rows)
        BY <2>2, <3>1, ClearedGenerates
      <3>4. Stands(T, psi, pauli, Cleared(w, p, j).query)
        BY <2>2, <3>1, ClearedStands
      <3>5. Echelon(f[k], k) /\ Generates(T, psi, f[k].rows) /\ Stands(T, psi, pauli, f[k].query)
        BY <2>1, <2>3, <3>1, <3>2, <3>3, <3>4
      <3> QED BY <2>1, <3>5 DEF Good
    <2> QED BY <2>2, <2>4, <2>5, EliminatedIs
  <1> HIDE DEF Good
  <1>5. M \in Good
    <2>1. \A k \in 0 .. M : k \in Good
      BY <1>1, <1>3, <1>4, CountUp
    <2> QED BY <1>1, <2>1
  <1>6. M \in 0 .. M
    BY <1>1
  <1> PICK work : work = f[M]
    OBVIOUS
  <1>7. /\ work \in Works
        /\ Echelon(work, 2 * N) /\ Generates(T, psi, work.rows) /\ Stands(T, psi, pauli, work.query)
        /\ PauliExpectation(T, pauli) = Answer(work.query)
    BY <1>2, <1>5, <1>6 DEF Good
  <1> QED BY <1>7

\* A query that commutes with every stabilizer is eliminated completely.
LEMMA RestIsTrivial ==
    ASSUME NEW T, NEW psi, Describes(T, psi),
           NEW work \in Works, Echelon(work, 2 * N), Generates(T, psi, work.rows),
           \A i \in Stabilizers : ~ Anticommute(work.query, T[i])
    PROVE  work.query.x = {} /\ work.query.z = {}
  <1> PICK query : query = work.query
    OBVIOUS
  <1> DEFINE Used == 0 .. work.pivot - 1
             lead(r) == CHOOSE c \in Indices : Leads(work, r, c)
             Lines(v, c) == {r \in Used : lead(r) \in v /\ HasBit(work.rows[r], c)}
             V == {v \in SUBSET Indices : \A c \in Indices : c \in v <=> Odd(Lines(v, c))}
             W == {g \in Paulis : Bits(g) \in V}
  <1>1. query \in Paulis /\ work.pivot \in Nat /\ work.pivot <= N /\ \A r \in Qubits : work.rows[r] \in Paulis
    BY WorkParts
  <1>2. IsFiniteSet(Used) /\ Used \subseteq Qubits
    <2>1. IsFiniteSet(Used)
      <3>1. work.pivot - 1 \in Int /\ 0 \in Int
        BY <1>1
      <3> QED BY <3>1, FS_Interval
    <2>2. \A r \in Used : r \in Nat /\ r < N
      <3>1. N \in Nat
        BY IndicesOf
      <3> QED BY <1>1, <3>1
    <2>3. Qubits = {i \in Nat : i < N}
      BY IndicesOf
    <2> QED BY <2>1, <2>2, <2>3
  <1>3. ASSUME NEW r \in Used PROVE lead(r) \in Indices /\ Leads(work, r, lead(r))
    <2>1. PICK c \in 0 .. 2 * N - 1 : Leads(work, r, c)
      BY DEF Echelon
    <2>2. c \in Indices
      BY <2>1 DEF Indices
    <2> QED BY <2>1, <2>2
  <1> HIDE DEF lead
  <1>4. ASSUME NEW r \in Used PROVE /\ ~ HasBit(query, lead(r))
                                    /\ \A s \in Qubits : HasBit(work.rows[s], lead(r)) <=> s = r
    BY <1>2, <1>3 DEF Leads
  <1> HIDE DEF Used
  <1>5. ASSUME NEW v, NEW c PROVE IsFiniteSet(Lines(v, c))
    <2>1. Lines(v, c) \subseteq Used
      OBVIOUS
    <2> QED BY <1>2, <2>1, FS_Subset
  <1>6. ClosedBits(V)
    <2>1. {} \in V
      <3>1. \A c : Lines({}, c) = {}
        OBVIOUS
      <3> QED BY <3>1, SmallSets
    <2>2. ASSUME NEW u \in V, NEW v \in V PROVE SymDiff(u, v) \in V
      <3>1. SymDiff(u, v) \in SUBSET Indices
        BY DEF SymDiff
      <3>2. ASSUME NEW c \in Indices PROVE c \in SymDiff(u, v) <=> Odd(Lines(SymDiff(u, v), c))
        <4>1. Lines(SymDiff(u, v), c) = SymDiff(Lines(u, c), Lines(v, c))
          BY DEF SymDiff
        <4>2. (c \in u <=> Odd(Lines(u, c))) /\ (c \in v <=> Odd(Lines(v, c)))
          OBVIOUS
        <4> HIDE DEF Lines, V
        <4>3. Odd(SymDiff(Lines(u, c), Lines(v, c))) <=> Xor(Odd(Lines(u, c)), Odd(Lines(v, c)))
          BY <1>5, ParityOfSymDiff
        <4>4. c \in SymDiff(u, v) <=> Xor(c \in u, c \in v)
          BY DEF SymDiff, Xor
        <4> QED BY <4>1, <4>2, <4>3, <4>4 DEF Xor
      <3> HIDE DEF Lines
      <3> QED BY <3>1, <3>2
    <2> QED BY <2>1, <2>2 DEF ClosedBits
  <1>7. ASSUME NEW r \in Qubits PROVE Bits(work.rows[r]) \in V
    <2> DEFINE v == Bits(work.rows[r])
    <2>1. v \in SUBSET Indices /\ \A c \in Indices : c \in v <=> HasBit(work.rows[r], c)
      BY <1>1 DEF Bits
    <2>2. CASE r \in Used
      <3>1. ASSUME NEW c \in Indices PROVE c \in v <=> Odd(Lines(v, c))
        <4>1. \A s \in Used : lead(s) \in v <=> s = r
          BY <1>3, <1>4, <2>1
        <4>2. Lines(v, c) = IF HasBit(work.rows[r], c) THEN {r} ELSE {}
          BY <2>2, <4>1
        <4> HIDE DEF Lines, v
        <4> QED BY <2>1, <4>2, SmallSets
      <3> HIDE DEF Lines, v
      <3>2. v \in V
        BY <2>1, <3>1
      <3> QED BY <3>2 DEF v
    <2>3. CASE r \notin Used
      <3>1. r \in work.pivot .. N - 1
        BY <1>1, <2>3, IndicesOf DEF Used
      <3>2. \A c \in Indices : ~ HasBit(work.rows[r], c)
        BY <3>1 DEF Echelon, Indices
      <3>3. v = {}
        BY <2>1, <3>2
      <3> QED BY <1>6, <3>3 DEF ClosedBits
    <2> QED BY <2>2, <2>3
  <1>8. \A i \in Stabilizers : Bits(T[i]) \in V
    <2> HIDE DEF V
    <2>1. V \in SUBSET SUBSET Indices
      BY <1>6 DEF ClosedBits
    <2> QED BY <1>6, <1>7, <2>1 DEF Generates
  <1>9. ClosedRows(W)
    <2> HIDE DEF V
    <2>1. Identity \in W
      <3>1. Identity \in Paulis /\ Bits(Identity) = {}
        BY DEF Identity, Paulis, Bits, HasBit
      <3> QED BY <1>6, <3>1 DEF ClosedBits
    <2>2. ASSUME NEW g \in W, NEW h \in W PROVE Product(g, h) \in W
      <3>1. Product(g, h) \in Paulis /\ Bits(Product(g, h)) = SymDiff(Bits(g), Bits(h))
        BY ProductType, BitsProduct
      <3> QED BY <1>6, <3>1 DEF ClosedBits
    <2> QED BY <2>1, <2>2 DEF ClosedRows
  <1>10. IsSymplectic(T) /\ \A i \in Stabilizers : T[i] \in Paulis
    BY IndicesOf DEF Describes, IsSymplectic
  <1>11. \A i \in Stabilizers : T[i] \in W
    <2> HIDE DEF V
    <2> QED BY <1>8, <1>10
  <1>12. \E h \in W : Bits(h) = Bits(query)
    <2> HIDE DEF W
    <2> QED BY <1>1, <1>9, <1>10, <1>11, InGroup
  <1>13. Bits(query) \in V
    <2> HIDE DEF V
    <2> QED BY <1>12
  <1>14. Bits(query) = {}
    <2> DEFINE v == Bits(query)
    <2>1. v \in SUBSET Indices /\ \A c \in Indices : c \in v => HasBit(query, c)
      BY <1>1 DEF Bits
    <2>2. \A s \in Used : lead(s) \notin v
      BY <1>3, <1>4, <2>1
    <2>3. ASSUME NEW c \in Indices PROVE c \notin v
      <3>1. Lines(v, c) = {}
        BY <2>2
      <3>2. c \in v <=> Odd(Lines(v, c))
        BY <1>13
      <3> HIDE DEF Lines, v
      <3> QED BY <3>1, <3>2, SmallSets
    <2> QED BY <2>1, <2>3
  <1>15. Identity \in Paulis /\ Identity.x = {} /\ Identity.z = {} /\ Bits(Identity) = {}
    BY DEF Identity, Paulis, Bits, HasBit
  <1> QED BY <1>1, <1>14, <1>15, BitsEqual

-----------------------------------------------------------------------------
(* The expectation as a sum over the basis states *)

\* The real part of a times the conjugate of b.
Dot(a, b) == a[1] * b[1] + a[2] * b[2]

\* Products of an amplitude with another and with its own turns.
LEMMA DotFacts ==
    ASSUME NEW a \in Complex, NEW b \in Complex
    PROVE  /\ Dot(a, b) \in Int
           /\ Dot(Turned(a, 2), b) = -Dot(a, b)
           /\ Dot(Turned(a, 0), a) = SquaredNorm(a) /\ Dot(Turned(a, 2), a) = -SquaredNorm(a)
           /\ Dot(Turned(a, 1), a) = 0 /\ Dot(Turned(a, 3), a) = 0
           /\ SquaredNorm(a) \in Int
  <1>1. PICK p \in Int, r \in Int : a = <<p, r>>
    BY ComplexParts
  <1>2. PICK s \in Int, t \in Int : b = <<s, t>>
    BY ComplexParts
  <1>3. a[1] = p /\ a[2] = r /\ b[1] = s /\ b[2] = t
    BY <1>1, <1>2
  <1>4. /\ Turned(a, 0) = <<p, r>> /\ Turned(a, 1) = <<-r, p>>
        /\ Turned(a, 2) = <<-p, -r>> /\ Turned(a, 3) = <<r, -p>>
    BY <1>1, <1>3, TurnedConstants
  <1>5. /\ Dot(a, b) = p * s + r * t
        /\ Dot(<<-p, -r>>, b) = (-p) * s + (-r) * t
        /\ Dot(<<p, r>>, a) = p * p + r * r
        /\ Dot(<<-p, -r>>, a) = (-p) * p + (-r) * r
        /\ Dot(<<-r, p>>, a) = (-r) * p + p * r
        /\ Dot(<<r, -p>>, a) = r * p + (-p) * r
        /\ SquaredNorm(a) = p * p + r * r
    BY <1>3 DEF Dot, SquaredNorm
  <1>6. p * s \in Int /\ r * t \in Int /\ p * p \in Int /\ r * r \in Int /\ p * r \in Int
    OBVIOUS
  <1>7. /\ (-p) * s = -(p * s) /\ (-r) * t = -(r * t) /\ (-p) * p = -(p * p) /\ (-r) * r = -(r * r)
        /\ (-r) * p = -(p * r) /\ r * p = p * r /\ (-p) * r = -(p * r)
    OBVIOUS
  <1> DEFINE ps == p * s
             rt == r * t
             pp == p * p
             rr == r * r
             pr == p * r
  <1>8. ps \in Int /\ rt \in Int /\ pp \in Int /\ rr \in Int /\ pr \in Int
    BY <1>6
  <1>9. /\ Dot(a, b) = ps + rt
        /\ Dot(<<-p, -r>>, b) = (-ps) + (-rt)
        /\ Dot(<<p, r>>, a) = pp + rr
        /\ Dot(<<-p, -r>>, a) = (-pp) + (-rr)
        /\ Dot(<<-r, p>>, a) = (-pr) + pr
        /\ Dot(<<r, -p>>, a) = pr + (-pr)
        /\ SquaredNorm(a) = pp + rr
    BY <1>5, <1>7
  <1> HIDE DEF ps, rt, pp, rr, pr
  <1>10. /\ Dot(a, b) \in Int
         /\ Dot(<<-p, -r>>, b) = -Dot(a, b)
         /\ Dot(<<p, r>>, a) = SquaredNorm(a)
         /\ Dot(<<-p, -r>>, a) = -SquaredNorm(a)
         /\ Dot(<<-r, p>>, a) = 0
         /\ Dot(<<r, -p>>, a) = 0
         /\ SquaredNorm(a) \in Int
    BY <1>8, <1>9
  <1> QED BY <1>4, <1>10

\* Turning both amplitudes changes nothing of their product.
LEMMA DotTurned ==
    ASSUME NEW a \in Complex, NEW b \in Complex, NEW k \in Int
    PROVE  Dot(Turned(a, k), Turned(b, k)) = Dot(a, b)
  <1>1. PICK p \in Int, r \in Int : a = <<p, r>>
    BY ComplexParts
  <1>2. PICK s \in Int, t \in Int : b = <<s, t>>
    BY ComplexParts
  <1>3. a[1] = p /\ a[2] = r /\ b[1] = s /\ b[2] = t
    BY <1>1, <1>2
  <1>4. /\ Dot(a, b) = p * s + r * t
        /\ Dot(<<-r, p>>, <<-t, s>>) = (-r) * (-t) + p * s
        /\ Dot(<<-p, -r>>, <<-s, -t>>) = (-p) * (-s) + (-r) * (-t)
        /\ Dot(<<r, -p>>, <<t, -s>>) = r * t + (-p) * (-s)
    BY <1>3 DEF Dot
  <1>5. (-r) * (-t) = r * t /\ (-p) * (-s) = p * s /\ p * s \in Int /\ r * t \in Int
    OBVIOUS
  <1> DEFINE ps == p * s
             rt == r * t
  <1>6. /\ ps \in Int /\ rt \in Int /\ Dot(a, b) = ps + rt
        /\ Dot(<<-r, p>>, <<-t, s>>) = rt + ps
        /\ Dot(<<-p, -r>>, <<-s, -t>>) = ps + rt
        /\ Dot(<<r, -p>>, <<t, -s>>) = rt + ps
    BY <1>4, <1>5
  <1> HIDE DEF ps, rt
  <1>7. /\ Dot(<<-r, p>>, <<-t, s>>) = Dot(a, b)
        /\ Dot(<<-p, -r>>, <<-s, -t>>) = Dot(a, b)
        /\ Dot(<<r, -p>>, <<t, -s>>) = Dot(a, b)
    BY <1>6
  <1>8. k % 4 = 0 \/ k % 4 = 1 \/ k % 4 = 2 \/ k % 4 = 3
    OBVIOUS
  <1>9. CASE k % 4 = 0
    <2>1. Turned(a, k) = a /\ Turned(b, k) = b
      BY <1>9, Turns
    <2> QED BY <2>1
  <1>10. CASE k % 4 = 1
    <2>1. Turned(a, k) = <<-r, p>> /\ Turned(b, k) = <<-t, s>>
      BY <1>3, <1>10, Turns
    <2> QED BY <1>7, <2>1
  <1>11. CASE k % 4 = 2
    <2>1. Turned(a, k) = <<-p, -r>> /\ Turned(b, k) = <<-s, -t>>
      BY <1>3, <1>11, Turns
    <2> QED BY <1>7, <2>1
  <1>12. CASE k % 4 = 3
    <2>1. Turned(a, k) = <<r, -p>> /\ Turned(b, k) = <<t, -s>>
      BY <1>3, <1>12, Turns
    <2> QED BY <1>7, <2>1
  <1> QED BY <1>8, <1>9, <1>10, <1>11, <1>12

\* A product with a power of i.
LEMMA TimesPower ==
    ASSUME NEW a \in Complex, NEW k \in Int
    PROVE  Times(a, PowerOfI(k)) = Turned(a, k) /\ PowerOfI(k) \in Complex
  <1>1. PICK p \in Int, r \in Int : a = <<p, r>>
    BY ComplexParts
  <1>2. a[1] = p /\ a[2] = r
    BY <1>1
  <1>3. One = <<1, 0>> /\ ImaginaryUnit = <<0, 1>> /\ Minus(One) = <<-1, -0>> /\ Minus(ImaginaryUnit) = <<-0, -1>>
    BY DEF One, ImaginaryUnit, Minus
  <1>4. /\ Times(a, <<1, 0>>) = <<p * 1 - r * 0, p * 0 + r * 1>>
        /\ Times(a, <<0, 1>>) = <<p * 0 - r * 1, p * 1 + r * 0>>
        /\ Times(a, <<-1, 0>>) = <<p * (-1) - r * 0, p * 0 + r * (-1)>>
        /\ Times(a, <<0, -1>>) = <<p * 0 - r * (-1), p * (-1) + r * 0>>
    BY <1>2 DEF Times
  <1>5. /\ p * 1 - r * 0 = p /\ p * 0 + r * 1 = r
        /\ p * 0 - r * 1 = -r /\ p * 1 + r * 0 = p
        /\ p * (-1) - r * 0 = -p /\ p * 0 + r * (-1) = -r
        /\ p * 0 - r * (-1) = r /\ p * (-1) + r * 0 = -p
    OBVIOUS
  <1>6. /\ Times(a, <<1, 0>>) = <<p, r>> /\ Times(a, <<0, 1>>) = <<-r, p>>
        /\ Times(a, <<-1, 0>>) = <<-p, -r>> /\ Times(a, <<0, -1>>) = <<r, -p>>
    BY <1>4, <1>5
  <1>7. Minus(One) = <<-1, 0>> /\ Minus(ImaginaryUnit) = <<0, -1>>
    BY <1>3, MinusZero
  <1>8. <<1, 0>> \in Complex /\ <<0, 1>> \in Complex /\ <<-1, 0>> \in Complex /\ <<0, -1>> \in Complex
    BY DEF Complex
  <1>9. k % 4 = 0 \/ k % 4 = 1 \/ k % 4 = 2 \/ k % 4 = 3
    OBVIOUS
  <1>10. CASE k % 4 = 0
    <2>1. PowerOfI(k) = <<1, 0>> /\ Turned(a, k) = a
      BY <1>3, <1>10, Turns DEF PowerOfI
    <2> QED BY <1>1, <1>6, <1>8, <2>1
  <1>11. CASE k % 4 = 1
    <2>1. PowerOfI(k) = <<0, 1>> /\ Turned(a, k) = <<-r, p>>
      BY <1>2, <1>3, <1>11, Turns DEF PowerOfI
    <2> QED BY <1>6, <1>8, <2>1
  <1>12. CASE k % 4 = 2
    <2>1. PowerOfI(k) = <<-1, 0>> /\ Turned(a, k) = <<-p, -r>>
      BY <1>2, <1>7, <1>12, Turns DEF PowerOfI
    <2> QED BY <1>6, <1>8, <2>1
  <1>13. CASE k % 4 = 3
    <2>1. PowerOfI(k) = <<0, -1>> /\ Turned(a, k) = <<r, -p>>
      BY <1>2, <1>7, <1>13, Turns DEF PowerOfI
    <2> QED BY <1>6, <1>8, <2>1
  <1> QED BY <1>9, <1>10, <1>11, <1>12, <1>13

\* The real part of a product turned.
LEMMA TurnedDot ==
    ASSUME NEW u \in Complex, NEW v \in Complex, NEW k \in Int
    PROVE  Times(u, Conjugate(v)) \in Complex /\ Turned(Times(u, Conjugate(v)), k)[1] = Dot(Turned(u, k), v)
  <1>1. PICK p \in Int, r \in Int : u = <<p, r>>
    BY ComplexParts
  <1>2. PICK s \in Int, t \in Int : v = <<s, t>>
    BY ComplexParts
  <1>3. u[1] = p /\ u[2] = r /\ v[1] = s /\ v[2] = t
    BY <1>1, <1>2
  <1> PICK w : w = Times(u, Conjugate(v))
    OBVIOUS
  <1>4. w = <<p * s - r * (-t), p * (-t) + r * s>>
    BY <1>3 DEF Times, Conjugate
  <1>5. /\ p * s \in Int /\ r * t \in Int /\ p * t \in Int /\ r * s \in Int
        /\ r * (-t) = -(r * t) /\ p * (-t) = -(p * t)
        /\ (-r) * s = -(r * s) /\ (-p) * s = -(p * s) /\ (-r) * t = -(r * t) /\ (-p) * t = -(p * t)
    OBVIOUS
  <1> DEFINE ps == p * s
             rt == r * t
             pt == p * t
             rs == r * s
  <1>6. /\ Dot(u, v) = ps + rt
        /\ Dot(<<-r, p>>, v) = (-rs) + pt
        /\ Dot(<<-p, -r>>, v) = (-ps) + (-rt)
        /\ Dot(<<r, -p>>, v) = rs + (-pt)
    BY <1>3, <1>5 DEF Dot
  <1>7. w = <<ps - (-rt), (-pt) + rs>> /\ ps \in Int /\ rt \in Int /\ pt \in Int /\ rs \in Int
    BY <1>4, <1>5
  <1> HIDE DEF ps, rt, pt, rs
  <1>8. w \in Complex /\ w[1] = ps + rt /\ w[2] = rs - pt
    BY <1>7 DEF Complex
  <1>9. /\ w[1] = Dot(u, v) /\ -w[2] = Dot(<<-r, p>>, v)
        /\ -w[1] = Dot(<<-p, -r>>, v) /\ w[2] = Dot(<<r, -p>>, v)
    BY <1>6, <1>7, <1>8
  <1>10. k % 4 = 0 \/ k % 4 = 1 \/ k % 4 = 2 \/ k % 4 = 3
    OBVIOUS
  <1>11. CASE k % 4 = 0
    <2>1. Turned(u, k) = u /\ Turned(w, k) = w
      BY <1>11, Turns
    <2> QED BY <1>8, <1>9, <2>1
  <1>12. CASE k % 4 = 1
    <2>1. Turned(u, k) = <<-r, p>> /\ Turned(w, k) = <<-w[2], w[1]>>
      BY <1>3, <1>12, Turns
    <2> QED BY <1>8, <1>9, <2>1
  <1>13. CASE k % 4 = 2
    <2>1. Turned(u, k) = <<-p, -r>> /\ Turned(w, k) = <<-w[1], -w[2]>>
      BY <1>3, <1>13, Turns
    <2> QED BY <1>8, <1>9, <2>1
  <1>14. CASE k % 4 = 3
    <2>1. Turned(u, k) = <<r, -p>> /\ Turned(w, k) = <<w[2], -w[1]>>
      BY <1>3, <1>14, Turns
    <2> QED BY <1>8, <1>9, <2>1
  <1> QED BY <1>10, <1>11, <1>12, <1>13, <1>14

\* The factor of a term is i to the exponent.
LEMMA FactorIs ==
    ASSUME NEW pauli \in Paulis, NEW b \in Basis
    PROVE  Times(BaseFactor(pauli), SignOf(pauli, b)) = PowerOfI(Exponent(pauli, b))
  <1> PICK k : k = pauli.phase + Cardinality(pauli.x \cap pauli.z)
    OBVIOUS
  <1> PICK n : n = Cardinality(b \cap pauli.z)
    OBVIOUS
  <1>1. k \in Nat /\ n \in Nat
    <2>1. pauli.x \cap pauli.z \in SUBSET Qubits /\ b \cap pauli.z \in SUBSET Qubits /\ pauli.phase \in Nat
      BY RowParts
    <2>2. Cardinality(pauli.x \cap pauli.z) \in Nat /\ Cardinality(b \cap pauli.z) \in Nat
      BY <2>1, QubitsFinite
    <2> QED BY <2>1, <2>2
  <1>2. BaseFactor(pauli) = PowerOfI(k) /\ Exponent(pauli, b) = k + 2 * n
    BY DEF BaseFactor, Exponent
  <1>3. SignOf(pauli, b) = PowerOfI(2 * n)
    <2>1. CASE n % 2 = 1
      <3>1. (2 * n) % 4 = 2
        BY <1>1, <2>1
      <3>2. SignOf(pauli, b) = Minus(One)
        BY <2>1 DEF SignOf
      <3> QED BY <3>1, <3>2 DEF PowerOfI
    <2>2. CASE n % 2 # 1
      <3>1. (2 * n) % 4 = 0
        BY <1>1, <2>2
      <3>2. SignOf(pauli, b) = One
        BY <2>2 DEF SignOf
      <3> QED BY <3>1, <3>2 DEF PowerOfI
    <2> QED BY <2>1, <2>2
  <1>4. ASSUME NEW j \in Int PROVE PowerOfI(j) = Turned(One, j) /\ PowerOfI(j) \in Complex
    <2>1. Times(One, PowerOfI(j)) = Turned(One, j) /\ PowerOfI(j) \in Complex
      BY OneIs, TimesPower
    <2>2. Times(One, PowerOfI(j)) = PowerOfI(j)
      BY <2>1, Entries
    <2> QED BY <2>1, <2>2
  <1>5. Times(PowerOfI(k), PowerOfI(2 * n)) = Turned(PowerOfI(k), 2 * n)
    BY <1>1, <1>4, TimesPower
  <1>6. Turned(Turned(One, k), 2 * n) = Turned(One, k + 2 * n)
    BY <1>1, OneIs, TurnedSum
  <1>7. k \in Int /\ k + 2 * n \in Int
    BY <1>1
  <1> QED BY <1>2, <1>3, <1>4, <1>5, <1>6, <1>7

\* The term of the expectation at c.
Term(g, psi) == [c \in Basis |-> Dot(Applied(g, psi, c), psi[c])]

\* The type of a term.
LEMMA TermType ==
    ASSUME NEW g \in Paulis, NEW psi \in [Basis -> Complex], NEW c \in Basis
    PROVE  /\ Applied(g, psi, c) \in Complex
           /\ Term(g, psi)[c] = Dot(Applied(g, psi, c), psi[c]) /\ Term(g, psi)[c] \in Int
  <1>1. SymDiff(c, g.x) \in Basis
    BY ExponentType
  <1>2. Exponent(g, SymDiff(c, g.x)) \in Int
    BY <1>1, ExponentType
  <1>3. psi[SymDiff(c, g.x)] \in Complex /\ psi[c] \in Complex
    BY <1>1
  <1>4. Applied(g, psi, c) \in Complex
    BY <1>2, <1>3, TurnedType DEF Applied
  <1>5. Dot(Applied(g, psi, c), psi[c]) \in Int
    BY <1>3, <1>4, DotFacts
  <1> QED BY <1>4, <1>5 DEF Term

\* The expectation is the sum of the terms.
LEMMA ExpectationIsSum ==
    ASSUME NEW pauli \in Paulis, NEW psi \in [Basis -> Complex]
    PROVE  DensityMatrixExpectation(psi, pauli) = SumFunctionOnSet(Term(pauli, psi), Basis)
  <1> DEFINE term(b) == Times(Times(psi[b], Conjugate(psi[SymDiff(b, pauli.x)])),
                              Times(BaseFactor(pauli), SignOf(pauli, b)))
             v == [b \in Basis |-> term(b)[1]]
  <1>1. DensityMatrixExpectation(psi, pauli) = SumFunctionOnSet(v, Basis)
    BY DEF DensityMatrixExpectation, SumFunction
  <1>2. ASSUME NEW b \in Basis PROVE v[b] = Term(pauli, psi)[SymDiff(b, pauli.x)]
    <2> PICK c : c = SymDiff(b, pauli.x)
      OBVIOUS
    <2>1. c \in Basis /\ Exponent(pauli, b) \in Int /\ SymDiff(c, pauli.x) = b
      BY ExponentType, SymDiffFacts
    <2>2. psi[b] \in Complex /\ psi[c] \in Complex
      BY <2>1
    <2> PICK w : w = Times(psi[b], Conjugate(psi[c]))
      OBVIOUS
    <2>3. w \in Complex /\ Turned(w, Exponent(pauli, b))[1] = Dot(Turned(psi[b], Exponent(pauli, b)), psi[c])
      BY <2>1, <2>2, TurnedDot
    <2>4. term(b) = Times(w, PowerOfI(Exponent(pauli, b)))
      BY FactorIs
    <2>5. term(b) = Turned(w, Exponent(pauli, b))
      BY <2>1, <2>3, <2>4, TimesPower
    <2>6. v[b] = term(b)[1]
      OBVIOUS
    <2>7. Term(pauli, psi)[c] = Dot(Turned(psi[b], Exponent(pauli, b)), psi[c])
      BY <2>1, TermType DEF Applied
    <2> HIDE DEF term, v
    <2> QED BY <2>3, <2>5, <2>6, <2>7
  <1> HIDE DEF v
  <1>3. pauli.x \in Basis
    BY RowParts DEF Basis
  <1>4. \A c \in Basis : Term(pauli, psi)[c] \in Int
    BY TermType
  <1>5. SumFunctionOnSet(v, Basis) = SumFunctionOnSet(Term(pauli, psi), Basis)
    <2> PICK f : f = Term(pauli, psi)
      OBVIOUS
    <2> QED BY <1>2, <1>3, <1>4, SumMoved
  <1> QED BY <1>1, <1>5

-----------------------------------------------------------------------------
(* pauli_expectation *)

\* What moving the basis state by y does to the exponent.
LEMMA ExponentMoved ==
    ASSUME NEW g \in Paulis, NEW c \in Basis, NEW y \in Basis
    PROVE  /\ Odd(y \cap g.z) => (Exponent(g, SymDiff(c, y)) - Exponent(g, c)) % 4 = 2
           /\ ~ Odd(y \cap g.z) => (Exponent(g, SymDiff(c, y)) - Exponent(g, c)) % 4 = 0
  <1> PICK l : l = g.phase + Cardinality(g.x \cap g.z)
    OBVIOUS
  <1> PICK m : m = Cardinality(SymDiff(c, y) \cap g.z)
    OBVIOUS
  <1> PICK n : n = Cardinality(c \cap g.z)
    OBVIOUS
  <1>1. IsFiniteSet(c \cap g.z) /\ IsFiniteSet(y \cap g.z) /\ l \in Nat /\ m \in Nat /\ n \in Nat
    <2>1. /\ g.x \cap g.z \in SUBSET Qubits /\ c \cap g.z \in SUBSET Qubits /\ y \cap g.z \in SUBSET Qubits
          /\ SymDiff(c, y) \cap g.z \in SUBSET Qubits /\ g.phase \in Nat
      BY RowParts
    <2>2. Cardinality(g.x \cap g.z) \in Nat
      BY <2>1, QubitsFinite
    <2> QED BY <2>1, <2>2, QubitsFinite
  <1>2. SymDiff(c, y) \cap g.z = SymDiff(c \cap g.z, y \cap g.z)
    BY DEF SymDiff
  <1>3. Odd(SymDiff(c \cap g.z, y \cap g.z)) <=> Xor(Odd(c \cap g.z), Odd(y \cap g.z))
    BY <1>1, ParityOfSymDiff
  <1>4. (m % 2 = 1) <=> Xor(n % 2 = 1, Odd(y \cap g.z))
    BY <1>2, <1>3 DEF Odd
  <1>5. Exponent(g, SymDiff(c, y)) = l + 2 * m /\ Exponent(g, c) = l + 2 * n
    BY DEF Exponent
  <1>6. CASE Odd(y \cap g.z)
    <2>1. (m % 2 = 1) <=> ~ (n % 2 = 1)
      BY <1>4, <1>6 DEF Xor
    <2>2. ((l + 2 * m) - (l + 2 * n)) % 4 = 2
      BY <1>1, <2>1
    <2> QED BY <1>5, <1>6, <2>2
  <1>7. CASE ~ Odd(y \cap g.z)
    <2>1. (m % 2 = 1) <=> (n % 2 = 1)
      BY <1>4, <1>7 DEF Xor
    <2>2. ((l + 2 * m) - (l + 2 * n)) % 4 = 0
      BY <1>1, <2>1
    <2> QED BY <1>5, <1>7, <2>2
  <1> QED BY <1>6, <1>7

\* A stabilizer that anticommutes with the Pauli string moves each term to its negation.
LEMMA AnticommutingTerms ==
    ASSUME NEW g \in Paulis, NEW s \in Paulis, NEW psi \in [Basis -> Complex], Fixes(s, psi),
           Anticommute(g, s), NEW c \in Basis
    PROVE  Term(g, psi)[SymDiff(c, s.x)] = -Term(g, psi)[c]
  <1> PICK a : a = SymDiff(c, g.x)
    OBVIOUS
  <1> PICK e : e = SymDiff(c, s.x)
    OBVIOUS
  <1> PICK f : f = SymDiff(a, s.x)
    OBVIOUS
  <1>1. g.x \in Basis /\ s.x \in Basis /\ g.z \in Basis /\ s.z \in Basis
    BY RowParts DEF Basis
  <1>2. a \in Basis /\ e \in Basis /\ f \in Basis
    BY <1>1, SymDiffInBasis
  <1>3. f = SymDiff(e, g.x)
    BY SymDiffFacts
  <1> DEFINE ga == Exponent(g, a)
             gf == Exponent(g, f)
             sa == Exponent(s, a)
             sc == Exponent(s, c)
  <1>4. ga \in Int /\ gf \in Int /\ sa \in Int /\ sc \in Int
    BY <1>2, ExponentType
  <1>5. /\ Odd(g.x \cap s.z) => (sa - sc) % 4 = 2
        /\ ~ Odd(g.x \cap s.z) => (sa - sc) % 4 = 0
    BY <1>1, ExponentMoved
  <1>6. /\ Odd(s.x \cap g.z) => (gf - ga) % 4 = 2
        /\ ~ Odd(s.x \cap g.z) => (gf - ga) % 4 = 0
    BY <1>1, <1>2, ExponentMoved
  <1>7. Odd(g.x \cap s.z) <=> ~ Odd(s.x \cap g.z)
    <2>1. Clash(g, s) = SymDiff(g.x \cap s.z, s.x \cap g.z)
      BY DEF Clash, SymDiff
    <2>2. g.x \cap s.z \in SUBSET Qubits /\ s.x \cap g.z \in SUBSET Qubits
      BY <1>1 DEF Basis
    <2>3. IsFiniteSet(g.x \cap s.z) /\ IsFiniteSet(s.x \cap g.z)
      BY <2>2, QubitsFinite
    <2>4. Odd(Clash(g, s)) <=> Xor(Odd(g.x \cap s.z), Odd(s.x \cap g.z))
      BY <2>1, <2>3, ParityOfSymDiff
    <2>5. Odd(Clash(g, s))
      BY DEF Anticommute, Odd
    <2> QED BY <2>4, <2>5 DEF Xor
  <1>8. psi[f] = Turned(psi[a], sa) /\ psi[e] = Turned(psi[c], sc)
    BY <1>2 DEF Fixes
  <1>9. psi[a] \in Complex /\ psi[c] \in Complex /\ psi[f] \in Complex
    BY <1>2
  <1>10. Applied(g, psi, c) = Turned(psi[a], ga) /\ Applied(g, psi, e) = Turned(psi[f], gf)
    BY <1>3 DEF Applied
  <1> HIDE DEF ga, gf, sa, sc
  <1>11. ((sa + gf) - ((ga + 2) + sc)) % 4 = 0
    <2> DEFINE u == sa - sc
               v == gf - ga
    <2>1. u \in Int /\ v \in Int /\ ((u % 4 = 2 /\ v % 4 = 0) \/ (u % 4 = 0 /\ v % 4 = 2))
      BY <1>4, <1>5, <1>6, <1>7
    <2>2. (sa + gf) - ((ga + 2) + sc) = (u + v) - 2
      BY <1>4
    <2> HIDE DEF u, v
    <2>3. ((u + v) - 2) % 4 = 0
      BY <2>1
    <2> QED BY <2>2, <2>3
  <1> PICK A : A = Turned(psi[a], ga)
    OBVIOUS
  <1>12. A \in Complex /\ Turned(A, 2) \in Complex
    BY <1>4, <1>9, TurnedType
  <1>13. Applied(g, psi, e) = Turned(Turned(A, 2), sc)
    <2>1. Turned(psi[f], gf) = Turned(psi[a], sa + gf)
      <3>1. Turned(Turned(psi[a], sa), gf) = Turned(psi[a], sa + gf)
        BY <1>4, <1>9, TurnedSum
      <3> QED BY <1>8, <3>1
    <2>2. sa + gf \in Int /\ (ga + 2) + sc \in Int /\ ga + 2 \in Int
      BY <1>4
    <2>3. Turned(psi[a], sa + gf) = Turned(psi[a], (ga + 2) + sc)
      BY <1>11, <2>2, TurnedSame
    <2>4. Turned(A, 2) = Turned(psi[a], ga + 2)
      BY <1>4, <1>9, TurnedSum
    <2>5. Turned(Turned(psi[a], ga + 2), sc) = Turned(psi[a], (ga + 2) + sc)
      <3> DEFINE p == psi[a]
                 j == ga + 2
      <3>1. p \in Complex /\ j \in Int /\ sc \in Int
        BY <1>4, <1>9, <2>2
      <3> HIDE DEF p, j
      <3>2. Turned(Turned(p, j), sc) = Turned(p, j + sc)
        BY <3>1, TurnedSum
      <3> QED BY <3>2 DEF p, j
    <2> QED BY <1>10, <2>1, <2>3, <2>4, <2>5
  <1>14. Dot(Turned(Turned(A, 2), sc), Turned(psi[c], sc)) = Dot(Turned(A, 2), psi[c])
    BY <1>4, <1>9, <1>12, DotTurned
  <1>15. Dot(Turned(A, 2), psi[c]) = -Dot(A, psi[c])
    BY <1>9, <1>12, DotFacts
  <1>16. Term(g, psi)[e] = Dot(Applied(g, psi, e), psi[e]) /\ Term(g, psi)[c] = Dot(A, psi[c])
    BY <1>2, <1>10, TermType
  <1> QED BY <1>8, <1>13, <1>14, <1>15, <1>16

\* A query without bits left multiplies every amplitude by its phase.
LEMMA TrivialSum ==
    ASSUME NEW psi \in [Basis -> Complex], NEW rest \in Paulis, rest.x = {}, rest.z = {}
    PROVE  SumFunctionOnSet(Term(rest, psi), Basis) = Answer(rest) * TotalWeight(psi)
  <1> DEFINE w == [c \in Basis |-> Weight(psi, c)]
             f == Term(rest, psi)
             t == TotalWeight(psi)
  <1>1. t = SumFunctionOnSet(w, Basis)
    BY DEF TotalWeight, SumFunction
  <1>2. \A c \in Basis : w[c] = SquaredNorm(psi[c]) /\ w[c] \in Int
    BY DotFacts DEF Weight
  <1>3. rest.phase \in 0 .. 3 /\ rest = [x |-> {}, z |-> {}, phase |-> rest.phase]
    BY DEF Paulis
  <1>4. ASSUME NEW c \in Basis PROVE f[c] = Dot(Turned(psi[c], rest.phase), psi[c])
    <2>1. SymDiff(c, rest.x) = c
      BY SymDiffFacts
    <2>2. Exponent(rest, c) = rest.phase
      <3>1. rest.x \cap rest.z = {} /\ c \cap rest.z = {}
        OBVIOUS
      <3>2. Exponent(rest, c) = rest.phase + 0 + 2 * 0
        BY <3>1, FS_EmptySet DEF Exponent
      <3> QED BY <1>3, <3>2
    <2>3. Applied(rest, psi, c) = Turned(psi[c], rest.phase)
      BY <2>1, <2>2 DEF Applied
    <2>4. f[c] = Dot(Applied(rest, psi, c), psi[c])
      BY TermType
    <2> QED BY <2>3, <2>4
  <1> HIDE DEF w, f
  <1>5. t \in Int
    BY <1>1, <1>2, BasisFinite, SumIsInteger
  <1>6. CASE rest.phase = 0
    <2>1. Answer(rest) = 1
      BY <1>3, <1>6 DEF Answer, Identity
    <2>2. \A c \in Basis : f[c] = w[c]
      BY <1>2, <1>4, <1>6, DotFacts
    <2>3. SumFunctionOnSet(f, Basis) = t
      BY <1>1, <2>2, BasisFinite, SumCongruent
    <2> HIDE DEF t
    <2>4. 1 * t = t
      BY <1>5
    <2> QED BY <2>1, <2>3, <2>4 DEF t, f
  <1>7. CASE rest.phase = 2
    <2>1. Answer(rest) = -1
      BY <1>3, <1>7 DEF Answer, Identity
    <2>2. \A c \in Basis : f[c] = -w[c]
      BY <1>2, <1>4, <1>7, DotFacts
    <2>3. SumFunctionOnSet(f, Basis) = -t
      BY <1>1, <1>2, <2>2, BasisFinite, SumNegated
    <2> HIDE DEF t
    <2>4. (-1) * t = -t
      BY <1>5
    <2> QED BY <2>1, <2>3, <2>4 DEF t, f
  <1>8. CASE rest.phase = 1 \/ rest.phase = 3
    <2>1. Answer(rest) = 0
      BY <1>3, <1>8 DEF Answer, Identity
    <2>2. \A c \in Basis : f[c] = 0
      BY <1>4, <1>8, DotFacts
    <2>3. SumFunctionOnSet(f, Basis) = 0
      BY <2>2, BasisFinite, SumOfZeros
    <2> HIDE DEF t
    <2>4. 0 * t = 0
      BY <1>5
    <2> QED BY <2>1, <2>3, <2>4 DEF t, f
  <1> QED BY <1>3, <1>6, <1>7, <1>8

\* pauli_expectation tells the expectation of every Pauli string.
LEMMA ExpectationIsExact ==
    ASSUME NEW T, NEW psi, Describes(T, psi), NEW pauli \in Paulis
    PROVE  PauliExpectation(T, pauli) * TotalWeight(psi) = DensityMatrixExpectation(psi, pauli)
  <1>1. psi \in [Basis -> Complex] /\ \A i \in Stabilizers : T[i] \in Paulis /\ Fixes(T[i], psi)
    BY IndicesOf DEF Describes, IsSymplectic, Stabilizes
  <1>2. PICK work \in Works :
            /\ Echelon(work, 2 * N) /\ Generates(T, psi, work.rows) /\ Stands(T, psi, pauli, work.query)
            /\ PauliExpectation(T, pauli) = Answer(work.query)
    BY EliminationEnds
  <1> PICK rest : rest = work.query
    OBVIOUS
  <1>3. rest \in Paulis
    BY WorkParts
  <1>4. DensityMatrixExpectation(psi, pauli) = SumFunctionOnSet(Term(pauli, psi), Basis)
    BY <1>1, ExpectationIsSum
  <1>5. CASE \A i \in Stabilizers : ~ Anticommute(pauli, T[i])
    <2>1. rest.x = {} /\ rest.z = {}
      <3>1. \A i \in Stabilizers : ~ Anticommute(work.query, T[i])
        BY <1>2, <1>5 DEF Stands
      <3> QED BY <1>2, <3>1, RestIsTrivial
    <2>2. Term(rest, psi) = Term(pauli, psi)
      <3>1. \A c \in Basis : Applied(rest, psi, c) = Applied(pauli, psi, c)
        BY <1>2 DEF Stands
      <3> QED BY <3>1 DEF Term
    <2>3. SumFunctionOnSet(Term(rest, psi), Basis) = Answer(rest) * TotalWeight(psi)
      BY <1>1, <1>3, <2>1, TrivialSum
    <2> QED BY <1>2, <1>4, <2>2, <2>3
  <1>6. ASSUME NEW i \in Stabilizers, Anticommute(pauli, T[i])
        PROVE  PauliExpectation(T, pauli) * TotalWeight(psi) = DensityMatrixExpectation(psi, pauli)
    <2> PICK s : s = T[i]
      OBVIOUS
    <2>1. s \in Paulis /\ Fixes(s, psi) /\ Anticommute(pauli, s) /\ s.x \in Basis
      <3>1. s \in Paulis /\ Fixes(s, psi) /\ Anticommute(pauli, s)
        BY <1>1, <1>6
      <3>2. s.x \in Basis
        BY <3>1, RowParts DEF Basis
      <3> QED BY <3>1, <3>2
    <2>2. ~ (rest.x = {} /\ rest.z = {})
      <3>1. Anticommute(rest, s)
        BY <1>2, <2>1 DEF Stands
      <3> SUFFICES ASSUME rest.x = {}, rest.z = {} PROVE FALSE
        OBVIOUS
      <3>2. Clash(rest, s) = {}
        BY DEF Clash, SymDiff
      <3> QED BY <3>1, <3>2, SmallSets DEF Anticommute, Odd
    <2>3. Answer(rest) = 0
      <3>1. rest # Identity /\ rest # [Identity EXCEPT !.phase = 2]
        BY <2>2 DEF Identity
      <3> QED BY <3>1 DEF Answer
    <2> PICK f : f = Term(pauli, psi)
      OBVIOUS
    <2>4. \A c \in Basis : f[c] \in Int /\ f[SymDiff(c, s.x)] = -f[c]
      BY <1>1, <2>1, TermType, AnticommutingTerms
    <2>5. SumFunctionOnSet(f, Basis) = 0
      BY <2>1, <2>4, SumCancels
    <2>6. TotalWeight(psi) \in Int
      <3> DEFINE w == [c \in Basis |-> Weight(psi, c)]
      <3>1. \A c \in Basis : w[c] \in Int
        BY <1>1, NormTurned DEF Weight
      <3>2. TotalWeight(psi) = SumFunctionOnSet(w, Basis)
        BY DEF TotalWeight, SumFunction
      <3> HIDE DEF w
      <3> QED BY <3>1, <3>2, BasisFinite, SumIsInteger
    <2>7. 0 * TotalWeight(psi) = 0
      BY <2>6
    <2> QED BY <1>2, <1>4, <2>3, <2>5, <2>7
  <1> QED BY <1>5, <1>6

\* probability_of and pauli_expectation are exact after any sequence of calls,
\* for any number of qubits, every outcome and every Pauli string: what they
\* compute from the tableau alone by forced measurements and by Gaussian
\* elimination is what the amplitudes of the statevector simulator say.
THEOREM QueriesExact ==
    ASSUME GatesAgree
    PROVE  Spec => []QueriesAreExact
  <1>1. Spec => []Described
    BY TableauDescribesAmplitudes
  <1>2. Described => QueriesAreExact
    <2> SUFFICES ASSUME Described PROVE QueriesAreExact
      OBVIOUS
    <2>1. Describes(tableau, amplitudes)
      BY DEF Described
    <2>2. ASSUME NEW b \in Basis
          PROVE  LET answer == ProbabilityOf(tableau, b)
                 IN  IF answer.possible
                     THEN answer.odds * Weight(amplitudes, b) = TotalWeight(amplitudes)
                     ELSE Weight(amplitudes, b) = 0
      BY <2>1, ProbabilityIsExact
    <2>3. ASSUME NEW pauli \in Paulis
          PROVE  PauliExpectation(tableau, pauli) * TotalWeight(amplitudes)
                   = DensityMatrixExpectation(amplitudes, pauli)
      BY <2>1, ExpectationIsExact
    <2> QED BY <2>2, <2>3 DEF QueriesAreExact
  <1> QED BY <1>1, <1>2, PTL

=============================================================================
