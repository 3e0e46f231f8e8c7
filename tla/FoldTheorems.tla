------------------------------ MODULE FoldTheorems ------------------------------
(***************************************************************************)
(* Lemmas about what is folded elsewhere: sums over finite sets            *)
(* (SumFunctionOnSet of module Functions), which count bytes, weights and  *)
(* shifts, and flattened sequences (FlattenSeq of module SequencesExt).    *)
(* Each induction is a least counterexample.                               *)
(***************************************************************************)
EXTENDS Integers, Sequences, FiniteSets, SequencesExt, FiniteSetTheorems, WellFoundedInduction, TLAPS

\* The element a sum takes out of a set next.
Pick(s) == CHOOSE x \in s : TRUE

\* The recursion behind a sum of w over S, for the subsets of size up to n.
Adds(iter, w, S, n) ==
    iter = [s \in {t \in SUBSET S : Cardinality(t) <= n} |->
                IF s = {} THEN 0 ELSE w[Pick(s)] + iter[s \ {Pick(s)}]]

\* The same for all subsets, as the fold is defined.
AddsAll(iter, w, S) ==
    iter = [s \in SUBSET S |-> IF s = {} THEN 0 ELSE w[Pick(s)] + iter[s \ {Pick(s)}]]

-----------------------------------------------------------------------------
\* A set of naturals that is not empty has a least element.
LEMMA LeastNatural ==
    ASSUME NEW T, T \subseteq Nat, T # {}
    PROVE  \E n \in T : \A m \in T : n <= m
<1>1. PICK n \in T : \A m \in T : ~ (<<m, n>> \in OpToRel(<, Nat))
  BY NatLessThanWellFounded, WFMin
<1>2. ASSUME NEW m \in T PROVE n <= m
  <2>1. <<m, n>> \in Nat \X Nat
    OBVIOUS
  <2>2. ~ (m < n)
    BY <1>1, <2>1 DEF OpToRel
  <2> QED BY <2>2
<1> QED BY <1>2

\* Whatever fails for some part of a finite set fails for a part all of whose
\* smaller parts it holds for.
LEMMA LeastPart ==
    ASSUME NEW S, IsFiniteSet(S), NEW Bad \in SUBSET SUBSET S, Bad # {}
    PROVE  \E T \in Bad : \A U \in Bad : Cardinality(T) <= Cardinality(U)
<1> DEFINE Sizes == {Cardinality(T) : T \in Bad}
<1>1. Sizes \subseteq Nat
  BY FS_Subset, FS_CardinalityType
<1>2. PICK n \in Sizes : \A m \in Sizes : n <= m
  <2> HIDE DEF Sizes
  <2>1. Sizes # {}
    BY DEF Sizes
  <2> QED BY <1>1, <2>1, LeastNatural
<1> QED BY <1>2

\* An element is picked from a set, and the rest is smaller.
LEMMA Picking ==
    ASSUME NEW S, IsFiniteSet(S), S # {}
    PROVE  /\ Pick(S) \in S
           /\ IsFiniteSet(S \ {Pick(S)})
           /\ Cardinality(S) \in Nat /\ Cardinality(S \ {Pick(S)}) = Cardinality(S) - 1
           /\ ~ (Cardinality(S) <= Cardinality(S \ {Pick(S)}))
<1>1. Pick(S) \in S
  BY DEF Pick
<1>2. /\ IsFiniteSet(S \ {Pick(S)})
      /\ Cardinality(S) \in Nat /\ Cardinality(S \ {Pick(S)}) = Cardinality(S) - 1
  BY <1>1, FS_RemoveElement, FS_CardinalityType
<1> QED BY <1>1, <1>2

\* The recursion has a solution for every size ...
LEMMA AddsExists ==
    ASSUME NEW w, NEW S, IsFiniteSet(S), NEW n \in Nat
    PROVE  \E iter : Adds(iter, w, S, n)
<1> DEFINE Bad == {m \in Nat : ~ \E iter : Adds(iter, w, S, m)}
<1>1. SUFFICES ASSUME Bad # {} PROVE FALSE
  OBVIOUS
<1>2. PICK m \in Bad : \A k \in Bad : m <= k
  <2> HIDE DEF Bad
  <2>1. Bad \subseteq Nat
    BY DEF Bad
  <2> QED BY <1>1, <2>1, LeastNatural
<1>3. ASSUME m = 0 PROVE FALSE
  <2> DEFINE iter == [s \in {t \in SUBSET S : Cardinality(t) <= 0} |-> 0]
  <2>1. \A s \in SUBSET S : Cardinality(s) <= 0 => s = {}
    BY FS_Subset, FS_CardinalityType, FS_EmptySet
  <2>2. Adds(iter, w, S, 0)
    BY <2>1 DEF Adds
  <2> QED BY <1>2, <1>3, <2>2
<1>4. ASSUME m # 0 PROVE FALSE
  <2>1. m - 1 \in Nat /\ m - 1 \notin Bad
    BY <1>2, <1>4
  <2>2. PICK old : Adds(old, w, S, m - 1)
    BY <2>1
  <2> DEFINE sized(k) == {t \in SUBSET S : Cardinality(t) <= k}
             rest(s) == s \ {Pick(s)}
             iter == [s \in sized(m) |-> IF s = {} THEN 0 ELSE w[Pick(s)] + old[rest(s)]]
  <2>3. ASSUME NEW s \in sized(m), s # {}
        PROVE  rest(s) \in sized(m - 1)
    <3>1. IsFiniteSet(s) /\ s \in SUBSET S /\ Cardinality(s) <= m
      BY FS_Subset
    <3>2. Cardinality(rest(s)) = Cardinality(s) - 1 /\ Cardinality(s) \in Nat
      BY <2>3, <3>1, Picking
    <3> QED BY <3>1, <3>2
  <2>4. ASSUME NEW t \in sized(m - 1) PROVE iter[t] = old[t]
    <3>1. Cardinality(t) \in Nat
      BY FS_Subset, FS_CardinalityType
    <3>2. t \in sized(m)
      BY <3>1
    <3>3. old[t] = IF t = {} THEN 0 ELSE w[Pick(t)] + old[rest(t)]
      BY <2>2 DEF Adds
    <3>4. iter[t] = IF t = {} THEN 0 ELSE w[Pick(t)] + old[rest(t)]
      BY <3>2
    <3> QED BY <3>3, <3>4
  <2>5. \A s \in sized(m) : iter[s] = IF s = {} THEN 0 ELSE w[Pick(s)] + iter[rest(s)]
    <3>1. SUFFICES ASSUME NEW s \in sized(m)
                   PROVE  iter[s] = IF s = {} THEN 0 ELSE w[Pick(s)] + iter[rest(s)]
      OBVIOUS
    <3>2. CASE s = {}
      BY <3>2
    <3>3. CASE s # {}
      <4>1. iter[s] = w[Pick(s)] + old[rest(s)]
        BY <3>3
      <4>2. iter[rest(s)] = old[rest(s)]
        BY <2>3, <2>4, <3>3
      <4> QED BY <3>3, <4>1, <4>2
    <3> QED BY <3>2, <3>3
  <2>6. iter = [s \in sized(m) |-> IF s = {} THEN 0 ELSE w[Pick(s)] + iter[rest(s)]]
    <3>1. iter = [s \in sized(m) |-> iter[s]]
      OBVIOUS
    <3> HIDE DEF iter, sized
    <3> QED BY <2>5, <3>1
  <2>7. Adds(iter, w, S, m)
    <3> HIDE DEF iter
    <3> QED BY <2>6 DEF Adds
  <2> QED BY <1>2, <2>7
<1> QED BY <1>3, <1>4

\* ... and so for all parts of the set.
LEMMA AddsAllExists ==
    ASSUME NEW w, NEW S, IsFiniteSet(S)
    PROVE  \E iter : AddsAll(iter, w, S)
<1>1. Cardinality(S) \in Nat
  BY FS_CardinalityType
<1>2. {t \in SUBSET S : Cardinality(t) <= Cardinality(S)} = SUBSET S
  BY FS_Subset
<1>3. PICK iter : Adds(iter, w, S, Cardinality(S))
  BY <1>1, AddsExists
<1>4. AddsAll(iter, w, S)
  BY <1>2, <1>3 DEF Adds, AddsAll
<1> QED BY <1>4

\* The sum of a set and of its parts, by one and the same recursion.
LEMMA SumsAdd ==
    ASSUME NEW w, NEW S, IsFiniteSet(S)
    PROVE  \E iter : AddsAll(iter, w, S) /\ SumFunctionOnSet(w, S) = iter[S]
<1>1. SumFunctionOnSet(w, S) = (CHOOSE iter : AddsAll(iter, w, S))[S]
  BY DEF SumFunctionOnSet, FoldFunctionOnSet, MapThenFoldSet, AddsAll, Pick
<1>2. AddsAll((CHOOSE iter : AddsAll(iter, w, S)), w, S)
  BY AddsAllExists
<1> QED BY <1>1, <1>2

\* The weights w and v agree on T.
SameWeights(w, v, T) == \A x \in T : w[x] = v[x]

\* Two recursions agree on the sets that are parts for both.
LEMMA AddsUnique ==
    ASSUME NEW w, NEW v, NEW S, IsFiniteSet(S), NEW T \in SUBSET S,
           SameWeights(w, v, T),
           NEW f, AddsAll(f, w, S), NEW g, AddsAll(g, v, T)
    PROVE  f[T] = g[T]
<1> DEFINE Bad == {U \in SUBSET T : f[U] # g[U]}
<1>1. SUFFICES ASSUME Bad # {} PROVE FALSE
  OBVIOUS
<1>2. PICK U \in Bad : \A V \in Bad : Cardinality(U) <= Cardinality(V)
  <2>1. IsFiniteSet(T)
    BY FS_Subset
  <2> HIDE DEF Bad
  <2>2. Bad \in SUBSET SUBSET T
    BY DEF Bad
  <2> QED BY <1>1, <2>1, <2>2, LeastPart
<1>3. U \in SUBSET T /\ IsFiniteSet(U) /\ f[U] # g[U]
  BY FS_Subset
<1>4. /\ f[U] = IF U = {} THEN 0 ELSE w[Pick(U)] + f[U \ {Pick(U)}]
      /\ g[U] = IF U = {} THEN 0 ELSE v[Pick(U)] + g[U \ {Pick(U)}]
  BY <1>3 DEF AddsAll
<1>5. U # {}
  BY <1>3, <1>4
<1>6. /\ Pick(U) \in U
      /\ ~ (Cardinality(U) <= Cardinality(U \ {Pick(U)}))
  BY <1>3, <1>5, Picking
<1>7. f[U \ {Pick(U)}] = g[U \ {Pick(U)}]
  BY <1>2, <1>3, <1>6
<1>8. w[Pick(U)] = v[Pick(U)]
  BY <1>3, <1>6 DEF SameWeights
<1> QED BY <1>3, <1>4, <1>5, <1>7, <1>8

-----------------------------------------------------------------------------
(* What is used elsewhere *)

\* The empty sum.
LEMMA SumEmpty == ASSUME NEW w PROVE SumFunctionOnSet(w, {}) = 0
<1>1. PICK iter : AddsAll(iter, w, {}) /\ SumFunctionOnSet(w, {}) = iter[{}]
  BY SumsAdd, FS_EmptySet
<1> QED BY <1>1 DEF AddsAll

\* A sum depends on the weights of its elements only.
LEMMA SumCongruent ==
    ASSUME NEW w, NEW v, NEW S, IsFiniteSet(S), \A x \in S : w[x] = v[x]
    PROVE  SumFunctionOnSet(w, S) = SumFunctionOnSet(v, S)
<1>1. PICK f : AddsAll(f, w, S) /\ SumFunctionOnSet(w, S) = f[S]
  BY SumsAdd
<1>2. PICK g : AddsAll(g, v, S) /\ SumFunctionOnSet(v, S) = g[S]
  BY SumsAdd
<1>3. S \in SUBSET S /\ SameWeights(w, v, S)
  BY DEF SameWeights
<1> QED BY <1>1, <1>2, <1>3, AddsUnique

\* One step of the recursion.
LEMMA SumPicks ==
    ASSUME NEW w, NEW S, IsFiniteSet(S), S # {}
    PROVE  SumFunctionOnSet(w, S) = w[Pick(S)] + SumFunctionOnSet(w, S \ {Pick(S)})
<1>1. PICK f : AddsAll(f, w, S) /\ SumFunctionOnSet(w, S) = f[S]
  BY SumsAdd
<1> DEFINE R == S \ {Pick(S)}
<1>2. IsFiniteSet(R) /\ R \in SUBSET S
  BY Picking
<1>3. PICK g : AddsAll(g, w, R) /\ SumFunctionOnSet(w, R) = g[R]
  <2> HIDE DEF R
  <2> QED BY <1>2, SumsAdd
<1>4. f[R] = g[R]
  <2> HIDE DEF R
  <2>1. SameWeights(w, w, R)
    BY DEF SameWeights
  <2> QED BY <1>1, <1>2, <1>3, <2>1, AddsUnique
<1>5. f[S] = w[Pick(S)] + f[R]
  BY <1>1 DEF AddsAll
<1> QED BY <1>1, <1>3, <1>4, <1>5

\* The sum of numbers of a kind is a number of that kind.
LEMMA SumIsNumber ==
    ASSUME NEW C \in {Nat, Int}, NEW w, NEW S, IsFiniteSet(S), \A x \in S : w[x] \in C
    PROVE  SumFunctionOnSet(w, S) \in C
<1> DEFINE Bad == {T \in SUBSET S : SumFunctionOnSet(w, T) \notin C}
<1>1. SUFFICES ASSUME Bad # {} PROVE FALSE
  OBVIOUS
<1>2. PICK T \in Bad : \A U \in Bad : Cardinality(T) <= Cardinality(U)
  <2> HIDE DEF Bad
  <2>1. Bad \in SUBSET SUBSET S
    BY DEF Bad
  <2> QED BY <1>1, <2>1, LeastPart
<1>3. T \in SUBSET S /\ IsFiniteSet(T) /\ SumFunctionOnSet(w, T) \notin C
  BY FS_Subset
<1>4. T # {}
  <2>1. 0 \in C
    OBVIOUS
  <2> QED BY <1>3, <2>1, SumEmpty
<1>5. /\ Pick(T) \in T
      /\ ~ (Cardinality(T) <= Cardinality(T \ {Pick(T)}))
  BY <1>3, <1>4, Picking
<1>6. SumFunctionOnSet(w, T \ {Pick(T)}) \in C
  BY <1>2, <1>3, <1>5
<1>7. SumFunctionOnSet(w, T) = w[Pick(T)] + SumFunctionOnSet(w, T \ {Pick(T)})
  BY <1>3, <1>4, SumPicks
<1>8. \A m, n \in C : m + n \in C
  OBVIOUS
<1> QED BY <1>3, <1>5, <1>6, <1>7, <1>8

\* Natural weights have a natural sum, integer weights an integer sum.
LEMMA SumIsNatural ==
    ASSUME NEW w, NEW S, IsFiniteSet(S), \A x \in S : w[x] \in Nat
    PROVE  SumFunctionOnSet(w, S) \in Nat
BY SumIsNumber

LEMMA SumIsInteger ==
    ASSUME NEW w, NEW S, IsFiniteSet(S), \A x \in S : w[x] \in Int
    PROVE  SumFunctionOnSet(w, S) \in Int
BY SumIsNumber

\* The order does not matter: any element can be taken out.
LEMMA SumTakesOut ==
    ASSUME NEW w, NEW S, IsFiniteSet(S), \A y \in S : w[y] \in Int, NEW x \in S
    PROVE  SumFunctionOnSet(w, S) = w[x] + SumFunctionOnSet(w, S \ {x})
<1> DEFINE Total(T) == SumFunctionOnSet(w, T)
           Bad == {T \in SUBSET S : \E y \in T : Total(T) # w[y] + Total(T \ {y})}
<1>1. SUFFICES ASSUME Bad # {} PROVE FALSE
  OBVIOUS
<1> HIDE DEF Total
<1>2. PICK T \in Bad : \A U \in Bad : Cardinality(T) <= Cardinality(U)
  <2> HIDE DEF Bad
  <2>1. Bad \in SUBSET SUBSET S
    BY DEF Bad
  <2> QED BY <1>1, <2>1, LeastPart
<1>3. T \in SUBSET S /\ IsFiniteSet(T)
  BY FS_Subset
<1>4. PICK y \in T : Total(T) # w[y] + Total(T \ {y})
  OBVIOUS
<1> DEFINE p == Pick(T)
<1>5. /\ p \in T
      /\ ~ (Cardinality(T) <= Cardinality(T \ {p}))
      /\ IsFiniteSet(T \ {p}) /\ Cardinality(T \ {p}) = Cardinality(T) - 1
  BY <1>3, Picking
<1>6. Total(T) = w[p] + Total(T \ {p})
  BY <1>3, SumPicks DEF Total
<1> HIDE DEF p
<1>7. p # y
  BY <1>4, <1>6
<1>8. Total(T \ {p}) = w[y] + Total((T \ {p}) \ {y})
  <2>1. T \ {p} \notin Bad
    BY <1>2, <1>5
  <2> QED BY <1>3, <1>7, <2>1
<1>9. Total(T \ {y}) = w[p] + Total((T \ {y}) \ {p})
  <2>1. Cardinality(T \ {y}) = Cardinality(T) - 1
    BY <1>3, FS_RemoveElement
  <2>2. T \ {y} \notin Bad
    BY <1>2, <1>5, <2>1
  <2> QED BY <1>3, <1>5, <1>7, <2>2
<1>10. (T \ {y}) \ {p} = (T \ {p}) \ {y}
  OBVIOUS
<1>11. Total((T \ {p}) \ {y}) \in Int
  <2>1. (T \ {p}) \ {y} \in SUBSET S /\ IsFiniteSet((T \ {p}) \ {y})
    BY <1>3, FS_Subset
  <2> QED BY <2>1, SumIsInteger DEF Total
<1>12. w[p] \in Int /\ w[y] \in Int
  BY <1>3, <1>5
<1> QED BY <1>4, <1>6, <1>8, <1>9, <1>10, <1>11, <1>12

\* The sums of two parts make the sum of the whole.
LEMMA SumSplits ==
    ASSUME NEW w, NEW S, IsFiniteSet(S), \A y \in S : w[y] \in Int, NEW R \in SUBSET S
    PROVE  SumFunctionOnSet(w, S) = SumFunctionOnSet(w, R) + SumFunctionOnSet(w, S \ R)
<1> DEFINE Total(T) == SumFunctionOnSet(w, T)
           Bad == {T \in SUBSET R : Total(S) # Total(T) + Total(S \ T)}
<1>1. \A T \in SUBSET S : Total(T) \in Int
  BY FS_Subset, SumIsInteger
<1>2. Total({}) = 0
  BY SumEmpty
<1>3. SUFFICES ASSUME Bad # {} PROVE FALSE
  OBVIOUS
<1>4. ASSUME NEW T \in SUBSET S, NEW y \in T PROVE Total(T) = w[y] + Total(T \ {y})
  BY SumTakesOut, FS_Subset
<1> HIDE DEF Total
<1>5. PICK T \in Bad : \A U \in Bad : Cardinality(T) <= Cardinality(U)
  <2>1. IsFiniteSet(R)
    BY FS_Subset
  <2> HIDE DEF Bad
  <2>2. Bad \in SUBSET SUBSET R
    BY DEF Bad
  <2> QED BY <1>3, <2>1, <2>2, LeastPart
<1>6. T \in SUBSET R /\ IsFiniteSet(T) /\ Total(S) # Total(T) + Total(S \ T)
  BY FS_Subset
<1>7. T # {}
  <2>1. S \ {} = S
    OBVIOUS
  <2> QED BY <1>1, <1>2, <1>6, <2>1
<1>8. PICK y : y \in T
  BY <1>7
<1>9. T \ {y} \notin Bad
  <2>1. Cardinality(T) \in Nat /\ Cardinality(T \ {y}) = Cardinality(T) - 1
    BY <1>6, <1>8, FS_RemoveElement, FS_CardinalityType
  <2> QED BY <1>5, <2>1
<1>10. Total(S) = Total(T \ {y}) + Total(S \ (T \ {y}))
  BY <1>6, <1>9
<1>11. Total(T) = w[y] + Total(T \ {y})
  BY <1>4, <1>6, <1>8
<1>12. Total(S \ (T \ {y})) = w[y] + Total(S \ T)
  <2>1. (S \ (T \ {y})) \ {y} = S \ T
    BY <1>8
  <2>2. S \ (T \ {y}) \in SUBSET S /\ y \in S \ (T \ {y})
    BY <1>6, <1>8
  <2> QED BY <1>4, <2>1, <2>2
<1>13. w[y] \in Int /\ Total(T \ {y}) \in Int /\ Total(S \ T) \in Int
  BY <1>1, <1>6, <1>8
<1> QED BY <1>6, <1>10, <1>11, <1>12, <1>13

\* A part sums up to no more than the whole.
LEMMA SumMonotone ==
    ASSUME NEW w, NEW S, IsFiniteSet(S), \A y \in S : w[y] \in Nat, NEW R \in SUBSET S
    PROVE  SumFunctionOnSet(w, R) <= SumFunctionOnSet(w, S)
<1>1. SumFunctionOnSet(w, R) \in Nat /\ SumFunctionOnSet(w, S \ R) \in Nat
  BY FS_Subset, SumIsNatural
<1> QED BY <1>1, SumSplits

\* A sum over an interval is one over a shorter one and its last weight.
LEMMA SumUpTo ==
    ASSUME NEW w, NEW n \in Nat \ {0}, \A x \in 1..n : w[x] \in Int
    PROVE  /\ SumFunctionOnSet(w, 1..n) = SumFunctionOnSet(w, 1..(n - 1)) + w[n]
           /\ SumFunctionOnSet(w, 1..(n - 1)) \in Int
<1>1. IsFiniteSet(1..n) /\ IsFiniteSet(1..(n - 1)) /\ n \in 1..n /\ (1..n) \ {n} = 1..(n - 1)
  BY FS_Interval
<1>2. SumFunctionOnSet(w, 1..n) = w[n] + SumFunctionOnSet(w, (1..n) \ {n})
  BY <1>1, SumTakesOut
<1>3. SumFunctionOnSet(w, 1..(n - 1)) \in Int
  <2>1. \A x \in 1..(n - 1) : w[x] \in Int
    OBVIOUS
  <2> QED BY <1>1, <2>1, SumIsInteger
<1>4. SumFunctionOnSet(w, 1..n) = w[n] + SumFunctionOnSet(w, 1..(n - 1))
  BY <1>1, <1>2, Zenon
<1>5. w[n] \in Int
  OBVIOUS
<1> QED BY <1>3, <1>4, <1>5

\* Moving a set of numbers along the line does not change its size.
LEMMA ShiftedSize ==
    ASSUME NEW S \in SUBSET Int, IsFiniteSet(S), NEW k \in Int,
           NEW T, T = {x + k : x \in S}
    PROVE  IsFiniteSet(T) /\ Cardinality(T) = Cardinality(S)
<1> DEFINE f == [x \in S |-> x + k]
<1>1. f \in [S -> T] /\ \A x, y \in S : f[x] = f[y] => x = y
  <2>1. \A x \in S : x + k \in T
    OBVIOUS
  <2>2. \A x, y \in S : x + k = y + k => x = y
    OBVIOUS
  <2> QED BY <2>1, <2>2
<1>2. \A t \in T : \E x \in S : f[x] = t
  OBVIOUS
<1>3. ExistsBijection(S, T)
  <2> HIDE DEF f
  <2>1. f \in Bijection(S, T)
    BY <1>1, <1>2 DEF Bijection, Injection, Surjection, IsInjective
  <2> QED BY <2>1 DEF ExistsBijection
<1> QED BY <1>3, FS_Bijection

\* The sizes of two parts that make up a set.
LEMMA SizeOfParts ==
    ASSUME NEW S, IsFiniteSet(S), NEW A, NEW B, S = A \cup B, A \cap B = {}
    PROVE  /\ IsFiniteSet(A) /\ IsFiniteSet(B)
           /\ Cardinality(S) = Cardinality(A) + Cardinality(B)
           /\ Cardinality(A) \in Nat /\ Cardinality(B) \in Nat
<1>1. IsFiniteSet(A) /\ IsFiniteSet(B)
  BY FS_Subset
<1>2. Cardinality(A \cup B) = Cardinality(A) + Cardinality(B) - Cardinality(A \cap B)
  BY <1>1, FS_Union
<1>3. Cardinality(A) \in Nat /\ Cardinality(B) \in Nat /\ Cardinality(A \cap B) = 0
  BY <1>1, FS_CardinalityType, FS_EmptySet
<1> QED BY <1>1, <1>2, <1>3

-----------------------------------------------------------------------------
(* Counting up, and flattened sequences *)

\* What holds at 0 and is passed on holds up to n.
LEMMA CountUp ==
    ASSUME NEW n \in Nat, NEW S, 0 \in S, \A i \in 1..n : i - 1 \in S => i \in S
    PROVE  \A i \in 0..n : i \in S
<1> DEFINE Bad == {i \in 0..n : i \notin S}
<1>1. SUFFICES ASSUME Bad # {} PROVE FALSE
  OBVIOUS
<1>2. PICK i \in Bad : \A j \in Bad : i <= j
  <2> HIDE DEF Bad
  <2>1. Bad \subseteq Nat
    BY DEF Bad
  <2> QED BY <1>1, <2>1, LeastNatural
<1>3. i \in 1..n /\ i - 1 \notin Bad /\ i - 1 \in 0..n
  BY <1>2
<1> QED BY <1>2, <1>3

\* The recursion of FlattenSeq.
Flattens(f, ss) == f = [i \in 1..Len(ss) |-> IF i = 1 THEN ss[i] ELSE f[i - 1] \o ss[i]]

\* The pieces joined so far, from none to all of them.
Joins(f, ss, n) == f[0] = <<>> /\ \A i \in 1..n : f[i] = f[i - 1] \o ss[i]

LEMMA JoinsExists ==
    ASSUME NEW T, NEW n \in Nat, NEW ss \in [1..n -> Seq(T)]
    PROVE  \E f \in [0..n -> Seq(T)] : Joins(f, ss, n)
<1> DEFINE S == {i \in 0..n : \E f \in [0..i -> Seq(T)] : Joins(f, ss, i)}
<1>1. 0 \in S
  <2> DEFINE f == [i \in 0..0 |-> <<>>]
  <2>1. f \in [0..0 -> Seq(T)] /\ Joins(f, ss, 0)
    BY DEF Joins
  <2> HIDE DEF f
  <2>2. \E g \in [0..0 -> Seq(T)] : Joins(g, ss, 0)
    BY <2>1
  <2> QED BY <2>2
<1>2. ASSUME NEW i \in 1..n, i - 1 \in S PROVE i \in S
  <2>1. PICK g \in [0..(i - 1) -> Seq(T)] : Joins(g, ss, i - 1)
    BY <1>2
  <2> DEFINE f == [j \in 0..i |-> IF j = i THEN g[i - 1] \o ss[i] ELSE g[j]]
  <2>2. f \in [0..i -> Seq(T)]
    BY <2>1
  <2>3. f[0] = <<>>
    BY <2>1 DEF Joins
  <2>4. ASSUME NEW j \in 1..i PROVE f[j] = f[j - 1] \o ss[j]
    <3>1. f[j - 1] = g[j - 1]
      OBVIOUS
    <3>2. CASE j = i
      <4>1. f[i] = g[i - 1] \o ss[i]
        OBVIOUS
      <4> QED BY <3>1, <3>2, <4>1
    <3>3. CASE j # i
      <4>1. j \in 1..(i - 1) /\ f[j] = g[j]
        BY <3>3
      <4> QED BY <2>1, <3>1, <4>1 DEF Joins
    <3> QED BY <3>2, <3>3
  <2>5. Joins(f, ss, i)
    <3> HIDE DEF f
    <3> QED BY <2>3, <2>4 DEF Joins
  <2> HIDE DEF f
  <2> QED BY <2>2, <2>5
<1> HIDE DEF S
<1>3. \A i \in 1..n : i - 1 \in S => i \in S
  BY <1>2
<1>4. \A i \in 0..n : i \in S
  BY <1>1, <1>3, CountUp
<1>5. n \in S
  BY <1>4
<1> QED BY <1>5 DEF S

\* FlattenSeq joins all pieces, one after the other.
LEMMA FlattenJoins ==
    ASSUME NEW T, NEW n \in Nat, NEW ss \in [1..n -> Seq(T)],
           NEW f \in [0..n -> Seq(T)], Joins(f, ss, n)
    PROVE  FlattenSeq(ss) = f[n] /\ FlattenSeq(ss) \in Seq(T)
<1>1. Len(ss) = n /\ ss \in Seq(Seq(T))
  OBVIOUS
<1>2. CASE n = 0
  BY <1>1, <1>2 DEF FlattenSeq, Joins
<1>3. CASE n # 0
  <2> DEFINE g == [i \in 1..n |-> f[i]]
  <2>1. \A i \in 1..n : g[i] = IF i = 1 THEN ss[i] ELSE g[i - 1] \o ss[i]
    <3>1. SUFFICES ASSUME NEW i \in 1..n
                   PROVE  g[i] = IF i = 1 THEN ss[i] ELSE g[i - 1] \o ss[i]
      OBVIOUS
    <3>2. CASE i = 1
      <4>1. ss[1] \in Seq(T) /\ f[1] = f[0] \o ss[1] /\ f[0] = <<>>
        <5>1. 1 \in 1..n /\ 1 - 1 = 0
          BY <3>2
        <5> QED BY <5>1 DEF Joins
      <4>2. f[1] = ss[1]
        BY <4>1
      <4> QED BY <3>2, <4>2
    <3>3. CASE i # 1
      <4>1. g[i] = f[i] /\ g[i - 1] = f[i - 1]
        BY <3>3
      <4>2. f[i] = f[i - 1] \o ss[i]
        BY DEF Joins
      <4> QED BY <3>3, <4>1, <4>2
    <3> QED BY <3>2, <3>3
  <2>2. Flattens(g, ss)
    <3>1. g = [i \in 1..n |-> g[i]]
      OBVIOUS
    <3> HIDE DEF g
    <3> QED BY <1>1, <2>1, <3>1 DEF Flattens
  <2> DEFINE h == CHOOSE x : Flattens(x, ss)
  <2>3. Flattens(h, ss)
    BY <2>2
  <2>4. FlattenSeq(ss) = h[n]
    BY <1>1, <1>3 DEF FlattenSeq, Flattens
  <2> DEFINE S == {i \in 0..n : i > 0 => h[i] = f[i]}
  <2>5. \A i \in 1..n : h[i] = IF i = 1 THEN ss[i] ELSE h[i - 1] \o ss[i]
    <3> HIDE DEF h
    <3> QED BY <1>1, <2>3 DEF Flattens
  <2>6. ASSUME NEW i \in 1..n, i - 1 \in S PROVE i \in S
    <3> HIDE DEF h
    <3>1. CASE i = 1
      <4>1. h[1] = ss[1] /\ g[1] = ss[1] /\ g[1] = f[1]
        <5> HIDE DEF g
        <5>1. 1 \in 1..n
          BY <3>1
        <5> QED BY <2>1, <2>5, <5>1 DEF g
      <4> QED BY <3>1, <4>1
    <3>2. CASE i # 1
      <4>1. h[i] = h[i - 1] \o ss[i] /\ f[i] = f[i - 1] \o ss[i]
        BY <2>5, <3>2 DEF Joins
      <4>2. h[i - 1] = f[i - 1]
        BY <2>6, <3>2
      <4>3. h[i] = f[i]
        BY <4>1, <4>2, Zenon
      <4> QED BY <4>3
    <3> QED BY <3>1, <3>2
  <2>7. n \in S
    <3>1. 0 \in S
      OBVIOUS
    <3> HIDE DEF S
    <3>2. \A i \in 1..n : i - 1 \in S => i \in S
      BY <2>6
    <3>3. \A i \in 0..n : i \in S
      BY <3>1, <3>2, CountUp
    <3> QED BY <3>3
  <2>8. h[n] = f[n]
    <3> HIDE DEF h
    <3> QED BY <1>3, <2>7
  <2> QED BY <2>4, <2>8
<1> QED BY <1>2, <1>3

=============================================================================
