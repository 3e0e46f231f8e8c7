---------------------------- MODULE RoutingProofs ----------------------------
(***************************************************************************)
(* What routing promises, for any program, device, layouts and limit:      *)
(* a routed block holds its operations once and in order, operations find  *)
(* their operands, bodies restore the layout they were entered with.  And  *)
(* what is promised once routing moved the wires: the outputs are found    *)
(* where the composed layout says.                                         *)
(*                                                                         *)
(* The frame being routed is good: its plan leads from the layout it was   *)
(* entered with to the one it is in, and covers what the graph of its      *)
(* block has released.  What is right of a plan that leads somewhere is    *)
(* then what the execution of the routed circuit rests on.                 *)
(***************************************************************************)
EXTENDS SabreRouting, VirtualPermutation, FoldTheorems, SequenceTheorems, TLAPS

-----------------------------------------------------------------------------
(* Sequences *)

(* A sequence of whatever it holds. *)
Sequence(s) == s \in Seq(Range(s))

(* A sequence over some set is one over what it holds, and the other way   *)
(* round.                                                                  *)
LEMMA SequenceOf ==
    ASSUME NEW S, NEW s \in Seq(S)
    PROVE  /\ Sequence(s) /\ Range(s) \subseteq S
           /\ Len(s) \in Nat /\ DOMAIN s = 1..Len(s)
           /\ \A i \in 1..Len(s) : s[i] \in S /\ s[i] \in Range(s)
<1>1. Range(s) \subseteq S
  BY DEF Range
<1>2. s \in Seq(Range(s))
  BY SeqOfRange
<1> QED BY <1>1, <1>2 DEF Sequence, Range

(* What a sequence is made of. *)
LEMMA SequenceFacts ==
    ASSUME NEW s, Sequence(s)
    PROVE  /\ Len(s) \in Nat /\ DOMAIN s = 1..Len(s)
           /\ \A i \in 1..Len(s) : s[i] \in Range(s)
           /\ \A x \in Range(s) : \E i \in 1..Len(s) : x = s[i]
BY DEF Sequence, Range

(* A function on 1..n is a sequence of length n. *)
LEMMA SequenceIntro ==
    ASSUME NEW n \in Nat, NEW s, DOMAIN s = 1..n, s = [i \in DOMAIN s |-> s[i]]
    PROVE  Sequence(s) /\ Len(s) = n
<1>1. s \in [1..n -> Range(s)]
  BY DEF Range
<1>2. s \in Seq(Range(s))
  <2> DEFINE T == Range(s)
  <2> HIDE DEF T
  <2>1. s \in [1..n -> T]
    BY <1>1 DEF T
  <2>2. s \in Seq(T)
    BY <2>1
  <2> QED BY <2>2 DEF T
<1>3. Len(s) = n
  BY <1>1
<1> QED BY <1>2, <1>3 DEF Sequence

(* The empty sequence is one. *)
LEMMA EmptySequence == Sequence(<<>>) /\ Len(<<>>) = 0 /\ Range(<<>>) = {} /\ DOMAIN (<<>>) = {}
<1>1. <<>> \in Seq(Range(<<>>))
  BY EmptySeq
<1>2. DOMAIN <<>> = {}
  OBVIOUS
<1> QED BY <1>1, <1>2 DEF Sequence, Range

(* What a concatenation holds, and where. *)
LEMMA JoinedSequence ==
    ASSUME NEW s, NEW t, Sequence(s), Sequence(t)
    PROVE  /\ Sequence(s \o t) /\ Len(s \o t) = Len(s) + Len(t)
           /\ \A i \in 1..Len(s) : (s \o t)[i] = s[i]
           /\ \A i \in 1..Len(t) : (s \o t)[Len(s) + i] = t[i]
           /\ \A i \in 1..Len(s \o t) :
                  \/ i \in 1..Len(s)
                  \/ i - Len(s) \in 1..Len(t) /\ (s \o t)[i] = t[i - Len(s)]
           /\ Range(s \o t) = Range(s) \cup Range(t)
<1> DEFINE S == Range(s) \cup Range(t)
<1>1. s \in Seq(S) /\ t \in Seq(S)
  BY SeqMonotonic DEF Sequence
<1> HIDE DEF S
<1>2. /\ s \o t \in Seq(S) /\ Len(s \o t) = Len(s) + Len(t)
      /\ \A i \in 1..Len(s) + Len(t) : (s \o t)[i] = IF i <= Len(s) THEN s[i] ELSE t[i - Len(s)]
  BY <1>1, ConcatProperties
<1>3. Sequence(s \o t)
  BY <1>2, SequenceOf
<1>4. Len(s) \in Nat /\ Len(t) \in Nat
  BY <1>1, LenProperties
<1>5. Range(s \o t) = Range(s) \cup Range(t)
  BY <1>1, RangeConcatenation
<1>6. \A i \in 1..Len(t) : Len(s) + i \in 1..Len(s) + Len(t) /\ ~ (Len(s) + i <= Len(s)) /\ (Len(s) + i) - Len(s) = i
  BY <1>4
<1>7. \A i \in 1..Len(s) : i \in 1..Len(s) + Len(t) /\ i <= Len(s)
  BY <1>4
<1>8. \A i \in 1..Len(s) + Len(t) : i \notin 1..Len(s) => ~ (i <= Len(s)) /\ i - Len(s) \in 1..Len(t)
  BY <1>4
<1>9. \A i \in 1..Len(t) : (s \o t)[Len(s) + i] = t[i]
  BY <1>2, <1>6
<1> QED BY <1>2, <1>3, <1>5, <1>7, <1>8, <1>9

(* What appending adds. *)
LEMMA AppendedSequence ==
    ASSUME NEW s, NEW x, Sequence(s)
    PROVE  /\ Sequence(Append(s, x)) /\ Len(Append(s, x)) = Len(s) + 1
           /\ \A i \in 1..Len(s) : Append(s, x)[i] = s[i]
           /\ Append(s, x)[Len(s) + 1] = x
           /\ Range(Append(s, x)) = Range(s) \cup {x}
           /\ Append(s, x) # <<>>
<1> DEFINE S == Range(s) \cup {x}
<1>1. s \in Seq(S) /\ x \in S
  BY SeqMonotonic DEF Sequence
<1> HIDE DEF S
<1>2. /\ Append(s, x) \in Seq(S) /\ Len(Append(s, x)) = Len(s) + 1
      /\ \A i \in 1..Len(s) : Append(s, x)[i] = s[i]
      /\ Append(s, x)[Len(s) + 1] = x
      /\ Append(s, x) # <<>>
  BY <1>1, AppendProperties
<1>3. Sequence(Append(s, x)) /\ DOMAIN Append(s, x) = 1..(Len(s) + 1)
  BY <1>2, SequenceOf
<1>4. Len(s) \in Nat /\ DOMAIN s = 1..Len(s)
  BY <1>1, LenProperties
<1>5. Range(Append(s, x)) = Range(s) \cup {x}
  <2>1. 1..(Len(s) + 1) = 1..Len(s) \cup {Len(s) + 1}
    BY <1>4
  <2> QED BY <1>2, <1>3, <1>4, <2>1 DEF Range
<1> QED BY <1>2, <1>3, <1>5

(* What the tail leaves. *)
LEMMA TailSequence ==
    ASSUME NEW s, Sequence(s), s # <<>>
    PROVE  /\ Sequence(Tail(s)) /\ Len(Tail(s)) = Len(s) - 1 /\ Len(s) \in Nat \ {0}
           /\ \A i \in 1..Len(Tail(s)) : Tail(s)[i] = s[i + 1]
           /\ Head(s) = s[1] /\ Head(s) \in Range(s)
           /\ Range(s) = Range(Tail(s)) \cup {Head(s)}
<1> DEFINE S == Range(s)
<1>1. s \in Seq(S)
  BY DEF Sequence
<1> HIDE DEF S
<1>2. /\ Head(s) \in S /\ Tail(s) \in Seq(S) /\ Len(Tail(s)) = Len(s)-1
      /\ \A i \in 1 .. Len(Tail(s)) : Tail(s)[i] = s[i+1]
  BY <1>1, HeadTailProperties
<1>3. Len(s) \in Nat \ {0} /\ DOMAIN s = 1..Len(s)
  BY <1>1, EmptySeq, LenProperties
<1>4. Sequence(Tail(s)) /\ DOMAIN Tail(s) = 1..Len(Tail(s))
  BY <1>2, SequenceOf
<1>5. Head(s) = s[1]
  BY <1>1, <1>3
<1>6. Range(s) = Range(Tail(s)) \cup {Head(s)}
  <2>1. 1..Len(s) = {1} \cup {i + 1 : i \in 1..(Len(s) - 1)}
    <3>1. \A j \in 1..Len(s) : j = 1 \/ (j - 1 \in 1..(Len(s) - 1) /\ j = (j - 1) + 1)
      BY <1>3
    <3>2. \A i \in 1..(Len(s) - 1) : i + 1 \in 1..Len(s)
      BY <1>3
    <3>3. 1 \in 1..Len(s)
      BY <1>3
    <3> QED BY <3>1, <3>2, <3>3
  <2>2. ASSUME NEW x \in Range(s) PROVE x \in Range(Tail(s)) \cup {Head(s)}
    <3>1. PICK j \in 1..Len(s) : x = s[j]
      BY <1>3 DEF Range
    <3>2. CASE j = 1
      BY <3>1, <3>2, <1>5
    <3>3. CASE j # 1
      <4>1. PICK i \in 1..(Len(s) - 1) : j = i + 1
        BY <2>1, <3>3
      <4>2. i \in DOMAIN Tail(s) /\ Tail(s)[i] = x
        BY <1>2, <1>4, <3>1, <4>1
      <4> QED BY <4>2 DEF Range
    <3> QED BY <3>2, <3>3
  <2>3. ASSUME NEW x \in Range(Tail(s)) PROVE x \in Range(s)
    <3>1. PICK i \in 1..(Len(s) - 1) : x = Tail(s)[i]
      BY <1>2, <1>4 DEF Range
    <3>2. i + 1 \in DOMAIN s /\ x = s[i + 1]
      BY <1>2, <1>3, <3>1
    <3> QED BY <3>2 DEF Range
  <2>4. Head(s) \in Range(s)
    BY <1>3, <1>5 DEF Range
  <2> QED BY <2>2, <2>3, <2>4
<1> QED BY <1>2, <1>3, <1>4, <1>5, <1>6 DEF S

-----------------------------------------------------------------------------
(* Sets listed as sequences *)

(* No element twice. *)
Distinct(s) == \A i, j \in 1..Len(s) : s[i] = s[j] => i = j

(* s lists S, each element once. *)
Lists(s, S) == Sequence(s) /\ Distinct(s) /\ Range(s) = S

(* An element of SetToSeqs lists its set, each member once. *)
LEMMA ListedSet ==
    ASSUME NEW S, IsFiniteSet(S), NEW s \in SetToSeqs(S)
    PROVE  Lists(s, S) /\ DOMAIN s = 1..Len(s)
<1> DEFINE n == Cardinality(S)
<1>1. n \in Nat
  BY FS_CardinalityType
<1>2. s \in [1..n -> S] /\ \A i, j \in 1..n : i # j => s[i] # s[j]
  BY DEF SetToSeqs
<1>3. s \in Injection(1..n, S)
  BY <1>2 DEF Injection, IsInjective
<1>4. Cardinality(1..n) = n
  <2> HIDE DEF n
  <2> QED BY <1>1, FS_Interval
<1>5. s \in Surjection(1..n, S)
  <2> HIDE DEF n
  <2>1. Cardinality(1..n) = Cardinality(S)
    BY <1>4 DEF n
  <2> QED BY <1>3, <2>1, FS_Injection
<1> HIDE DEF n
<1>6. s \in Seq(S) /\ Len(s) = n
  BY <1>1, <1>2
<1>7. Sequence(s)
  BY <1>6, SequenceOf
<1>8. Range(s) = S
  BY <1>2, <1>5 DEF Surjection, Range
<1> QED BY <1>2, <1>6, <1>7, <1>8 DEF Lists, Distinct

Upwards(s) == \A i, j \in DOMAIN s : i < j => s[i] < s[j]
Downwards(s) == \A i, j \in DOMAIN s : i < j => s[i] > s[j]

(* The part of S up to k. *)
Upto(S, k) == S \cap 1..k

(* One more number counts one more member, if it is one. *)
LEMMA UptoNext ==
    ASSUME NEW S, NEW k \in Nat \ {0}
    PROVE  /\ k \notin S => Upto(S, k) = Upto(S, k - 1)
           /\ k \in S => /\ Upto(S, k) = Upto(S, k - 1) \cup {k} /\ k \notin Upto(S, k - 1)
                         /\ Cardinality(Upto(S, k - 1)) \in Nat
                         /\ Cardinality(Upto(S, k)) = Cardinality(Upto(S, k - 1)) + 1
           /\ \A x \in Upto(S, k - 1) : x \in Nat /\ x < k
<1> DEFINE A == Upto(S, k - 1)
           B == Upto(S, k)
<1>1. B = IF k \in S THEN A \cup {k} ELSE A
  BY DEF Upto
<1>2. k \notin A /\ \A x \in A : x \in Nat /\ x < k
  BY DEF Upto
<1>3. IsFiniteSet(A)
  <2>1. IsFiniteSet(1..(k - 1)) /\ A \in SUBSET (1..(k - 1))
    BY FS_Interval DEF Upto
  <2> QED BY <2>1, FS_Subset
<1> HIDE DEF A, B
<1>4. Cardinality(A) \in Nat /\ Cardinality(A \cup {k}) = Cardinality(A) + 1
  BY <1>2, <1>3, FS_CardinalityType, FS_AddElement
<1>5. /\ k \notin S => B = A
      /\ k \in S => /\ B = A \cup {k} /\ k \notin A
                    /\ Cardinality(A) \in Nat
                    /\ Cardinality(B) = Cardinality(A) + 1
      /\ \A x \in A : x \in Nat /\ x < k
  BY <1>1, <1>2, <1>4
<1> QED BY <1>5 DEF A, B

(* A set of numbers can be listed upwards. *)
LEMMA UpwardsExists ==
    ASSUME NEW n \in Nat, NEW S \in SUBSET (1..n)
    PROVE  \E s \in SetToSeqs(S) : Upwards(s)
<1> DEFINE T == {k \in 0..n : \E s \in SetToSeqs(Upto(S, k)) : Upwards(s)}
<1>1. 0 \in T
  <2>1. Upto(S, 0) = {} /\ Cardinality({}) = 0
    BY FS_EmptySet DEF Upto
  <2>2. <<>> \in SetToSeqs({}) /\ Upwards(<<>>)
    BY <2>1 DEF SetToSeqs, Upwards
  <2> QED BY <2>1, <2>2
<1>2. ASSUME NEW k \in 1..n, k - 1 \in T PROVE k \in T
  <2> DEFINE A == Upto(S, k - 1)
             B == Upto(S, k)
  <2>1. PICK s \in SetToSeqs(A) : Upwards(s)
    BY <1>2
  <2>2. /\ k \notin S => B = A
        /\ k \in S => /\ B = A \cup {k} /\ k \notin A
                      /\ Cardinality(A) \in Nat /\ Cardinality(B) = Cardinality(A) + 1
        /\ \A x \in A : x \in Nat /\ x < k
    BY UptoNext
  <2>3. CASE k \notin S
    <3> HIDE DEF A, B
    <3>1. A = B
      BY <2>2, <2>3
    <3>2. \E z \in SetToSeqs(B) : Upwards(z)
      BY <2>1, <3>1
    <3> QED BY <3>2 DEF B
  <2>4. CASE k \in S
    <3> DEFINE c == Cardinality(A)
               t == [i \in 1..(c + 1) |-> IF i = c + 1 THEN k ELSE s[i]]
    <3> HIDE DEF A, B
    <3>1. c \in Nat /\ s \in [1..c -> A] /\ \A i, j \in 1..c : i # j => s[i] # s[j]
      BY <2>1, <2>2, <2>4 DEF SetToSeqs
    <3>2. \A i \in 1..c : s[i] \in A /\ s[i] \in Nat /\ s[i] < k
      BY <2>2, <3>1
    <3>3. Upwards(s) /\ DOMAIN s = 1..c
      BY <2>1, <3>1
    <3> HIDE DEF c
    <3>4. \A i \in 1..c : i \in 1..(c + 1) /\ i # c + 1 /\ t[i] = s[i]
      BY <3>1
    <3>5. c + 1 \in 1..(c + 1) /\ t[c + 1] = k
      BY <3>1
    <3>6. \A i \in 1..(c + 1) : i = c + 1 \/ i \in 1..c
      BY <3>1
    <3>7. t \in [1..(c + 1) -> B] /\ DOMAIN t = 1..(c + 1)
      BY <2>2, <2>4, <3>2, <3>4, <3>5, <3>6
    <3> HIDE DEF t
    <3>8. \A i, j \in 1..(c + 1) : i # j => t[i] # t[j]
      BY <3>1, <3>2, <3>4, <3>5, <3>6
    <3>9. Upwards(t)
      <4>1. ASSUME NEW i \in 1..(c + 1), NEW j \in 1..(c + 1), i < j PROVE t[i] < t[j]
        <5>1. i \in 1..c
          BY <3>1, <4>1
        <5>2. CASE j = c + 1
          BY <3>2, <3>4, <3>5, <5>1, <5>2
        <5>3. CASE j # c + 1
          <6>1. j \in 1..c
            BY <3>6, <5>3
          <6> QED BY <3>3, <3>4, <4>1, <5>1, <6>1 DEF Upwards
        <5> QED BY <5>2, <5>3
      <4> QED BY <3>7, <4>1 DEF Upwards
    <3>10. t \in SetToSeqs(B)
      <4>1. Cardinality(B) = c + 1
        BY <2>2, <2>4 DEF c
      <4> QED BY <3>7, <3>8, <4>1 DEF SetToSeqs
    <3> QED BY <3>9, <3>10 DEF B
  <2> QED BY <2>3, <2>4
<1> HIDE DEF T
<1>3. \A k \in 1..n : k - 1 \in T => k \in T
  BY <1>2
<1>4. \A k \in 0..n : k \in T
  BY <1>1, <1>3, CountUp
<1>5. Upto(S, n) = S
  BY DEF Upto
<1> QED BY <1>4, <1>5 DEF T

(* And downwards. *)
LEMMA DownwardsExists ==
    ASSUME NEW n \in Nat, NEW S \in SUBSET (1..n)
    PROVE  \E s \in SetToSeqs(S) : Downwards(s)
<1> DEFINE T == {k \in 0..n : \E s \in SetToSeqs(Upto(S, k)) : Downwards(s)}
<1>1. 0 \in T
  <2>1. Upto(S, 0) = {} /\ Cardinality({}) = 0
    BY FS_EmptySet DEF Upto
  <2>2. <<>> \in SetToSeqs({}) /\ Downwards(<<>>)
    BY <2>1 DEF SetToSeqs, Downwards
  <2> QED BY <2>1, <2>2
<1>2. ASSUME NEW k \in 1..n, k - 1 \in T PROVE k \in T
  <2> DEFINE A == Upto(S, k - 1)
             B == Upto(S, k)
  <2>1. PICK s \in SetToSeqs(A) : Downwards(s)
    BY <1>2
  <2>2. /\ k \notin S => B = A
        /\ k \in S => /\ B = A \cup {k} /\ k \notin A
                      /\ Cardinality(A) \in Nat /\ Cardinality(B) = Cardinality(A) + 1
        /\ \A x \in A : x \in Nat /\ x < k
    BY UptoNext
  <2>3. CASE k \notin S
    <3> HIDE DEF A, B
    <3>1. A = B
      BY <2>2, <2>3
    <3>2. \E z \in SetToSeqs(B) : Downwards(z)
      BY <2>1, <3>1
    <3> QED BY <3>2 DEF B
  <2>4. CASE k \in S
    <3> DEFINE c == Cardinality(A)
               t == [i \in 1..(c + 1) |-> IF i = 1 THEN k ELSE s[i - 1]]
    <3> HIDE DEF A, B
    <3>1. c \in Nat /\ s \in [1..c -> A] /\ \A i, j \in 1..c : i # j => s[i] # s[j]
      BY <2>1, <2>2, <2>4 DEF SetToSeqs
    <3>2. \A i \in 1..c : s[i] \in A /\ s[i] \in Nat /\ s[i] < k
      BY <2>2, <3>1
    <3>3. Downwards(s) /\ DOMAIN s = 1..c
      BY <2>1, <3>1
    <3> HIDE DEF c
    <3>4. \A i \in 2..(c + 1) : i \in 1..(c + 1) /\ i # 1 /\ i - 1 \in 1..c /\ t[i] = s[i - 1]
      BY <3>1
    <3>5. 1 \in 1..(c + 1) /\ t[1] = k
      BY <3>1
    <3>6. \A i \in 1..(c + 1) : i = 1 \/ i \in 2..(c + 1)
      BY <3>1
    <3>7. t \in [1..(c + 1) -> B] /\ DOMAIN t = 1..(c + 1)
      BY <2>2, <2>4, <3>2, <3>4, <3>5, <3>6
    <3> HIDE DEF t
    <3>8. \A i, j \in 1..(c + 1) : i # j => t[i] # t[j]
      <4>1. ASSUME NEW i \in 2..(c + 1), NEW j \in 2..(c + 1), i # j PROVE t[i] # t[j]
        <5>1. i - 1 # j - 1 /\ i - 1 \in 1..c /\ j - 1 \in 1..c
          BY <3>1, <3>4, <4>1
        <5> QED BY <3>1, <3>4, <5>1
      <4>2. ASSUME NEW i \in 2..(c + 1) PROVE t[i] # k
        BY <3>2, <3>4
      <4> QED BY <3>5, <3>6, <4>1, <4>2
    <3>9. Downwards(t)
      <4>1. ASSUME NEW i \in 1..(c + 1), NEW j \in 1..(c + 1), i < j PROVE t[i] > t[j]
        <5>1. j \in 2..(c + 1)
          BY <3>1, <4>1
        <5>2. CASE i = 1
          BY <3>2, <3>4, <3>5, <5>1, <5>2
        <5>3. CASE i # 1
          <6>1. i \in 2..(c + 1)
            BY <3>6, <5>3
          <6>2. i - 1 \in 1..c /\ j - 1 \in 1..c /\ i - 1 < j - 1
            BY <3>1, <3>4, <4>1, <5>1, <6>1
          <6>3. s[i - 1] > s[j - 1]
            BY <3>3, <6>2 DEF Downwards
          <6> QED BY <3>4, <5>1, <6>1, <6>3
        <5> QED BY <5>2, <5>3
      <4> QED BY <3>7, <4>1 DEF Downwards
    <3>10. t \in SetToSeqs(B)
      <4>1. Cardinality(B) = c + 1
        BY <2>2, <2>4 DEF c
      <4> QED BY <3>7, <3>8, <4>1 DEF SetToSeqs
    <3> QED BY <3>9, <3>10 DEF B
  <2> QED BY <2>3, <2>4
<1> HIDE DEF T
<1>3. \A k \in 1..n : k - 1 \in T => k \in T
  BY <1>2
<1>4. \A k \in 0..n : k \in T
  BY <1>1, <1>3, CountUp
<1>5. Upto(S, n) = S
  BY DEF Upto
<1> QED BY <1>4, <1>5 DEF T

(* Nodes in either order are listed each once. *)
LEMMA ListedInOrder ==
    ASSUME NEW n \in Nat, NEW S \in SUBSET (1..n)
    PROVE  Lists(Ascending(S), S) /\ Lists(Descending(S), S)
<1>1. IsFiniteSet(S)
  <2>1. IsFiniteSet(1..n)
    BY FS_Interval
  <2> QED BY <2>1, FS_Subset
<1>2. Ascending(S) \in SetToSeqs(S)
  BY UpwardsExists DEF Ascending, Upwards
<1>3. Descending(S) \in SetToSeqs(S)
  BY DownwardsExists DEF Descending, Downwards
<1> QED BY <1>1, <1>2, <1>3, ListedSet

-----------------------------------------------------------------------------
(* The graph of a block *)

OperationType ==
    [kind : {"gate", "store", "delay", "phase"} \cup Control \cup Transfers,
     wires : Seq(Logical), bodies : Seq(DOMAIN Program)]

NodeType ==
    [class : {"ControlFlow", "Synchronize", "Unary", "TwoQ"}, wires : Seq(Logical),
     ops : Seq(Nat), parents : SUBSET Nat]

DagType ==
    [initial : Seq(Nat), nodes : Seq(NodeType), barrier : Nat, wire : [Logical -> Nat]]

(* A node holds operations of one class on the same qubits, in their order. *)
Filed(node, ops, i) ==
    /\ node.ops # <<>> /\ Upwards(node.ops)
    /\ \A a \in Range(node.ops) :
          a \in 1..i /\ Class(ops[a]) = node.class /\ ops[a].wires = node.wires
    /\ node.class \notin {"Unary", "TwoQ"} => Len(node.ops) = 1

(* What the graph of the first i operations looks like. *)
Grown(dag, ops, i) ==
    /\ dag \in DagType
    /\ \A p \in 1..Len(dag.nodes) :
          dag.nodes[p].parents \subseteq 1..(p - 1) /\ Filed(dag.nodes[p], ops, i)
    /\ Range(dag.initial) \subseteq 1..i /\ Upwards(dag.initial)
    /\ dag.barrier \in 0..Len(dag.nodes)
    /\ \A w \in Logical : dag.wire[w] \in 0..Len(dag.nodes)

(* Each operation is in one place. *)
Filled(dag, i) ==
    /\ \A p, q \in 1..Len(dag.nodes) : p # q =>
          \A a \in Range(dag.nodes[p].ops) : a \notin Range(dag.nodes[q].ops)
    /\ \A p \in 1..Len(dag.nodes) : \A a \in Range(dag.initial) : a \notin Range(dag.nodes[p].ops)
    /\ \A a \in 1..i : a \in Range(dag.initial)
                       \/ \E p \in 1..Len(dag.nodes) : a \in Range(dag.nodes[p].ops)

(* S holds the parents of its nodes. *)
Ancestral(dag, S) == \A p \in 1..Len(dag.nodes) : p \in S => dag.nodes[p].parents \subseteq S

(* With a node, S holds those with what must come before it; so it does    *)
(* with what holds a qubit, and the barrier.                               *)
Ordered(dag, ops, S) ==
    /\ \A p, q \in 1..Len(dag.nodes) : \A a \in Range(dag.nodes[p].ops), b \in Range(dag.nodes[q].ops) :
          a < b /\ Precedes(ops[a], ops[b]) /\ q \in S => p \in S
    /\ \A p \in 1..Len(dag.nodes) : \A a \in Range(dag.nodes[p].ops) :
          IsBarrier(ops[a]) => dag.barrier # 0 /\ (dag.barrier \in S => p \in S)
    /\ \A p \in 1..Len(dag.nodes) : \A a \in Range(dag.nodes[p].ops) :
          \A w \in Range(ops[a].wires) :
          dag.wire[w] # 0 /\ (dag.wire[w] \in S => p \in S)
    /\ \A p \in 1..Len(dag.nodes) : \A a \in Range(dag.nodes[p].ops), b \in Range(dag.initial) :
          a < b => ~ Precedes(ops[a], ops[b])

(* The three ways an operation is added. *)
AddedFirst(dag, new, op, i) ==
    /\ Parents(dag, op) = {} /\ Class(op) = "Synchronize" /\ ~ IsBarrier(op)
    /\ new.initial = Append(dag.initial, i)
    /\ new.nodes = dag.nodes /\ new.barrier = dag.barrier /\ new.wire = dag.wire

AddedTo(p, dag, new, op, i) ==
    /\ Foldable(dag, op, p) /\ p \in 1..Len(dag.nodes)
    /\ new.initial = dag.initial /\ new.barrier = dag.barrier /\ new.wire = dag.wire
    /\ Len(new.nodes) = Len(dag.nodes)
    /\ \A q \in 1..Len(dag.nodes) : q # p => new.nodes[q] = dag.nodes[q]
    /\ new.nodes[p].ops = Append(dag.nodes[p].ops, i)
    /\ new.nodes[p].class = dag.nodes[p].class /\ new.nodes[p].wires = dag.nodes[p].wires
    /\ new.nodes[p].parents = dag.nodes[p].parents

AddedLast(dag, new, op, i) ==
    /\ new.initial = dag.initial
    /\ Len(new.nodes) = Len(dag.nodes) + 1
    /\ \A q \in 1..Len(dag.nodes) : new.nodes[q] = dag.nodes[q]
    /\ new.nodes[Len(dag.nodes) + 1] =
          [class |-> Class(op), wires |-> op.wires, ops |-> <<i>>, parents |-> Parents(dag, op)]
    /\ new.barrier = IF IsBarrier(op) THEN Len(dag.nodes) + 1 ELSE dag.barrier
    /\ new.wire = [w \in Logical |-> IF w \in Range(op.wires) THEN Len(dag.nodes) + 1
                                     ELSE dag.wire[w]]

(* The classes an operation may be filed under. *)
LEMMA ClassType ==
    ASSUME NEW op
    PROVE  Class(op) \in {"ControlFlow", "Synchronize", "Unary", "TwoQ"}
BY DEF Class

(* Parents are nodes; a qubit is held, and the barrier, by one. *)
LEMMA ParentsAre ==
    ASSUME NEW dag \in DagType, NEW op \in OperationType,
           dag.barrier \in 0..Len(dag.nodes),
           \A w \in Logical : dag.wire[w] \in 0..Len(dag.nodes)
    PROVE  /\ Parents(dag, op) \subseteq 1..Len(dag.nodes)
           /\ dag.barrier # 0 => dag.barrier \in Parents(dag, op)
           /\ \A w \in Logical : /\ dag.wire[w] # 0
                                 /\ w \in Range(op.wires) \/ IsBarrier(op)
                                 => dag.wire[w] \in Parents(dag, op)
<1>1. Range(op.wires) \subseteq Logical
  BY SequenceOf DEF OperationType
<1>2. Len(dag.nodes) \in Nat
  BY LenProperties DEF DagType
<1> QED BY <1>1, <1>2 DEF Parents

(* Adding an operation is one of three things: it is kept ahead of the     *)
(* graph, joins a node, or becomes one.                                    *)
LEMMA AddedIs ==
    ASSUME NEW dag \in DagType, NEW op \in OperationType, NEW i \in Nat,
           dag.barrier \in 0..Len(dag.nodes),
           \A w \in Logical : dag.wire[w] \in 0..Len(dag.nodes)
    PROVE  LET new == Added(dag, op, i)
           IN  /\ new \in DagType
               /\ \/ AddedFirst(dag, new, op, i)
                  \/ \E p \in 1..Len(dag.nodes) : AddedTo(p, dag, new, op, i)
                  \/ AddedLast(dag, new, op, i)
<1> DEFINE new == Added(dag, op, i)
           n == Len(dag.nodes)
           P == Parents(dag, op)
<1>1. n \in Nat /\ dag.nodes \in Seq(NodeType) /\ dag.initial \in Seq(Nat)
      /\ dag.wire \in [Logical -> Nat] /\ dag.barrier \in Nat /\ DOMAIN dag.nodes = 1..n
  BY LenProperties DEF DagType
<1>2. P \subseteq 1..n /\ P \subseteq Nat
  <2>1. P \subseteq 1..n
    BY ParentsAre
  <2> QED BY <1>1, <2>1
<1>3. Class(op) \in {"ControlFlow", "Synchronize", "Unary", "TwoQ"}
  BY ClassType
<1> HIDE DEF P
<1>4. CASE P = {} /\ Class(op) = "Synchronize" /\ ~ IsBarrier(op)
  <2>1. new = [dag EXCEPT !.initial = Append(@, i)]
    BY <1>4 DEF Added, P
  <2> HIDE DEF new, n
  <2>2. Append(dag.initial, i) \in Seq(Nat)
    BY <1>1
  <2>3. new \in DagType /\ new.initial = Append(dag.initial, i)
        /\ new.nodes = dag.nodes /\ new.barrier = dag.barrier /\ new.wire = dag.wire
    BY <2>1, <2>2 DEF DagType
  <2>4. AddedFirst(dag, new, op, i)
    BY <1>4, <2>3 DEF AddedFirst, P
  <2> QED BY <2>3, <2>4 DEF new
<1>5. CASE /\ ~ (P = {} /\ Class(op) = "Synchronize" /\ ~ IsBarrier(op))
           /\ \E p \in P : Foldable(dag, op, p)
  <2>1. PICK p \in P : Foldable(dag, op, p)
    BY <1>5
  <2>2. P = {p}
    BY <2>1 DEF Foldable, P
  <2> DEFINE nodes == [q \in 1..n |-> IF q \in P THEN Folded(dag.nodes[q], i) ELSE dag.nodes[q]]
  <2>3. new = [dag EXCEPT !.nodes = nodes]
    BY <1>1, <1>5 DEF Added, P
  <2>4. p \in 1..n
    BY <1>2
  <2> HIDE DEF new, n
  <2>5. dag.nodes[p] \in NodeType /\ \A q \in 1..n : dag.nodes[q] \in NodeType
    BY <1>1, <2>4 DEF n
  <2> DEFINE old == dag.nodes[p]
             folded == Folded(old, i)
  <2>6. /\ folded \in NodeType /\ folded.ops = Append(old.ops, i)
        /\ folded.class = old.class /\ folded.wires = old.wires /\ folded.parents = old.parents
    <3> HIDE DEF old
    <3>1. old \in NodeType
      BY <2>5 DEF old
    <3>2. Append(old.ops, i) \in Seq(Nat)
      BY <3>1 DEF NodeType
    <3> QED BY <3>1, <3>2 DEF Folded, NodeType
  <2>7. /\ DOMAIN nodes = 1..n /\ nodes[p] = folded
        /\ \A q \in 1..n : q # p => nodes[q] = dag.nodes[q]
    BY <2>2, <2>4
  <2> HIDE DEF folded, old
  <2>8. \A q \in 1..n : nodes[q] \in NodeType
    BY <2>5, <2>6, <2>7
  <2>9. nodes \in [1..n -> NodeType]
    BY <2>8
  <2> HIDE DEF nodes
  <2>10. nodes \in Seq(NodeType) /\ Len(nodes) = n
    BY <1>1, <2>9
  <2>11. /\ new \in DagType /\ new.nodes = nodes
         /\ new.initial = dag.initial /\ new.barrier = dag.barrier /\ new.wire = dag.wire
    BY <2>3, <2>10 DEF DagType
  <2>12. AddedTo(p, dag, new, op, i)
    BY <2>1, <2>4, <2>6, <2>7, <2>10, <2>11 DEF AddedTo, n, old
  <2> QED BY <2>4, <2>11, <2>12 DEF new, n
<1>6. CASE /\ ~ (P = {} /\ Class(op) = "Synchronize" /\ ~ IsBarrier(op))
           /\ ~ \E p \in P : Foldable(dag, op, p)
  <2> DEFINE node == [class |-> Class(op), wires |-> op.wires, ops |-> <<i>>, parents |-> P]
             wire == [w \in Logical |-> IF w \in Range(op.wires) THEN n + 1 ELSE dag.wire[w]]
             barrier == IF IsBarrier(op) THEN n + 1 ELSE dag.barrier
  <2>1. new = [dag EXCEPT !.nodes = Append(dag.nodes, node), !.wire = wire, !.barrier = barrier]
    BY <1>6 DEF Added, P
  <2> HIDE DEF new, n
  <2>2. node \in NodeType
    <3>1. op.wires \in Seq(Logical) /\ <<i>> \in Seq(Nat)
      BY DEF OperationType
    <3> QED BY <1>2, <1>3, <3>1 DEF NodeType
  <2>3. wire \in [Logical -> Nat] /\ barrier \in Nat
    BY <1>1
  <2>4. node = [class |-> Class(op), wires |-> op.wires, ops |-> <<i>>, parents |-> Parents(dag, op)]
    BY DEF P
  <2>5. /\ wire = [w \in Logical |-> IF w \in Range(op.wires) THEN Len(dag.nodes) + 1 ELSE dag.wire[w]]
        /\ barrier = IF IsBarrier(op) THEN Len(dag.nodes) + 1 ELSE dag.barrier
    BY DEF n
  <2> HIDE DEF node, wire, barrier
  <2> DEFINE nodes == Append(dag.nodes, node)
  <2>6. /\ nodes \in Seq(NodeType) /\ Len(nodes) = n + 1
        /\ \A q \in 1..n : nodes[q] = dag.nodes[q]
        /\ nodes[n + 1] = node
    BY <1>1, <2>2 DEF n
  <2> HIDE DEF nodes
  <2>7. /\ new \in DagType /\ new.nodes = nodes /\ new.wire = wire /\ new.barrier = barrier
        /\ new.initial = dag.initial
    <3>1. new = [dag EXCEPT !.nodes = nodes, !.wire = wire, !.barrier = barrier]
      BY <2>1 DEF nodes
    <3> QED BY <2>3, <2>6, <3>1 DEF DagType
  <2>8. AddedLast(dag, new, op, i)
    BY <2>4, <2>5, <2>6, <2>7 DEF AddedLast, n
  <2> QED BY <2>7, <2>8 DEF new
<1> QED BY <1>4, <1>5, <1>6

(* A larger number at the end. *)
LEMMA UpwardsAppended ==
    ASSUME NEW s, Sequence(s), Upwards(s), NEW i \in Nat, \A x \in Range(s) : x \in 1..(i - 1)
    PROVE  Upwards(Append(s, i))
<1>1. /\ Sequence(Append(s, i)) /\ Len(Append(s, i)) = Len(s) + 1
      /\ \A j \in 1..Len(s) : Append(s, i)[j] = s[j]
      /\ Append(s, i)[Len(s) + 1] = i
  BY AppendedSequence
<1>2. Len(s) \in Nat /\ DOMAIN s = 1..Len(s) /\ \A j \in 1..Len(s) : s[j] \in Range(s)
  BY SequenceFacts
<1>3. DOMAIN Append(s, i) = 1..(Len(s) + 1)
  BY <1>1, SequenceFacts
<1>4. ASSUME NEW j \in 1..(Len(s) + 1), NEW k \in 1..(Len(s) + 1), j < k
      PROVE  Append(s, i)[j] < Append(s, i)[k]
  <2>1. j \in 1..Len(s)
    BY <1>2, <1>4
  <2>2. CASE k = Len(s) + 1
    <3>1. s[j] \in 1..(i - 1)
      BY <1>2, <2>1
    <3> QED BY <1>1, <2>1, <2>2, <3>1
  <2>3. CASE k # Len(s) + 1
    <3>1. k \in 1..Len(s)
      BY <1>2, <2>3
    <3> QED BY <1>1, <1>2, <1>4, <2>1, <3>1 DEF Upwards
  <2> QED BY <2>2, <2>3
<1> QED BY <1>3, <1>4 DEF Upwards

(* An operation added to its node. *)
LEMMA FiledAppended ==
    ASSUME NEW ops, NEW i \in Nat \ {0}, NEW node \in NodeType, NEW new,
           Filed(node, ops, i - 1), new.ops = Append(node.ops, i),
           new.class = node.class, new.wires = node.wires,
           Class(ops[i]) = node.class, ops[i].wires = node.wires, node.class \in {"Unary", "TwoQ"}
    PROVE  Filed(new, ops, i) /\ Range(new.ops) = Range(node.ops) \cup {i}
<1>1. Sequence(node.ops)
  BY SequenceOf DEF NodeType
<1>2. /\ Range(new.ops) = Range(node.ops) \cup {i}
      /\ new.ops # <<>>
  BY <1>1, AppendedSequence
<1>3. Upwards(new.ops)
  BY <1>1, UpwardsAppended DEF Filed
<1>4. \A a \in Range(new.ops) : a \in 1..i /\ Class(ops[a]) = new.class /\ ops[a].wires = new.wires
  <2>1. \A a \in Range(node.ops) : a \in 1..i /\ Class(ops[a]) = node.class /\ ops[a].wires = node.wires
    BY DEF Filed
  <2> QED BY <1>2, <2>1
<1> QED BY <1>2, <1>3, <1>4 DEF Filed

(* What is filed stays so when operations follow. *)
LEMMA FiledLater ==
    ASSUME NEW ops, NEW i \in Nat \ {0}, NEW node, Filed(node, ops, i - 1)
    PROVE  Filed(node, ops, i)
BY DEF Filed

(* An operation on its own is filed. *)
LEMMA FiledAlone ==
    ASSUME NEW ops, NEW i \in Nat \ {0}, NEW node, node.ops = <<i>>,
           node.class = Class(ops[i]), node.wires = ops[i].wires
    PROVE  Filed(node, ops, i) /\ Range(node.ops) = {i}
<1>1. Range(<<i>>) = {i} /\ <<i>> # <<>> /\ Len(<<i>>) = 1
  BY DEF Range
<1>2. Upwards(<<i>>)
  BY DEF Upwards
<1> QED BY <1>1, <1>2 DEF Filed

(* Adding an operation keeps the shape of the graph. *)
LEMMA GrownFurther ==
    ASSUME NEW ops, NEW i \in Nat \ {0}, ops[i] \in OperationType,
           NEW dag, NEW new, Grown(dag, ops, i - 1), new \in DagType,
           \/ AddedFirst(dag, new, ops[i], i)
           \/ \E p \in 1..Len(dag.nodes) : AddedTo(p, dag, new, ops[i], i)
           \/ AddedLast(dag, new, ops[i], i)
    PROVE  Grown(new, ops, i)
<1> DEFINE n == Len(dag.nodes)
<1>1. /\ n \in Nat /\ dag \in DagType /\ dag.initial \in Seq(Nat)
      /\ \A p \in 1..n : dag.nodes[p] \in NodeType
      /\ Len(new.nodes) \in Nat
  BY SequenceOf DEF DagType, Grown
<1>2. CASE AddedFirst(dag, new, ops[i], i)
  <2>1. \A p \in 1..Len(new.nodes) :
            new.nodes[p].parents \subseteq 1..(p - 1) /\ Filed(new.nodes[p], ops, i)
    BY <1>2, FiledLater DEF Grown, AddedFirst
  <2>2. Sequence(dag.initial)
    BY <1>1, SequenceOf
  <2>3. Range(new.initial) = Range(dag.initial) \cup {i} /\ Upwards(new.initial)
    <3>1. Upwards(dag.initial) /\ \A x \in Range(dag.initial) : x \in 1..(i - 1)
      BY DEF Grown
    <3>2. Upwards(Append(dag.initial, i))
      BY <2>2, <3>1, UpwardsAppended
    <3>3. Range(Append(dag.initial, i)) = Range(dag.initial) \cup {i}
      BY <2>2, AppendedSequence
    <3> QED BY <1>2, <3>2, <3>3 DEF AddedFirst
  <2>4. Range(new.initial) \subseteq 1..i
    BY <2>3 DEF Grown
  <2>5. new.barrier \in 0..Len(new.nodes) /\ \A w \in Logical : new.wire[w] \in 0..Len(new.nodes)
    BY <1>2 DEF Grown, AddedFirst
  <2> QED BY <2>1, <2>3, <2>4, <2>5 DEF Grown
<1>3. CASE \E p \in 1..Len(dag.nodes) : AddedTo(p, dag, new, ops[i], i)
  <2>1. PICK p \in 1..Len(dag.nodes) : AddedTo(p, dag, new, ops[i], i)
    BY <1>3
  <2>2. ASSUME NEW q \in 1..n
        PROVE  new.nodes[q].parents \subseteq 1..(q - 1) /\ Filed(new.nodes[q], ops, i)
    <3>1. dag.nodes[q].parents \subseteq 1..(q - 1) /\ Filed(dag.nodes[q], ops, i - 1)
      BY DEF Grown
    <3>2. CASE q # p
      BY <2>1, <3>1, <3>2, FiledLater DEF AddedTo
    <3>3. CASE q = p
      <4>1. /\ new.nodes[p].ops = Append(dag.nodes[p].ops, i)
            /\ new.nodes[p].class = dag.nodes[p].class /\ new.nodes[p].wires = dag.nodes[p].wires
            /\ new.nodes[p].parents = dag.nodes[p].parents
            /\ Foldable(dag, ops[i], p)
        BY <2>1 DEF AddedTo
      <4>2. Class(ops[i]) = dag.nodes[p].class /\ ops[i].wires = dag.nodes[p].wires
            /\ dag.nodes[p].class \in {"Unary", "TwoQ"}
        BY <4>1 DEF Foldable
      <4>3. Filed(new.nodes[p], ops, i)
        BY <1>1, <3>1, <3>3, <4>1, <4>2, FiledAppended
      <4> QED BY <3>1, <3>3, <4>1, <4>3
    <3> QED BY <3>2, <3>3
  <2>3. Range(new.initial) \subseteq 1..i /\ Upwards(new.initial)
    <3>1. new.initial = dag.initial
      BY <2>1 DEF AddedTo
    <3>2. Range(dag.initial) \subseteq 1..(i - 1) /\ Upwards(dag.initial)
      BY DEF Grown
    <3> QED BY <3>1, <3>2
  <2>4. Len(new.nodes) = n /\ new.barrier = dag.barrier /\ new.wire = dag.wire
    BY <2>1 DEF AddedTo
  <2>5. new.barrier \in 0..Len(new.nodes) /\ \A w \in Logical : new.wire[w] \in 0..Len(new.nodes)
    BY <2>4 DEF Grown
  <2> QED BY <2>2, <2>3, <2>4, <2>5 DEF Grown
<1>4. CASE AddedLast(dag, new, ops[i], i)
  <2>1. /\ Len(new.nodes) = n + 1
        /\ \A q \in 1..n : new.nodes[q] = dag.nodes[q]
        /\ new.nodes[n + 1] =
              [class |-> Class(ops[i]), wires |-> ops[i].wires, ops |-> <<i>>,
               parents |-> Parents(dag, ops[i])]
        /\ new.initial = dag.initial
        /\ new.barrier = IF IsBarrier(ops[i]) THEN n + 1 ELSE dag.barrier
        /\ new.wire = [w \in Logical |-> IF w \in Range(ops[i].wires) THEN n + 1 ELSE dag.wire[w]]
    BY <1>4 DEF AddedLast
  <2>2. Parents(dag, ops[i]) \subseteq 1..n
    BY <1>1, ParentsAre DEF Grown
  <2>3. ASSUME NEW q \in 1..(n + 1)
        PROVE  new.nodes[q].parents \subseteq 1..(q - 1) /\ Filed(new.nodes[q], ops, i)
    <3>1. CASE q # n + 1
      <4>1. q \in 1..n
        <5>1. n \in Nat
          BY <1>1
        <5> HIDE DEF n
        <5> QED BY <3>1, <5>1
      <4>2. dag.nodes[q].parents \subseteq 1..(q - 1) /\ Filed(dag.nodes[q], ops, i - 1)
        BY <4>1 DEF Grown
      <4> QED BY <2>1, <4>1, <4>2, FiledLater
    <3>2. CASE q = n + 1
      <4>1. Filed(new.nodes[n + 1], ops, i)
        BY <2>1, FiledAlone
      <4>2. new.nodes[n + 1].parents = Parents(dag, ops[i])
        BY <2>1
      <4>3. (n + 1) - 1 = n
        BY <1>1
      <4> QED BY <2>2, <3>2, <4>1, <4>2, <4>3
    <3> QED BY <3>1, <3>2
  <2>4. Range(new.initial) \subseteq 1..i /\ Upwards(new.initial)
    <3>1. Range(dag.initial) \subseteq 1..(i - 1) /\ Upwards(dag.initial)
      BY DEF Grown
    <3> QED BY <2>1, <3>1
  <2>5. new.barrier \in 0..Len(new.nodes) /\ \A w \in Logical : new.wire[w] \in 0..Len(new.nodes)
    <3>1. dag.barrier \in 0..n /\ \A w \in Logical : dag.wire[w] \in 0..n
      BY DEF Grown
    <3> HIDE DEF n
    <3> QED BY <1>1, <2>1, <3>1
  <2> QED BY <2>1, <2>3, <2>4, <2>5 DEF Grown
<1> QED BY <1>2, <1>3, <1>4

(* What is held after an operation was kept ahead of the graph. *)
LEMMA HeldFirst ==
    ASSUME NEW ops, NEW i \in Nat \ {0}, NEW dag, NEW new, Grown(dag, ops, i - 1),
           AddedFirst(dag, new, ops[i], i)
    PROVE  /\ Range(new.initial) = Range(dag.initial) \cup {i}
           /\ new.nodes = dag.nodes
<1>1. dag.initial \in Seq(Nat)
  BY DEF Grown, DagType
<1>2. Range(Append(dag.initial, i)) = Range(dag.initial) \cup {i}
  BY <1>1, SequenceOf, AppendedSequence
<1> QED BY <1>2 DEF AddedFirst

HoldsAlso(p, dag, new, i) ==
    /\ Len(new.nodes) = Len(dag.nodes)
    /\ new.initial = dag.initial
    /\ Range(new.nodes[p].ops) = Range(dag.nodes[p].ops) \cup {i}
    /\ \A q \in 1..Len(dag.nodes) : q # p => new.nodes[q] = dag.nodes[q]
    /\ new.nodes[p].parents = dag.nodes[p].parents

(* What is held after it joined a node. *)
LEMMA HeldTo ==
    ASSUME NEW ops, NEW i \in Nat \ {0}, NEW dag, NEW new, NEW p \in 1..Len(dag.nodes),
           Grown(dag, ops, i - 1), AddedTo(p, dag, new, ops[i], i)
    PROVE  HoldsAlso(p, dag, new, i)
<1>2. dag.nodes[p].ops \in Seq(Nat)
  <2>1. dag.nodes[p] \in NodeType
    BY SequenceOf DEF Grown, DagType
  <2> QED BY <2>1 DEF NodeType
<1>3. Range(Append(dag.nodes[p].ops, i)) = Range(dag.nodes[p].ops) \cup {i}
  BY <1>2, SequenceOf, AppendedSequence
<1> QED BY <1>3 DEF AddedTo, HoldsAlso

HoldsLast(dag, new, op, i) ==
    /\ Len(new.nodes) = Len(dag.nodes) + 1 /\ Len(dag.nodes) \in Nat
    /\ new.initial = dag.initial
    /\ \A q \in 1..Len(dag.nodes) : new.nodes[q] = dag.nodes[q]
    /\ Range(new.nodes[Len(dag.nodes) + 1].ops) = {i}
    /\ new.nodes[Len(dag.nodes) + 1].parents = Parents(dag, op)

(* What is held after it became a node. *)
LEMMA HeldLast ==
    ASSUME NEW ops, NEW i \in Nat \ {0}, NEW dag, NEW new, Grown(dag, ops, i - 1),
           AddedLast(dag, new, ops[i], i)
    PROVE  HoldsLast(dag, new, ops[i], i)
<1>1. new.nodes[Len(dag.nodes) + 1].ops = <<i>>
  BY DEF AddedLast
<1>2. Range(<<i>>) = {i}
  BY DEF Range
<1>3. Len(dag.nodes) \in Nat
  BY SequenceOf DEF Grown, DagType
<1> QED BY <1>1, <1>2, <1>3 DEF AddedLast, HoldsLast

(* What is held so far is of lower number. *)
LEMMA OldOperations ==
    ASSUME NEW ops, NEW i \in Nat \ {0}, NEW dag, Grown(dag, ops, i - 1)
    PROVE  /\ \A a \in Range(dag.initial) : a \in 1..(i - 1) /\ a < i
           /\ \A p \in 1..Len(dag.nodes) : \A a \in Range(dag.nodes[p].ops) : a \in 1..(i - 1) /\ a < i
<1>1. \A a \in 1..(i - 1) : a < i
  OBVIOUS
<1> QED BY <1>1 DEF Grown, Filed

(* Adding an operation places it once, and loses none. *)
LEMMA FilledFurther ==
    ASSUME NEW ops, NEW i \in Nat \ {0},
           NEW dag, NEW new, Grown(dag, ops, i - 1), Filled(dag, i - 1),
           \/ AddedFirst(dag, new, ops[i], i)
           \/ \E p \in 1..Len(dag.nodes) : AddedTo(p, dag, new, ops[i], i)
           \/ AddedLast(dag, new, ops[i], i)
    PROVE  Filled(new, i)
<1>1. i \notin Range(dag.initial) /\ \A p \in 1..Len(dag.nodes) : i \notin Range(dag.nodes[p].ops)
  <2>1. ~ (i < i)
    OBVIOUS
  <2> QED BY <2>1, OldOperations
<1>2. \A a \in 1..i : a = i \/ a \in 1..(i - 1)
  OBVIOUS
<1>3. CASE AddedFirst(dag, new, ops[i], i)
  <2>1. Range(new.initial) = Range(dag.initial) \cup {i} /\ new.nodes = dag.nodes
    BY <1>3, HeldFirst
  <2> QED BY <1>1, <1>2, <2>1 DEF Filled
<1>4. CASE \E p \in 1..Len(dag.nodes) : AddedTo(p, dag, new, ops[i], i)
  <2>1. PICK p \in 1..Len(dag.nodes) : AddedTo(p, dag, new, ops[i], i)
    BY <1>4
  <2>2. /\ Len(new.nodes) = Len(dag.nodes)
        /\ new.initial = dag.initial
        /\ Range(new.nodes[p].ops) = Range(dag.nodes[p].ops) \cup {i}
        /\ \A q \in 1..Len(dag.nodes) : q # p => new.nodes[q] = dag.nodes[q]
    <3>1. HoldsAlso(p, dag, new, i)
      BY <2>1, HeldTo
    <3> QED BY <3>1 DEF HoldsAlso
  <2> /\ \A q, r \in 1..Len(dag.nodes) : q # r =>
          \A a \in Range(dag.nodes[q].ops) : a \notin Range(dag.nodes[r].ops)
      /\ \A q \in 1..Len(dag.nodes) : \A a \in Range(dag.initial) : a \notin Range(dag.nodes[q].ops)
      /\ \A a \in 1..(i - 1) : a \in Range(dag.initial)
                         \/ \E q \in 1..Len(dag.nodes) : a \in Range(dag.nodes[q].ops)
    BY DEF Filled
  <2>3. ASSUME NEW q \in 1..Len(dag.nodes), NEW r \in 1..Len(dag.nodes), q # r, NEW a \in Range(new.nodes[q].ops)
        PROVE  a \notin Range(new.nodes[r].ops)
    <3>1. CASE q = p
      <4>1. a \in Range(dag.nodes[q].ops) \/ a = i
        BY <2>2, <2>3, <3>1
      <4>2. new.nodes[r] = dag.nodes[r]
        BY <2>2, <2>3, <3>1
      <4> QED BY <1>1, <2>3, <4>1, <4>2
    <3>2. CASE r = p
      <4>1. q # p /\ new.nodes[q] = dag.nodes[q]
        BY <2>2, <2>3, <3>2
      <4>2. a \in Range(dag.nodes[q].ops)
        BY <2>3, <4>1
      <4>3. a # i
        BY <1>1, <4>2
      <4>4. a \notin Range(dag.nodes[p].ops)
        BY <4>1, <4>2
      <4> QED BY <2>2, <3>2, <4>3, <4>4
    <3> QED BY <1>1, <2>2, <2>3, <3>1, <3>2
  <2>4. ASSUME NEW q \in 1..Len(dag.nodes), NEW a \in Range(new.initial)
        PROVE  a \notin Range(new.nodes[q].ops)
    <3>1. a \in Range(dag.initial)
      BY <2>2, <2>4
    <3>2. CASE q = p
      <4>1. Range(new.nodes[q].ops) = Range(dag.nodes[q].ops) \cup {i}
        BY <2>2, <3>2
      <4>2. a # i
        BY <1>1, <3>1
      <4> QED BY <3>1, <4>1, <4>2
    <3>3. CASE q # p
      <4>1. new.nodes[q] = dag.nodes[q]
        BY <2>2, <3>3
      <4> QED BY <3>1, <4>1
    <3> QED BY <3>2, <3>3
  <2>5. ASSUME NEW a \in 1..i
        PROVE  a \in Range(new.initial) \/ \E q \in 1..Len(dag.nodes) : a \in Range(new.nodes[q].ops)
    BY <1>2, <2>2
  <2> QED BY <2>2, <2>3, <2>4, <2>5 DEF Filled
<1>5. CASE AddedLast(dag, new, ops[i], i)
  <2>1. /\ Len(new.nodes) = Len(dag.nodes) + 1 /\ Len(dag.nodes) \in Nat
        /\ new.initial = dag.initial
        /\ \A q \in 1..Len(dag.nodes) : new.nodes[q] = dag.nodes[q]
        /\ Range(new.nodes[Len(dag.nodes) + 1].ops) = {i}
    <3>1. HoldsLast(dag, new, ops[i], i)
      BY <1>5, HeldLast
    <3> QED BY <3>1 DEF HoldsLast
  <2> /\ \A q, r \in 1..Len(dag.nodes) : q # r =>
          \A a \in Range(dag.nodes[q].ops) : a \notin Range(dag.nodes[r].ops)
      /\ \A q \in 1..Len(dag.nodes) : \A a \in Range(dag.initial) : a \notin Range(dag.nodes[q].ops)
      /\ \A a \in 1..(i - 1) : a \in Range(dag.initial)
                         \/ \E q \in 1..Len(dag.nodes) : a \in Range(dag.nodes[q].ops)
    BY DEF Filled
  <2>2. \A q \in 1..(Len(dag.nodes) + 1) : q = Len(dag.nodes) + 1 \/ q \in 1..Len(dag.nodes)
    BY <2>1
  <2>3. ASSUME NEW q \in 1..(Len(dag.nodes) + 1), NEW r \in 1..(Len(dag.nodes) + 1), q # r, NEW a \in Range(new.nodes[q].ops)
        PROVE  a \notin Range(new.nodes[r].ops)
    <3>1. CASE q = Len(dag.nodes) + 1
      <4>1. a = i /\ r \in 1..Len(dag.nodes)
        BY <2>1, <2>2, <2>3, <3>1
      <4>2. new.nodes[r] = dag.nodes[r]
        BY <2>1, <4>1
      <4> QED BY <1>1, <4>1, <4>2
    <3>2. CASE r = Len(dag.nodes) + 1
      <4>1. q \in 1..Len(dag.nodes)
        BY <2>2, <2>3, <3>2
      <4>2. a \in Range(dag.nodes[q].ops)
        BY <2>1, <2>3, <4>1
      <4>3. Range(new.nodes[r].ops) = {i}
        BY <2>1, <3>2
      <4> QED BY <1>1, <4>1, <4>2, <4>3
    <3> QED BY <2>1, <2>2, <2>3, <3>1, <3>2
  <2>4. ASSUME NEW q \in 1..(Len(dag.nodes) + 1), NEW a \in Range(new.initial)
        PROVE  a \notin Range(new.nodes[q].ops)
    BY <1>1, <2>1, <2>2, <2>4
  <2>5. ASSUME NEW a \in 1..i
        PROVE  a \in Range(new.initial) \/ \E q \in 1..(Len(dag.nodes) + 1) : a \in Range(new.nodes[q].ops)
    <3>1. \A q \in 1..Len(dag.nodes) : q \in 1..(Len(dag.nodes) + 1)
      BY <2>1
    <3>2. Len(dag.nodes) + 1 \in 1..(Len(dag.nodes) + 1)
      BY <2>1
    <3> QED BY <1>2, <2>1, <3>1, <3>2
  <2> QED BY <2>1, <2>3, <2>4, <2>5 DEF Filled
<1> QED BY <1>3, <1>4, <1>5

(* What comes before a new operation is held by a parent, or held back by  *)
(* it.                                                                     *)
LEMMA HeldByParents ==
    ASSUME NEW ops, NEW i \in Nat \ {0}, ops[i] \in OperationType, NEW S,
           NEW dag, Grown(dag, ops, i - 1), Ordered(dag, ops, S),
           NEW p \in 1..Len(dag.nodes), NEW a \in Range(dag.nodes[p].ops),
           Precedes(ops[a], ops[i])
    PROVE  \E m \in Parents(dag, ops[i]) : m \in S => p \in S
<1>1. dag \in DagType /\ dag.barrier \in 0..Len(dag.nodes)
      /\ \A w \in Logical : dag.wire[w] \in 0..Len(dag.nodes)
  BY DEF Grown
<1>2. /\ dag.barrier # 0 => dag.barrier \in Parents(dag, ops[i])
      /\ \A w \in Logical : /\ dag.wire[w] # 0
                            /\ w \in Range(ops[i].wires) \/ IsBarrier(ops[i])
                            => dag.wire[w] \in Parents(dag, ops[i])
  BY <1>1, ParentsAre
<1>3. ops[a].wires \in Seq(Logical)
  <2>1. dag.nodes[p] \in NodeType
    BY <1>1, SequenceOf DEF DagType
  <2>2. ops[a].wires = dag.nodes[p].wires
    BY DEF Grown, Filed
  <2> QED BY <2>1, <2>2 DEF NodeType
<1>4. Range(ops[a].wires) \subseteq Logical
  BY <1>3, SequenceOf
<1>5. CASE IsBarrier(ops[a])
  <2>1. dag.barrier # 0 /\ (dag.barrier \in S => p \in S)
    BY <1>5 DEF Ordered
  <2> QED BY <1>2, <2>1
<1>6. CASE IsBarrier(ops[i]) /\ ops[a].wires # <<>>
  <2>1. PICK w \in Range(ops[a].wires) : TRUE
    <3>1. Head(ops[a].wires) \in Range(ops[a].wires)
      <4>1. Sequence(ops[a].wires)
        BY <1>3, SequenceOf
      <4> QED BY <1>6, <4>1, TailSequence
    <3> QED BY <3>1
  <2>2. dag.wire[w] # 0 /\ (dag.wire[w] \in S => p \in S)
    BY DEF Ordered
  <2> QED BY <1>2, <1>4, <1>6, <2>2
<1>7. CASE Range(ops[a].wires) \cap Range(ops[i].wires) # {}
  <2>1. PICK w \in Range(ops[a].wires) : w \in Range(ops[i].wires)
    BY <1>7
  <2>2. dag.wire[w] # 0 /\ (dag.wire[w] \in S => p \in S)
    BY DEF Ordered
  <2> QED BY <1>2, <1>4, <2>1, <2>2
<1> QED BY <1>5, <1>6, <1>7 DEF Precedes

(* Nodes closed under parents were so before the last addition. *)
LEMMA AncestralBefore ==
    ASSUME NEW ops, NEW i \in Nat \ {0},
           NEW dag, NEW new, NEW S, Grown(dag, ops, i - 1),
           \/ AddedFirst(dag, new, ops[i], i)
           \/ \E p \in 1..Len(dag.nodes) : AddedTo(p, dag, new, ops[i], i)
           \/ AddedLast(dag, new, ops[i], i),
           Ancestral(new, S)
    PROVE  Ancestral(dag, S)
<1>1. CASE AddedFirst(dag, new, ops[i], i)
  BY <1>1 DEF AddedFirst, Ancestral
<1>2. CASE \E p \in 1..Len(dag.nodes) : AddedTo(p, dag, new, ops[i], i)
  <2>1. PICK p \in 1..Len(dag.nodes) : AddedTo(p, dag, new, ops[i], i)
    BY <1>2
  <2>2. HoldsAlso(p, dag, new, i)
    BY <2>1, HeldTo
  <2>3. ASSUME NEW q \in 1..Len(dag.nodes), q \in S PROVE dag.nodes[q].parents \subseteq S
    <3>1. new.nodes[q].parents = dag.nodes[q].parents /\ Len(new.nodes) = Len(dag.nodes)
      BY <2>2 DEF HoldsAlso
    <3> QED BY <2>3, <3>1 DEF Ancestral
  <2> QED BY <2>3 DEF Ancestral
<1>3. CASE AddedLast(dag, new, ops[i], i)
  <2>1. HoldsLast(dag, new, ops[i], i)
    BY <1>3, HeldLast
  <2>2. ASSUME NEW q \in 1..Len(dag.nodes), q \in S PROVE dag.nodes[q].parents \subseteq S
    <3>1. new.nodes[q] = dag.nodes[q] /\ q \in 1..Len(new.nodes)
      BY <2>1 DEF HoldsLast
    <3> QED BY <2>2, <3>1 DEF Ancestral
  <2> QED BY <2>2 DEF Ancestral
<1> QED BY <1>1, <1>2, <1>3

(* With an operation emitted first. *)
LEMMA OrderedFirst ==
    ASSUME NEW ops, NEW i \in Nat \ {0}, ops[i] \in OperationType, NEW S,
           NEW dag, NEW new, Grown(dag, ops, i - 1), Ordered(dag, ops, S),
           AddedFirst(dag, new, ops[i], i)
    PROVE  Ordered(new, ops, S)
<1>1. Range(new.initial) = Range(dag.initial) \cup {i} /\ new.nodes = dag.nodes
  BY HeldFirst
<1>2. /\ Parents(dag, ops[i]) = {}
      /\ new.nodes = dag.nodes /\ new.barrier = dag.barrier /\ new.wire = dag.wire
  BY DEF AddedFirst
<1>3. ASSUME NEW p \in 1..Len(dag.nodes), NEW a \in Range(dag.nodes[p].ops), Precedes(ops[a], ops[i])
      PROVE  FALSE
  BY <1>2, <1>3, HeldByParents
<1>4. \A p \in 1..Len(new.nodes) : \A a \in Range(new.nodes[p].ops), b \in Range(new.initial) :
          a < b => ~ Precedes(ops[a], ops[b])
  <2>1. \A p \in 1..Len(dag.nodes) : \A a \in Range(dag.nodes[p].ops), b \in Range(dag.initial) :
            a < b => ~ Precedes(ops[a], ops[b])
    BY DEF Ordered
  <2> QED BY <1>1, <1>2, <1>3, <2>1
<1> QED BY <1>2, <1>4 DEF Ordered

(* With an operation added to a node. *)
LEMMA OrderedTo ==
    ASSUME NEW ops, NEW i \in Nat \ {0}, ops[i] \in OperationType, NEW S,
           NEW dag, NEW new, Grown(dag, ops, i - 1), Ordered(dag, ops, S),
           NEW p \in 1..Len(dag.nodes), AddedTo(p, dag, new, ops[i], i)
    PROVE  Ordered(new, ops, S)
<1>1. HoldsAlso(p, dag, new, i)
  BY HeldTo
<1>2. /\ new.barrier = dag.barrier /\ new.wire = dag.wire /\ new.initial = dag.initial
      /\ Parents(dag, ops[i]) = {p} /\ Class(ops[i]) \in {"Unary", "TwoQ"}
      /\ dag.nodes[p].wires = ops[i].wires
  BY DEF AddedTo, Foldable
<1>3. ~ IsBarrier(ops[i])
  BY <1>2 DEF Class, IsBarrier, Control, Transfers
<1>4. /\ \A a \in Range(dag.initial) : a \in 1..(i - 1) /\ a < i
      /\ \A q \in 1..Len(dag.nodes) : \A a \in Range(dag.nodes[q].ops) : a \in 1..(i - 1) /\ a < i
  BY OldOperations
<1>5. \A q \in 1..Len(dag.nodes) : \A a \in Range(new.nodes[q].ops) :
          a \in Range(dag.nodes[q].ops) \/ (a = i /\ q = p)
  <2>1. Range(new.nodes[p].ops) = Range(dag.nodes[p].ops) \cup {i}
        /\ \A q \in 1..Len(dag.nodes) : q # p => new.nodes[q] = dag.nodes[q]
    BY <1>1 DEF HoldsAlso
  <2>2. ASSUME NEW q \in 1..Len(dag.nodes), NEW a \in Range(new.nodes[q].ops)
        PROVE  a \in Range(dag.nodes[q].ops) \/ (a = i /\ q = p)
    <3>1. CASE q = p
      BY <2>1, <2>2, <3>1
    <3>2. CASE q # p
      <4>1. new.nodes[q] = dag.nodes[q]
        BY <2>1, <3>2
      <4>2. Range(new.nodes[q].ops) = Range(dag.nodes[q].ops)
        BY <4>1, Zenon
      <4> QED BY <2>2, <4>2
    <3> QED BY <3>1, <3>2
  <2> QED BY <2>2
<1>6. Len(new.nodes) = Len(dag.nodes)
  BY <1>1 DEF HoldsAlso
<1>7. ASSUME NEW q \in 1..Len(dag.nodes), NEW r \in 1..Len(dag.nodes),
             NEW a \in Range(new.nodes[q].ops), NEW b \in Range(new.nodes[r].ops),
             a < b, Precedes(ops[a], ops[b]), r \in S
      PROVE  q \in S
  <2>1. CASE a = i /\ q = p
    <3>1. b \in Nat /\ ~ (i < b)
      <4>1. CASE b = i
        BY <4>1
      <4>2. CASE b # i
        <5>1. b \in 1..(i - 1)
          BY <1>4, <1>5, <4>2
        <5> QED BY <5>1
      <4> QED BY <4>1, <4>2
    <3> QED BY <1>7, <2>1, <3>1
  <2>2. CASE a \in Range(dag.nodes[q].ops) /\ b \in Range(dag.nodes[r].ops)
    BY <1>7, <2>2 DEF Ordered
  <2>3. CASE a \in Range(dag.nodes[q].ops) /\ b = i /\ r = p
    <3>1. \E m \in Parents(dag, ops[i]) : m \in S => q \in S
      BY <1>7, <2>3, HeldByParents
    <3> QED BY <1>2, <1>7, <2>3, <3>1
  <2> QED BY <1>5, <2>1, <2>2, <2>3
<1>8. ASSUME NEW q \in 1..Len(dag.nodes), NEW a \in Range(new.nodes[q].ops), IsBarrier(ops[a])
      PROVE  dag.barrier # 0 /\ (dag.barrier \in S => q \in S)
  <2>1. a \in Range(dag.nodes[q].ops)
    BY <1>3, <1>5, <1>8
  <2> QED BY <1>8, <2>1 DEF Ordered
<1>9. ASSUME NEW q \in 1..Len(dag.nodes), NEW a \in Range(new.nodes[q].ops), NEW w \in Range(ops[a].wires)
      PROVE  dag.wire[w] # 0 /\ (dag.wire[w] \in S => q \in S)
  <2>1. CASE a \in Range(dag.nodes[q].ops)
    BY <2>1 DEF Ordered
  <2>2. CASE a = i /\ q = p
    <3>1. PICK o \in Range(dag.nodes[p].ops) : ops[o].wires = ops[i].wires
      <4>1. dag.nodes[p].ops # <<>> /\ \A x \in Range(dag.nodes[p].ops) : ops[x].wires = dag.nodes[p].wires
        BY DEF Grown, Filed
      <4>2. dag.nodes[p] \in NodeType
        BY SequenceOf DEF Grown, DagType
      <4>3. Sequence(dag.nodes[p].ops)
        BY <4>2, SequenceOf DEF NodeType
      <4>4. Head(dag.nodes[p].ops) \in Range(dag.nodes[p].ops)
        BY <4>1, <4>3, TailSequence
      <4> QED BY <1>2, <4>1, <4>4
    <3>2. dag.wire[w] # 0 /\ (dag.wire[w] \in S => p \in S)
      BY <2>2, <3>1 DEF Ordered
    <3> QED BY <2>2, <3>2
  <2> QED BY <1>5, <2>1, <2>2
<1>10. ASSUME NEW q \in 1..Len(dag.nodes), NEW a \in Range(new.nodes[q].ops), NEW b \in Range(dag.initial), a < b
       PROVE  ~ Precedes(ops[a], ops[b])
  <2>1. b \in 1..(i - 1) /\ b < i /\ a # i
    BY <1>4, <1>10
  <2>2. a \in Range(dag.nodes[q].ops)
    BY <1>5, <1>10, <2>1
  <2> QED BY <1>10, <2>2 DEF Ordered
<1> QED BY <1>2, <1>6, <1>7, <1>8, <1>9, <1>10 DEF Ordered

(* With a new node. *)
LEMMA OrderedLast ==
    ASSUME NEW ops, NEW i \in Nat \ {0}, ops[i] \in OperationType, NEW S,
           NEW dag, NEW new, Grown(dag, ops, i - 1), Ordered(dag, ops, S),
           AddedLast(dag, new, ops[i], i), Ancestral(new, S)
    PROVE  Ordered(new, ops, S)
<1> DEFINE n == Len(dag.nodes) + 1
           op == ops[i]
<1>1. HoldsLast(dag, new, op, i)
  BY HeldLast
<1>2. /\ new.initial = dag.initial /\ Len(new.nodes) = n
      /\ new.barrier = IF IsBarrier(op) THEN n ELSE dag.barrier
      /\ new.wire = [w \in Logical |-> IF w \in Range(op.wires) THEN n ELSE dag.wire[w]]
      /\ Len(dag.nodes) \in Nat
  BY <1>1 DEF AddedLast, HoldsLast
<1>3. n # 0 /\ n \in 1..n /\ \A q \in 1..n : q = n \/ q \in 1..Len(dag.nodes)
  BY <1>2
<1>4. /\ \A a \in Range(dag.initial) : a \in 1..(i - 1) /\ a < i
      /\ \A q \in 1..Len(dag.nodes) : \A a \in Range(dag.nodes[q].ops) : a \in 1..(i - 1) /\ a < i
  BY OldOperations
<1>5. \A q \in 1..n : \A a \in Range(new.nodes[q].ops) :
          \/ q \in 1..Len(dag.nodes) /\ a \in Range(dag.nodes[q].ops)
          \/ a = i /\ q = n
  BY <1>1, <1>3 DEF HoldsLast
<1>6. n \in S => Parents(dag, op) \subseteq S
  BY <1>1, <1>2, <1>3 DEF HoldsLast, Ancestral
<1>7. /\ dag.barrier # 0 => dag.barrier \in Parents(dag, op)
      /\ \A w \in Logical : dag.wire[w] # 0 /\ w \in Range(op.wires) => dag.wire[w] \in Parents(dag, op)
  <2>1. dag \in DagType /\ dag.barrier \in 0..Len(dag.nodes)
        /\ \A w \in Logical : dag.wire[w] \in 0..Len(dag.nodes)
    BY DEF Grown
  <2> QED BY <2>1, ParentsAre
<1>8. \A q \in 1..Len(dag.nodes) : \A a \in Range(dag.nodes[q].ops) : Range(ops[a].wires) \subseteq Logical
  <2>1. SUFFICES ASSUME NEW q \in 1..Len(dag.nodes), NEW a \in Range(dag.nodes[q].ops)
                 PROVE  Range(ops[a].wires) \subseteq Logical
    OBVIOUS
  <2>2. dag.nodes[q] \in NodeType
    BY SequenceOf DEF Grown, DagType
  <2>3. ops[a].wires = dag.nodes[q].wires
    BY DEF Grown, Filed
  <2> QED BY <2>2, <2>3, SequenceOf DEF NodeType
<1>9. Range(op.wires) \subseteq Logical
  BY SequenceOf DEF OperationType
<1> HIDE DEF n, op
<1>10. ASSUME NEW q \in 1..n, NEW r \in 1..n,
              NEW a \in Range(new.nodes[q].ops), NEW b \in Range(new.nodes[r].ops),
              a < b, Precedes(ops[a], ops[b]), r \in S
       PROVE  q \in S
  <2>1. CASE a = i /\ q = n
    <3>1. b \in Nat /\ ~ (i < b)
      <4>1. CASE b = i
        BY <4>1
      <4>2. CASE b # i
        <5>1. b \in 1..(i - 1)
          BY <1>4, <1>5, <4>2
        <5> QED BY <5>1
      <4> QED BY <4>1, <4>2
    <3> QED BY <1>10, <2>1, <3>1
  <2>2. CASE /\ q \in 1..Len(dag.nodes) /\ a \in Range(dag.nodes[q].ops)
             /\ r \in 1..Len(dag.nodes) /\ b \in Range(dag.nodes[r].ops)
    BY <1>10, <2>2 DEF Ordered
  <2>3. CASE q \in 1..Len(dag.nodes) /\ a \in Range(dag.nodes[q].ops) /\ b = i /\ r = n
    <3>1. \E m \in Parents(dag, ops[i]) : m \in S => q \in S
      BY <1>10, <2>3, HeldByParents
    <3> QED BY <1>6, <1>10, <2>3, <3>1 DEF op
  <2> QED BY <1>5, <2>1, <2>2, <2>3
<1>11. ASSUME NEW q \in 1..n, NEW a \in Range(new.nodes[q].ops), IsBarrier(ops[a])
       PROVE  new.barrier # 0 /\ (new.barrier \in S => q \in S)
  <2>1. CASE a = i /\ q = n
    BY <1>2, <1>3, <1>11, <2>1 DEF op
  <2>2. CASE q \in 1..Len(dag.nodes) /\ a \in Range(dag.nodes[q].ops)
    <3>1. dag.barrier # 0 /\ (dag.barrier \in S => q \in S)
      BY <1>11, <2>2 DEF Ordered
    <3> QED BY <1>2, <1>3, <1>6, <1>7, <3>1
  <2> QED BY <1>5, <2>1, <2>2
<1>12. ASSUME NEW q \in 1..n, NEW a \in Range(new.nodes[q].ops), NEW w \in Range(ops[a].wires)
       PROVE  new.wire[w] # 0 /\ (new.wire[w] \in S => q \in S)
  <2>1. CASE a = i /\ q = n
    <3>1. w \in Logical /\ w \in Range(op.wires)
      BY <1>9, <2>1 DEF op
    <3> QED BY <1>2, <1>3, <2>1, <3>1
  <2>2. CASE q \in 1..Len(dag.nodes) /\ a \in Range(dag.nodes[q].ops)
    <3>1. dag.wire[w] # 0 /\ (dag.wire[w] \in S => q \in S)
      BY <2>2 DEF Ordered
    <3>2. w \in Logical
      BY <1>8, <2>2
    <3> QED BY <1>2, <1>3, <1>6, <1>7, <3>1, <3>2
  <2> QED BY <1>5, <2>1, <2>2
<1>13. ASSUME NEW q \in 1..n, NEW a \in Range(new.nodes[q].ops), NEW b \in Range(dag.initial), a < b
       PROVE  ~ Precedes(ops[a], ops[b])
  <2>1. b \in 1..(i - 1) /\ b < i /\ a # i
    BY <1>4, <1>13
  <2>2. q \in 1..Len(dag.nodes) /\ a \in Range(dag.nodes[q].ops)
    BY <1>5, <1>13, <2>1
  <2> QED BY <1>13, <2>2 DEF Ordered
<1> QED BY <1>2, <1>10, <1>11, <1>12, <1>13 DEF Ordered

(* The graph of the first i operations. *)
IsGraph(dag, ops, i) ==
    /\ Grown(dag, ops, i) /\ Filled(dag, i)
    /\ \A S : Ancestral(dag, S) => Ordered(dag, ops, S)

(* The graph of no operations. *)
LEMMA GraphOfNone ==
    ASSUME NEW ops
    PROVE  IsGraph(NoOperations, ops, 0)
<1>1. /\ NoOperations.nodes = <<>> /\ NoOperations.initial = <<>> /\ NoOperations.barrier = 0
      /\ NoOperations.wire = [w \in Logical |-> 0] /\ NoOperations \in DagType
  <2>1. <<>> \in Seq(Nat) /\ <<>> \in Seq(NodeType)
    BY EmptySeq
  <2> QED BY <2>1 DEF NoOperations, DagType
<1>2. Len(NoOperations.nodes) = 0 /\ Range(NoOperations.initial) = {} /\ DOMAIN NoOperations.initial = {}
  BY <1>1, EmptySequence
<1>3. \A p \in 1..0 : FALSE
  OBVIOUS
<1>4. Grown(NoOperations, ops, 0)
  BY <1>1, <1>2, <1>3 DEF Grown, Upwards
<1>5. Filled(NoOperations, 0)
  BY <1>2, <1>3 DEF Filled
<1>6. ASSUME NEW S PROVE Ordered(NoOperations, ops, S)
  BY <1>2, <1>3 DEF Ordered
<1> QED BY <1>4, <1>5, <1>6 DEF IsGraph

(* Adding an operation makes the graph of one more. *)
LEMMA GraphOfMore ==
    ASSUME NEW ops, NEW i \in Nat \ {0}, ops[i] \in OperationType,
           NEW dag, IsGraph(dag, ops, i - 1)
    PROVE  IsGraph(Added(dag, ops[i], i), ops, i)
<1> DEFINE new == Added(dag, ops[i], i)
<1>1. Grown(dag, ops, i - 1) /\ Filled(dag, i - 1)
  BY DEF IsGraph
<1>2. /\ new \in DagType
      /\ \/ AddedFirst(dag, new, ops[i], i)
         \/ \E p \in 1..Len(dag.nodes) : AddedTo(p, dag, new, ops[i], i)
         \/ AddedLast(dag, new, ops[i], i)
  <2>1. /\ dag \in DagType /\ dag.barrier \in 0..Len(dag.nodes)
        /\ \A w \in Logical : dag.wire[w] \in 0..Len(dag.nodes)
    BY <1>1 DEF Grown
  <2> QED BY <2>1, AddedIs
<1> HIDE DEF new
<1>3. Grown(new, ops, i)
  BY <1>1, <1>2, GrownFurther
<1>4. Filled(new, i)
  BY <1>1, <1>2, FilledFurther
<1>5. ASSUME NEW S, Ancestral(new, S) PROVE Ordered(new, ops, S)
  <2>1. Ancestral(dag, S)
    BY <1>1, <1>2, <1>5, AncestralBefore
  <2>2. Ordered(dag, ops, S)
    BY <2>1 DEF IsGraph
  <2> QED BY <1>1, <1>2, <1>5, <2>2, OrderedFirst, OrderedTo, OrderedLast
<1>6. IsGraph(new, ops, i)
  BY <1>3, <1>4, <1>5 DEF IsGraph
<1> QED BY <1>6 DEF new

(* The recursion of Dag. *)
Builds(d, ops, n) ==
    d = [i \in 0..n |-> IF i = 0 THEN NoOperations ELSE Added(d[i - 1], ops[i], i)]

(* The fold over a block can be followed step by step. *)
LEMMA BuildsExists ==
    ASSUME NEW ops, NEW n \in Nat
    PROVE  \E d : Builds(d, ops, n)
<1> DEFINE T == {k \in 0..n : \E d : Builds(d, ops, k)}
<1>1. 0 \in T
  <2> DEFINE d == [i \in 0..0 |-> NoOperations]
  <2>1. d = [i \in 0..0 |-> IF i = 0 THEN NoOperations ELSE Added(d[i - 1], ops[i], i)]
    OBVIOUS
  <2>2. Builds(d, ops, 0)
    BY <2>1 DEF Builds
  <2> HIDE DEF d
  <2> QED BY <2>2
<1>2. ASSUME NEW k \in 1..n, k - 1 \in T PROVE k \in T
  <2>1. PICK d : Builds(d, ops, k - 1)
    BY <1>2
  <2> DEFINE e == [i \in 0..k |-> IF i = k THEN Added(d[k - 1], ops[k], k) ELSE d[i]]
  <2>2. d = [i \in 0..(k - 1) |-> IF i = 0 THEN NoOperations ELSE Added(d[i - 1], ops[i], i)]
    BY <2>1 DEF Builds
  <2>3. ASSUME NEW i \in 0..k
        PROVE  e[i] = IF i = 0 THEN NoOperations ELSE Added(e[i - 1], ops[i], i)
    <3>1. CASE i = k
      <4>1. i # 0 /\ i - 1 \in 0..k /\ i - 1 # k
        BY <3>1
      <4>2. e[i - 1] = d[i - 1]
        BY <4>1
      <4> QED BY <3>1, <4>1, <4>2
    <3>2. CASE i # k /\ i # 0
      <4>1. i - 1 \in 0..k /\ i - 1 # k /\ i \in 0..(k - 1)
        BY <3>2
      <4>2. e[i - 1] = d[i - 1] /\ e[i] = d[i]
        BY <3>2, <4>1
      <4>3. d[i] = Added(d[i - 1], ops[i], i)
        <5> HIDE DEF e
        <5> QED BY <2>2, <3>2, <4>1
      <4> QED BY <3>2, <4>2, <4>3
    <3>3. CASE i = 0
      <4>1. i # k /\ 0 \in 0..(k - 1)
        BY <3>3
      <4>2. d[0] = NoOperations
        <5> HIDE DEF e
        <5> QED BY <2>2, <4>1
      <4> QED BY <3>3, <4>1, <4>2
    <3> QED BY <3>1, <3>2, <3>3
  <2>4. e = [i \in 0..k |-> e[i]]
    OBVIOUS
  <2> HIDE DEF e
  <2>5. Builds(e, ops, k)
    BY <2>3, <2>4 DEF Builds
  <2> QED BY <2>5
<1> HIDE DEF T
<1>3. \A k \in 1..n : k - 1 \in T => k \in T
  BY <1>2
<1>4. \A k \in 0..n : k \in T
  BY <1>1, <1>3, CountUp
<1> QED BY <1>4 DEF T

(* What SabreDag::from_operations builds of any operations is a graph: it   *)
(* has each of them in one place, parents before children, and whatever    *)
(* must come first in the same node or an ancestor.                        *)
THEOREM DagIsGraph ==
    ASSUME NEW ops \in Seq(OperationType)
    PROVE  IsGraph(Dag(ops), ops, Len(ops))
<1> DEFINE n == Len(ops)
           d == CHOOSE x : Builds(x, ops, n)
<1>1. n \in Nat /\ \A i \in 1..n : ops[i] \in OperationType
  OBVIOUS
<1>2. Builds(d, ops, n)
  <2> HIDE DEF n
  <2> QED BY <1>1, BuildsExists
<1>3. Dag(ops) = d[n]
  BY DEF Dag, Builds
<1> HIDE DEF d, n
<1> DEFINE T == {i \in 0..n : IsGraph(d[i], ops, i)}
<1>4. \A i \in 0..n : d[i] = IF i = 0 THEN NoOperations ELSE Added(d[i - 1], ops[i], i)
  BY <1>2 DEF Builds
<1>5. 0 \in T
  <2>1. d[0] = NoOperations /\ 0 \in 0..n
    BY <1>1, <1>4
  <2> QED BY <2>1, GraphOfNone
<1>6. ASSUME NEW i \in 1..n, i - 1 \in T PROVE i \in T
  <2>1. d[i] = Added(d[i - 1], ops[i], i) /\ i \in Nat \ {0} /\ i \in 0..n
    BY <1>1, <1>4
  <2>2. IsGraph(d[i - 1], ops, i - 1)
    BY <1>6
  <2>3. IsGraph(Added(d[i - 1], ops[i], i), ops, i)
    BY <1>1, <2>1, <2>2, GraphOfMore
  <2> QED BY <2>1, <2>3
<1> HIDE DEF T
<1>7. \A i \in 1..n : i - 1 \in T => i \in T
  BY <1>6
<1>8. \A i \in 0..n : i \in T
  BY <1>1, <1>5, <1>7, CountUp
<1>9. IsGraph(d[n], ops, n)
  BY <1>1, <1>8 DEF T
<1> QED BY <1>3, <1>9 DEF n

(* The graph of every block. *)
LEMMA DagsAreGraphs ==
    ASSUME NEW b \in DOMAIN Program
    PROVE  /\ IsGraph(Dags[b], Program[b], Len(Program[b]))
           /\ Program[b] \in Seq(OperationType)
<1>1. Program[b] \in Seq(OperationType)
  BY ProgramIsValid DEF OperationType
<1> QED BY <1>1, DagIsGraph DEF Dags

-----------------------------------------------------------------------------
(* Layouts and SWAPs *)

(* Every logical qubit is somewhere, and no two in one place. *)
Placed(layout) ==
    /\ layout \in [Logical -> Physical]
    /\ \A l, m \in Logical : l # m => layout[l] # layout[m]

(* A SWAP exchanges two qubits. *)
LEMMA ExchangeOf ==
    ASSUME NEW e \in Edges
    PROVE  \E a, b \in Physical :
              /\ a # b /\ e = {a, b}
              /\ Exchange(a, e) = b /\ Exchange(b, e) = a
              /\ \A p : p # a /\ p # b => Exchange(p, e) = p
<1>1. e \subseteq Physical /\ Cardinality(e) = 2
  BY EdgesArePairs
<1>2. IsFiniteSet(e)
  BY <1>1, PhysicalIsFinite, FS_Subset
<1>3. PICK a \in e : TRUE
  BY <1>1, <1>2, FS_EmptySet
<1>4. IsFiniteSet(e \ {a}) /\ Cardinality(e \ {a}) = 1
  BY <1>1, <1>2, <1>3, FS_RemoveElement
<1>5. PICK b : e \ {a} = {b}
  BY <1>4, FS_Singleton
<1>6. a # b /\ e = {a, b} /\ a \in Physical /\ b \in Physical
  BY <1>1, <1>3, <1>5
<1>7. Exchange(a, e) = b /\ Exchange(b, e) = a
  <2>1. (CHOOSE q \in e : q # a) = b
    BY <1>6
  <2>2. (CHOOSE q \in e : q # b) = a
    BY <1>6
  <2> QED BY <1>6, <2>1, <2>2 DEF Exchange
<1>8. \A p : p # a /\ p # b => Exchange(p, e) = p
  BY <1>6 DEF Exchange
<1> QED BY <1>6, <1>7, <1>8

(* A SWAP exchanges positions, and is its own inverse. *)
LEMMA ExchangeIs ==
    ASSUME NEW e \in Edges
    PROVE  /\ \A p \in Physical : Exchange(p, e) \in Physical /\ Exchange(Exchange(p, e), e) = p
           /\ \A p, q : Exchange(p, e) = Exchange(q, e) => p = q
BY ExchangeOf

(* Layouts stay one-to-one under a SWAP, and a second one takes it back. *)
LEMMA SwappedPlaced ==
    ASSUME NEW layout, Placed(layout), NEW e \in Edges
    PROVE  /\ Placed(Swapped(layout, e))
           /\ \A l \in Logical : Swapped(layout, e)[l] = Exchange(layout[l], e)
           /\ Swapped(Swapped(layout, e), e) = layout
<1>1. layout \in [Logical -> Physical] /\ DOMAIN layout = Logical
  BY DEF Placed
<1>2. Swapped(layout, e) = [l \in Logical |-> Exchange(layout[l], e)]
  BY <1>1 DEF Swapped
<1>3. Swapped(layout, e) \in [Logical -> Physical]
  BY <1>1, <1>2, ExchangeIs
<1>4. Placed(Swapped(layout, e))
  BY <1>1, <1>2, <1>3, ExchangeIs DEF Placed
<1>5. Swapped(Swapped(layout, e), e) = [l \in Logical |-> Exchange(Exchange(layout[l], e), e)]
  <2> DEFINE s == Swapped(layout, e)
  <2>1. DOMAIN s = Logical /\ \A l \in Logical : s[l] = Exchange(layout[l], e)
    BY <1>2
  <2> HIDE DEF s
  <2>2. Swapped(s, e) = [l \in Logical |-> Exchange(s[l], e)]
    BY <2>1 DEF Swapped
  <2>3. Swapped(s, e) = [l \in Logical |-> Exchange(Exchange(layout[l], e), e)]
    BY <2>1, <2>2
  <2> QED BY <2>3 DEF s
<1>6. [l \in Logical |-> Exchange(Exchange(layout[l], e), e)] = layout
  BY <1>1, ExchangeIs
<1> QED BY <1>2, <1>4, <1>5, <1>6

-----------------------------------------------------------------------------
(* Distances *)

-----------------------------------------------------------------------------
(* Distances *)

(* One step further from what is near. *)
Nearer(S) ==
    {pair \in Physical \X Physical :
        \E r \in Physical : /\ <<pair[1], r>> \in S
                            /\ r = pair[2] \/ {r, pair[2]} \in Edges}

Nears(f, n) ==
    f = [i \in 0..n |-> IF i = 0 THEN {<<p, p>> : p \in Physical} ELSE Nearer(f[i - 1])]

(* The distances can be computed step by step. *)
LEMMA NearsExists ==
    ASSUME NEW n \in Nat
    PROVE  \E f : Nears(f, n)
<1> DEFINE T == {k \in 0..n : \E f : Nears(f, k)}
           Diagonal == {<<p, p>> : p \in Physical}
<1>1. 0 \in T
  <2> DEFINE d == [i \in 0..0 |-> Diagonal]
  <2>1. d = [i \in 0..0 |-> IF i = 0 THEN Diagonal ELSE Nearer(d[i - 1])]
    OBVIOUS
  <2>2. Nears(d, 0)
    BY <2>1 DEF Nears
  <2> HIDE DEF d
  <2> QED BY <2>2
<1>2. ASSUME NEW k \in 1..n, k - 1 \in T PROVE k \in T
  <2>1. PICK d : Nears(d, k - 1)
    BY <1>2
  <2> DEFINE e == [i \in 0..k |-> IF i = k THEN Nearer(d[k - 1]) ELSE d[i]]
  <2>2. d = [i \in 0..(k - 1) |-> IF i = 0 THEN Diagonal ELSE Nearer(d[i - 1])]
    BY <2>1 DEF Nears
  <2> HIDE DEF Diagonal
  <2>3. ASSUME NEW i \in 0..k
        PROVE  e[i] = IF i = 0 THEN Diagonal ELSE Nearer(e[i - 1])
    <3>1. CASE i = k
      <4>1. i # 0 /\ i - 1 \in 0..k /\ i - 1 # k
        BY <3>1
      <4>2. e[i - 1] = d[i - 1]
        BY <4>1
      <4> QED BY <3>1, <4>1, <4>2
    <3>2. CASE i # k /\ i # 0
      <4>1. i - 1 \in 0..k /\ i - 1 # k /\ i \in 0..(k - 1)
        BY <3>2
      <4>2. e[i - 1] = d[i - 1] /\ e[i] = d[i]
        BY <3>2, <4>1
      <4>3. d[i] = Nearer(d[i - 1])
        <5> HIDE DEF e
        <5> QED BY <2>2, <3>2, <4>1
      <4> QED BY <3>2, <4>2, <4>3
    <3>3. CASE i = 0
      <4>1. i # k /\ 0 \in 0..(k - 1)
        BY <3>3
      <4>2. d[0] = Diagonal
        <5> HIDE DEF e
        <5> QED BY <2>2, <4>1
      <4> QED BY <3>3, <4>1, <4>2
    <3> QED BY <3>1, <3>2, <3>3
  <2>4. e = [i \in 0..k |-> e[i]]
    OBVIOUS
  <2> HIDE DEF e
  <2>5. Nears(e, k)
    BY <2>3, <2>4 DEF Nears, Diagonal
  <2> QED BY <2>5
<1> HIDE DEF T
<1>3. \A k \in 1..n : k - 1 \in T => k \in T
  BY <1>2
<1>4. \A k \in 0..n : k \in T
  BY <1>1, <1>3, CountUp
<1> QED BY <1>4 DEF T

(* What is near at each distance. *)
LEMMA NearIs ==
    /\ Near[0] = {<<p, p>> : p \in Physical}
    /\ \A i \in 1..Cardinality(Physical) : Near[i] = Nearer(Near[i - 1])
<1> DEFINE n == Cardinality(Physical)
           f == CHOOSE x : Nears(x, n)
<1>1. n \in Nat
  BY PhysicalIsFinite, FS_CardinalityType
<1>2. Nears(f, n)
  <2> HIDE DEF n
  <2> QED BY <1>1, NearsExists
<1>3. Near = f
  BY DEF Near, Nears, Nearer
<1> HIDE DEF f, n
<1>4. Near = [i \in 0..n |-> IF i = 0 THEN {<<p, p>> : p \in Physical} ELSE Nearer(Near[i - 1])]
  BY <1>2, <1>3 DEF Nears
<1>5. \A i \in 1..n : i \in 0..n /\ i # 0
  BY <1>1
<1>6. 0 \in 0..n
  BY <1>1
<1> QED BY <1>4, <1>5, <1>6 DEF n

(* The distance of two qubits is a number, and 0 for neighbours alone. *)
LEMMA DistanceIs ==
    ASSUME NEW p \in Physical, NEW q \in Physical, p # q
    PROVE  /\ Distance(<<p, q>>) \in 0..(Cardinality(Physical) - 1)
           /\ Distance(<<p, q>>) = 0 => Adjacent(<<p, q>>)
<1> DEFINE N == Cardinality(Physical)
           pair == <<p, q>>
           Holds(n) == pair \in Near[n] /\ pair \notin Near[n - 1]
           T == {n \in 0..N : pair \in Near[n]}
<1>1. N \in Nat
  BY PhysicalIsFinite, FS_CardinalityType
<1>2. T # {}
  BY DeviceIsConnected
<1>3. PICK m \in T : \A k \in T : m <= k
  <2> HIDE DEF T
  <2>1. T \subseteq Nat
    BY <1>1 DEF T
  <2> QED BY <1>2, <2>1, LeastNatural
<1>4. pair \notin Near[0]
  BY NearIs
<1>5. m \in 1..N /\ m - 1 \in 0..N /\ ~ (m <= m - 1)
  <2>1. m # 0
    BY <1>3, <1>4
  <2>2. m \in 0..N
    BY <1>3
  <2> HIDE DEF T, N
  <2> QED BY <1>1, <2>1, <2>2
<1>6. pair \in Near[m] /\ pair \notin Near[m - 1]
  BY <1>3, <1>5
<1> DEFINE c == CHOOSE n \in 1..N : pair \in Near[n] /\ pair \notin Near[n - 1]
<1>7. c \in 1..N /\ pair \in Near[c] /\ pair \notin Near[c - 1]
  <2> HIDE DEF N, pair
  <2> QED BY <1>5, <1>6
<1>8. Distance(pair) = c - 1
  BY DEF Distance
<1> HIDE DEF c
<1>9. Distance(pair) \in 0..(N - 1)
  <2> HIDE DEF N, pair
  <2> QED BY <1>1, <1>7, <1>8
<1>10. ASSUME Distance(pair) = 0 PROVE Adjacent(pair)
  <2>1. c = 1 /\ 1 \in 1..N
    <3> HIDE DEF N, pair
    <3> QED BY <1>1, <1>7, <1>8, <1>10
  <2>2. pair \in Nearer(Near[0])
    BY <1>7, <2>1, NearIs
  <2>3. PICK r \in Physical : <<p, r>> \in Near[0] /\ (r = q \/ {r, q} \in Edges)
    BY <2>2 DEF Nearer
  <2>4. r = p
    BY <2>3, NearIs
  <2> QED BY <2>3, <2>4 DEF Adjacent
<1> QED BY <1>9, <1>10

-----------------------------------------------------------------------------
(* Routed plans, and running them *)

(* Transfers leave the loop or switch whose body they stand in, and phases *)
(* lead a block that ends in one.                                          *)
ExitsAreDirect ==
    \A b \in DOMAIN Program : \A i \in DOMAIN Program[b] : \A c \in Range(Program[b][i].bodies) :
        \A j \in DOMAIN Program[c] : Program[c][j].kind \in Transfers =>
            /\ Program[c][j].kind \in Allowed(Program[b][i].kind, {})
            /\ \A k \in DOMAIN Program[c] :
                  Program[c][k].wires = <<>> /\ ~ IsBarrier(Program[c][k]) =>
                      \A m \in 1..k : ~ IsBarrier(Program[c][m])

(* The layout behind an operation. *)
After(layout, op) == IF op.kind = "swap" THEN Swapped(layout, Range(op.at)) ELSE layout

Walk(p, L, t) == t[0] = L /\ \A k \in 1..Len(p) : t[k] = After(t[k - 1], p[k])

(* A body of an operation of that kind is left from its end alone. *)
LeftLast(b, kind) ==
    \A k \in 1..Len(b) : b[k].kind \in Transfers => k = Len(b) /\ b[k].kind \in Allowed(kind, {})

(* What is right of an operation itself, where the layout is L. *)
Fits(op, L, c) ==
    /\ op.kind = "swap" => Range(op.at) \in Edges
    /\ op.kind \notin Control => \A j \in 1..Len(op.wires) : op.at[j] = L[op.wires[j]]
    /\ Len(op.at) = 2 /\ op.kind \in {"gate", "swap"} => Adjacent(op.at)
    /\ op.kind \in Transfers => op.kind \in c
    /\ op.kind \in Control /\ ExitsAreDirect =>
          \A i \in 1..Len(op.bodies) : LeftLast(op.bodies[i], op.kind)

(* Bodies, with the layout they are entered with and what transfers they   *)
(* may hold, that are right if those in W are.                             *)
Rightful(W) ==
    \A x \in W :
        /\ Sequence(x[1]) /\ Placed(x[2])
        /\ \E t : /\ Walk(x[1], x[2], t) /\ t[Len(x[1])] = x[2]
                  /\ \A k \in 1..Len(x[1]) :
                        /\ Fits(x[1][k], t[k - 1], x[3])
                        /\ x[1][k].kind \in Control =>
                              \A i \in 1..Len(x[1][k].bodies) :
                                  <<x[1][k].bodies[i], t[k - 1], Allowed(x[1][k].kind, x[3])>> \in W

(* A body that keeps its operands in place and restores its layout. *)
Body(p, L, c) == \E W : Rightful(W) /\ <<p, L, c>> \in W

Right(op, L, c) ==
    /\ Fits(op, L, c)
    /\ op.kind \in Control =>
          \A i \in 1..Len(op.bodies) : Body(op.bodies[i], L, Allowed(op.kind, c))

Walks(p, L, c, t) ==
    Walk(p, L, t) /\ \A k \in 1..Len(p) : Right(p[k], t[k - 1], c)

(* A plan from the layout L to M. *)
Leads(p, L, M, c) ==
    Sequence(p) /\ Placed(L) /\ Placed(M) /\ \E t : Walks(p, L, c, t) /\ t[Len(p)] = M

(* A body leads back to the layout it was entered with. *)
LEMMA BodyLeads ==
    ASSUME NEW p, NEW L, NEW c, Body(p, L, c)
    PROVE  Leads(p, L, L, c)
<1>1. PICK W : Rightful(W) /\ <<p, L, c>> \in W
  BY DEF Body
<1> DEFINE x == <<p, L, c>>
<1>2. x \in W /\ x[1] = p /\ x[2] = L /\ x[3] = c
  BY <1>1
<1> HIDE DEF x
<1>3. PICK t : /\ Walk(x[1], x[2], t) /\ t[Len(x[1])] = x[2]
               /\ \A k \in 1..Len(x[1]) :
                     /\ Fits(x[1][k], t[k - 1], x[3])
                     /\ x[1][k].kind \in Control =>
                           \A i \in 1..Len(x[1][k].bodies) :
                               <<x[1][k].bodies[i], t[k - 1], Allowed(x[1][k].kind, x[3])>> \in W
  BY <1>1, <1>2 DEF Rightful
<1>4. Sequence(p) /\ Placed(L)
  BY <1>1, <1>2 DEF Rightful
<1>5. ASSUME NEW k \in 1..Len(p) PROVE Right(p[k], t[k - 1], c)
  <2>1. /\ Fits(p[k], t[k - 1], c)
        /\ p[k].kind \in Control =>
              \A i \in 1..Len(p[k].bodies) : <<p[k].bodies[i], t[k - 1], Allowed(p[k].kind, c)>> \in W
    BY <1>2, <1>3
  <2> QED BY <1>1, <2>1 DEF Right, Body
<1>6. Walks(p, L, c, t) /\ t[Len(p)] = L
  BY <1>2, <1>3, <1>5 DEF Walks
<1> QED BY <1>4, <1>6 DEF Leads

(* And what leads back is a body. *)
LEMMA LeadsBody ==
    ASSUME NEW p, NEW L, NEW c, Leads(p, L, L, c)
    PROVE  Body(p, L, c)
<1>1. PICK t : Walks(p, L, c, t) /\ t[Len(p)] = L
  BY DEF Leads
<1> DEFINE V(x) == CHOOSE W : Rightful(W) /\ x \in W
           X == UNION {{<<p[k].bodies[i], t[k - 1], Allowed(p[k].kind, c)>> : i \in 1..Len(p[k].bodies)} :
                          k \in {k \in 1..Len(p) : p[k].kind \in Control}}
           W == {<<p, L, c>>} \cup UNION {V(x) : x \in X}
<1>2. ASSUME NEW x \in X PROVE Rightful(V(x)) /\ x \in V(x)
  <2>1. PICK k \in 1..Len(p) : /\ p[k].kind \in Control
                               /\ \E i \in 1..Len(p[k].bodies) :
                                      x = <<p[k].bodies[i], t[k - 1], Allowed(p[k].kind, c)>>
    OBVIOUS
  <2>3. PICK i \in 1..Len(p[k].bodies) : x = <<p[k].bodies[i], t[k - 1], Allowed(p[k].kind, c)>>
    BY <2>1
  <2>2. Body(p[k].bodies[i], t[k - 1], Allowed(p[k].kind, c))
    BY <1>1, <2>1 DEF Walks, Right
  <2>4. \E Z : Rightful(Z) /\ x \in Z
    BY <2>2, <2>3 DEF Body
  <2> QED BY <2>4
<1>3. \A x \in X : V(x) \subseteq W
  OBVIOUS
<1>4. <<p, L, c>> \in W /\ \A y \in W : y = <<p, L, c>> \/ \E x \in X : y \in V(x)
  OBVIOUS
<1>5. \A k \in 1..Len(p) : p[k].kind \in Control =>
          \A i \in 1..Len(p[k].bodies) : <<p[k].bodies[i], t[k - 1], Allowed(p[k].kind, c)>> \in X
  OBVIOUS
<1> HIDE DEF V, X, W
<1>6. ASSUME NEW y \in W
      PROVE  /\ Sequence(y[1]) /\ Placed(y[2])
             /\ \E u : /\ Walk(y[1], y[2], u) /\ u[Len(y[1])] = y[2]
                       /\ \A k \in 1..Len(y[1]) :
                             /\ Fits(y[1][k], u[k - 1], y[3])
                             /\ y[1][k].kind \in Control =>
                                   \A i \in 1..Len(y[1][k].bodies) :
                                       <<y[1][k].bodies[i], u[k - 1], Allowed(y[1][k].kind, y[3])>> \in W
  <2>1. CASE y = <<p, L, c>>
    <3>1. y[1] = p /\ y[2] = L /\ y[3] = c
      BY <2>1
    <3>2. Sequence(p) /\ Placed(L)
      BY DEF Leads
    <3>3. ASSUME NEW k \in 1..Len(p)
          PROVE  /\ Fits(p[k], t[k - 1], c)
                 /\ p[k].kind \in Control =>
                        \A i \in 1..Len(p[k].bodies) :
                            <<p[k].bodies[i], t[k - 1], Allowed(p[k].kind, c)>> \in W
      <4>1. Fits(p[k], t[k - 1], c)
        BY <1>1 DEF Walks, Right
      <4>2. ASSUME p[k].kind \in Control, NEW i \in 1..Len(p[k].bodies)
            PROVE  <<p[k].bodies[i], t[k - 1], Allowed(p[k].kind, c)>> \in W
        BY <1>2, <1>3, <1>5, <4>2
      <4> QED BY <4>1, <4>2
    <3>4. Walk(p, L, t) /\ t[Len(p)] = L
      BY <1>1 DEF Walks
    <3> QED BY <3>1, <3>2, <3>3, <3>4
  <2>2. CASE \E x \in X : y \in V(x)
    <3>1. PICK x \in X : y \in V(x)
      BY <2>2
    <3>2. /\ Sequence(y[1]) /\ Placed(y[2])
          /\ \E u : /\ Walk(y[1], y[2], u) /\ u[Len(y[1])] = y[2]
                    /\ \A k \in 1..Len(y[1]) :
                          /\ Fits(y[1][k], u[k - 1], y[3])
                          /\ y[1][k].kind \in Control =>
                                \A i \in 1..Len(y[1][k].bodies) :
                                    <<y[1][k].bodies[i], u[k - 1], Allowed(y[1][k].kind, y[3])>> \in V(x)
      BY <1>2, <3>1 DEF Rightful
    <3> QED BY <1>3, <3>2
  <2> QED BY <1>4, <2>1, <2>2
<1>7. Rightful(W)
  BY <1>6 DEF Rightful
<1> QED BY <1>4, <1>7 DEF Body

(* Nothing leads nowhere. *)
LEMMA LeadsNowhere ==
    ASSUME NEW L, Placed(L), NEW c
    PROVE  Leads(<<>>, L, L, c)
<1> DEFINE t == [k \in 0..0 |-> L]
<1>1. t[0] = L
  OBVIOUS
<1> HIDE DEF t
<1>2. Len(<<>>) = 0 /\ Sequence(<<>>) /\ \A k \in 1..0 : FALSE
  BY EmptySequence
<1>3. Walks(<<>>, L, c, t)
  BY <1>1, <1>2 DEF Walks, Walk
<1> QED BY <1>1, <1>2, <1>3 DEF Leads

(* One plan after another. *)
LEMMA LeadsFurther ==
    ASSUME NEW p, NEW q, NEW L, NEW M, NEW K, NEW c, Leads(p, L, M, c), Leads(q, M, K, c)
    PROVE  Leads(p \o q, L, K, c)
<1>1. PICK t : Walks(p, L, c, t) /\ t[Len(p)] = M
  BY DEF Leads
<1>2. PICK u : Walks(q, M, c, u) /\ u[Len(q)] = K
  BY DEF Leads
<1> DEFINE m == Len(p)
           n == Len(q)
           v == [k \in 0..(m + n) |-> IF k <= m THEN t[k] ELSE u[k - m]]
<1>3. Sequence(p) /\ Sequence(q) /\ Placed(L) /\ Placed(K)
  BY DEF Leads
<1>4. /\ Sequence(p \o q) /\ Len(p \o q) = m + n
      /\ \A k \in 1..m : (p \o q)[k] = p[k]
      /\ \A k \in 1..(m + n) :
             k \in 1..m \/ (k - m \in 1..n /\ (p \o q)[k] = q[k - m])
  BY <1>3, JoinedSequence
<1>5. m \in Nat /\ n \in Nat
  BY <1>3, SequenceFacts
<1>6. t[0] = L /\ t[m] = M /\ u[0] = M /\ u[n] = K
  BY <1>1, <1>2 DEF Walks, Walk
<1> HIDE DEF m, n
<1>7. \A k \in 0..m : v[k] = t[k]
  BY <1>5
<1>8. \A k \in 0..n : v[m + k] = u[k]
  <2>1. ASSUME NEW k \in 1..n PROVE v[m + k] = u[k]
    <3>1. m + k \in 0..(m + n) /\ ~ (m + k <= m) /\ (m + k) - m = k
      BY <1>5
    <3> QED BY <3>1
  <2>2. v[m + 0] = u[0]
    <3>1. m + 0 = m /\ m \in 0..m /\ m \in 0..(m + n)
      BY <1>5
    <3> QED BY <1>6, <1>7, <3>1
  <2>3. \A k \in 0..n : k = 0 \/ k \in 1..n
    BY <1>5
  <2> QED BY <2>1, <2>2, <2>3
<1> HIDE DEF v
<1>9. v[0] = L /\ v[m + n] = K
  BY <1>5, <1>6, <1>7, <1>8
<1>10. ASSUME NEW k \in 1..(m + n)
       PROVE  v[k] = After(v[k - 1], (p \o q)[k]) /\ Right((p \o q)[k], v[k - 1], c)
  <2>1. CASE k \in 1..m
    <3>1. k \in 0..m /\ k - 1 \in 0..m
      BY <1>5, <2>1
    <3>2. v[k] = t[k] /\ v[k - 1] = t[k - 1] /\ (p \o q)[k] = p[k]
      BY <1>4, <1>7, <2>1, <3>1
    <3>3. t[k] = After(t[k - 1], p[k]) /\ Right(p[k], t[k - 1], c)
      BY <1>1, <2>1 DEF Walks, Walk, m
    <3> QED BY <3>2, <3>3
  <2>2. CASE k - m \in 1..n /\ (p \o q)[k] = q[k - m]
    <3>1. k - m \in 0..n /\ (k - m) - 1 \in 0..n /\ m + (k - m) = k /\ m + ((k - m) - 1) = k - 1
      BY <1>5, <2>2
    <3>2. v[k] = u[k - m] /\ v[k - 1] = u[(k - m) - 1]
      <4>1. v[m + (k - m)] = u[k - m] /\ v[m + ((k - m) - 1)] = u[(k - m) - 1]
        BY <1>8, <3>1
      <4> QED BY <3>1, <4>1
    <3>3. u[k - m] = After(u[(k - m) - 1], q[k - m]) /\ Right(q[k - m], u[(k - m) - 1], c)
      BY <1>2, <2>2 DEF Walks, Walk, n
    <3> QED BY <2>2, <3>2, <3>3
  <2> QED BY <1>4, <2>1, <2>2
<1>11. Walks(p \o q, L, c, v) /\ v[Len(p \o q)] = K
  BY <1>4, <1>9, <1>10 DEF Walks, Walk
<1> QED BY <1>3, <1>4, <1>11 DEF Leads

-----------------------------------------------------------------------------
(* Which nodes of a graph are done *)

(* What is neither blocked nor queued nor waiting is done. *)
Finished(need, queue, waiting) ==
    {n \in DOMAIN need : need[n] = 0 /\ n \notin Range(queue) /\ n \notin waiting}

(* A node needs the parents that are not done. *)
Progress(dag, need, queue, waiting) ==
    /\ need \in [1..Len(dag.nodes) -> Nat]
    /\ Sequence(queue) /\ Distinct(queue) /\ Range(queue) \subseteq 1..Len(dag.nodes)
    /\ waiting \subseteq 1..Len(dag.nodes) /\ waiting \cap Range(queue) = {}
    /\ \A n \in Range(queue) \cup waiting : need[n] = 0
    /\ \A n \in 1..Len(dag.nodes) :
          need[n] = Cardinality(dag.nodes[n].parents \ Finished(need, queue, waiting))

(* The nodes of the graph of a block. *)
Layered(dag) ==
    /\ Len(dag.nodes) \in Nat
    /\ \A p \in 1..Len(dag.nodes) : dag.nodes[p].parents \subseteq 1..(p - 1)

(* A node is ready when the parents it waits for are done. *)
LEMMA LayeredParts ==
    ASSUME NEW dag, Layered(dag), NEW n \in 1..Len(dag.nodes), NEW S
    PROVE  /\ IsFiniteSet(dag.nodes[n].parents \ S)
           /\ Cardinality(dag.nodes[n].parents \ S) \in Nat
           /\ Cardinality(dag.nodes[n].parents \ S) = 0 <=> dag.nodes[n].parents \subseteq S
<1>1. dag.nodes[n].parents \subseteq 1..(n - 1) /\ n - 1 \in Nat
  BY DEF Layered
<1>2. IsFiniteSet(1..(n - 1))
  BY <1>1, FS_Interval
<1>3. IsFiniteSet(dag.nodes[n].parents \ S)
  BY <1>1, <1>2, FS_Subset
<1>4. Cardinality(dag.nodes[n].parents \ S) \in Nat
  BY <1>3, FS_CardinalityType
<1>5. Cardinality(dag.nodes[n].parents \ S) = 0 <=> dag.nodes[n].parents \ S = {}
  BY <1>3, FS_EmptySet
<1> QED BY <1>3, <1>4, <1>5

(* At the start nothing is done, and what has no parents is queued. *)
LEMMA ProgressStarts ==
    ASSUME NEW dag, Layered(dag),
           NEW need, need = [n \in 1..Len(dag.nodes) |-> Cardinality(dag.nodes[n].parents)],
           NEW queue, queue = Ascending({n \in 1..Len(dag.nodes) : dag.nodes[n].parents = {}})
    PROVE  Progress(dag, need, queue, {}) /\ Finished(need, queue, {}) = {}
<1> DEFINE N == Len(dag.nodes)
           S == {n \in 1..N : dag.nodes[n].parents = {}}
<1>1. Lists(queue, S)
  <2>1. N \in Nat /\ S \in SUBSET (1..N)
    BY DEF Layered
  <2> QED BY <2>1, ListedInOrder
<1>2. ASSUME NEW n \in 1..N
      PROVE  /\ need[n] \in Nat /\ need[n] = Cardinality(dag.nodes[n].parents)
             /\ need[n] = 0 <=> n \in S
  <2>1. need[n] = Cardinality(dag.nodes[n].parents) /\ dag.nodes[n].parents \ {} = dag.nodes[n].parents
    OBVIOUS
  <2>2. Cardinality(dag.nodes[n].parents \ {}) = 0 <=> dag.nodes[n].parents \subseteq {}
    BY LayeredParts
  <2>3. Cardinality(dag.nodes[n].parents \ {}) \in Nat
    BY LayeredParts
  <2> QED BY <2>1, <2>2, <2>3
<1>3. Finished(need, queue, {}) = {}
  BY <1>1, <1>2 DEF Finished, Lists
<1>4. need \in [1..N -> Nat]
  BY <1>2
<1>5. \A n \in 1..N : need[n] = Cardinality(dag.nodes[n].parents \ {})
  <2>1. \A n \in 1..N : dag.nodes[n].parents \ {} = dag.nodes[n].parents
    OBVIOUS
  <2> QED BY <1>2, <2>1
<1>6. \A n \in Range(queue) \cup {} : need[n] = 0
  BY <1>1, <1>2 DEF Lists
<1> QED BY <1>1, <1>3, <1>4, <1>5, <1>6 DEF Progress, Lists

(* A node that waits is not done. *)
LEMMA ProgressWaits ==
    ASSUME NEW dag, NEW need, NEW queue, NEW waiting,
           Progress(dag, need, queue, waiting), queue # <<>>
    PROVE  /\ Progress(dag, need, Tail(queue), waiting \cup {Head(queue)})
           /\ Finished(need, Tail(queue), waiting \cup {Head(queue)}) = Finished(need, queue, waiting)
           /\ Head(queue) \in 1..Len(dag.nodes) /\ Head(queue) \notin waiting
<1>1. /\ Sequence(Tail(queue)) /\ Len(Tail(queue)) = Len(queue) - 1 /\ Len(queue) \in Nat \ {0}
      /\ \A i \in 1..Len(Tail(queue)) : Tail(queue)[i] = queue[i + 1]
      /\ Head(queue) = queue[1] /\ Range(queue) = Range(Tail(queue)) \cup {Head(queue)}
  BY TailSequence DEF Progress
<1>2. Distinct(Tail(queue)) /\ Head(queue) \notin Range(Tail(queue))
  <2>1. \A i, j \in 1..Len(queue) : queue[i] = queue[j] => i = j
    BY DEF Progress, Distinct
  <2>2. ASSUME NEW i \in 1..Len(Tail(queue)), NEW j \in 1..Len(Tail(queue)), Tail(queue)[i] = Tail(queue)[j]
        PROVE  i = j
    <3>1. i + 1 \in 1..Len(queue) /\ j + 1 \in 1..Len(queue)
      BY <1>1
    <3>2. i + 1 = j + 1
      BY <1>1, <2>1, <2>2, <3>1
    <3> QED BY <3>2
  <2>3. ASSUME Head(queue) \in Range(Tail(queue)) PROVE FALSE
    <3>1. PICK i \in 1..Len(Tail(queue)) : Head(queue) = Tail(queue)[i]
      BY <1>1, <2>3, SequenceFacts
    <3>2. i + 1 \in 1..Len(queue) /\ 1 \in 1..Len(queue) /\ queue[i + 1] = queue[1]
      BY <1>1, <3>1
    <3>3. i + 1 = 1
      BY <2>1, <3>2
    <3> QED BY <3>3
  <2> QED BY <2>2, <2>3 DEF Distinct
<1>3. Finished(need, Tail(queue), waiting \cup {Head(queue)}) = Finished(need, queue, waiting)
  BY <1>1, <1>2 DEF Finished
<1>4. /\ Head(queue) \in 1..Len(dag.nodes) /\ Head(queue) \notin waiting
      /\ need \in [1..Len(dag.nodes) -> Nat]
      /\ Range(Tail(queue)) \subseteq 1..Len(dag.nodes)
      /\ waiting \cup {Head(queue)} \subseteq 1..Len(dag.nodes)
      /\ (waiting \cup {Head(queue)}) \cap Range(Tail(queue)) = {}
      /\ \A n \in Range(Tail(queue)) \cup (waiting \cup {Head(queue)}) : need[n] = 0
  BY <1>1, <1>2 DEF Progress
<1>5. \A n \in 1..Len(dag.nodes) :
          need[n] = Cardinality(dag.nodes[n].parents \ Finished(need, queue, waiting))
  BY DEF Progress
<1> QED BY <1>1, <1>2, <1>3, <1>4, <1>5 DEF Progress

(* Waiting nodes that are queued again are not done either. *)
LEMMA ProgressEnabled ==
    ASSUME NEW dag, NEW need, NEW waiting, Progress(dag, need, <<>>, waiting),
           NEW S \in SUBSET waiting, NEW order, Lists(order, S)
    PROVE  /\ Progress(dag, need, order, waiting \ S)
           /\ Finished(need, order, waiting \ S) = Finished(need, <<>>, waiting)
<1>1. Finished(need, order, waiting \ S) = Finished(need, <<>>, waiting)
  BY EmptySequence DEF Finished, Lists
<1>2. /\ need \in [1..Len(dag.nodes) -> Nat] /\ waiting \subseteq 1..Len(dag.nodes)
      /\ \A n \in waiting : need[n] = 0
      /\ \A n \in 1..Len(dag.nodes) :
            need[n] = Cardinality(dag.nodes[n].parents \ Finished(need, <<>>, waiting))
  BY DEF Progress
<1>3. Sequence(order) /\ Distinct(order) /\ Range(order) = S
  BY DEF Lists
<1> QED BY <1>1, <1>2, <1>3 DEF Progress

(* The parents of what is not blocked are done. *)
LEMMA FinishedAncestral ==
    ASSUME NEW dag, Layered(dag), NEW need, NEW queue, NEW waiting, Progress(dag, need, queue, waiting)
    PROVE  /\ Ancestral(dag, Finished(need, queue, waiting))
           /\ \A n \in 1..Len(dag.nodes) :
                 need[n] = 0 => dag.nodes[n].parents \subseteq Finished(need, queue, waiting)
           /\ Finished(need, queue, waiting) \subseteq 1..Len(dag.nodes)
<1> DEFINE D == Finished(need, queue, waiting)
<1>1. ASSUME NEW n \in 1..Len(dag.nodes), need[n] = 0 PROVE dag.nodes[n].parents \subseteq D
  <2>1. Cardinality(dag.nodes[n].parents \ D) = 0
    BY <1>1 DEF Progress
  <2> QED BY <2>1, LayeredParts
<1>2. \A n \in D : need[n] = 0 /\ n \in 1..Len(dag.nodes)
  BY DEF Finished, Progress
<1> QED BY <1>1, <1>2 DEF Ancestral

(* When nothing is queued and nothing waits, all is done. *)
LEMMA AllFinished ==
    ASSUME NEW dag, Layered(dag), NEW need, Progress(dag, need, <<>>, {})
    PROVE  Finished(need, <<>>, {}) = 1..Len(dag.nodes)
<1> DEFINE N == Len(dag.nodes)
           D == Finished(need, <<>>, {})
           Bad == {n \in 1..N : n \notin D}
<1>1. N \in Nat
  BY DEF Layered
<1>2. SUFFICES ASSUME Bad # {} PROVE FALSE
  BY FinishedAncestral
<1>3. PICK n \in Bad : \A m \in Bad : n <= m
  <2>1. Bad \subseteq Nat
    OBVIOUS
  <2> HIDE DEF Bad
  <2> QED BY <1>2, <2>1, LeastNatural
<1>4. dag.nodes[n].parents \subseteq D
  <2>1. dag.nodes[n].parents \subseteq 1..(n - 1)
    BY <1>3 DEF Layered
  <2>2. ASSUME NEW m \in 1..(n - 1) PROVE m \in D
    <3>1. m \in 1..N /\ ~ (n <= m)
      BY <1>1, <1>3
    <3> QED BY <1>3, <3>1
  <2> QED BY <2>1, <2>2
<1>5. need[n] = 0
  <2>1. need[n] = Cardinality(dag.nodes[n].parents \ D)
    BY <1>3 DEF Progress
  <2> QED BY <1>3, <1>4, <2>1, LayeredParts
<1>6. n \in D
  BY <1>3, <1>5, EmptySequence DEF Finished, Progress
<1> QED BY <1>3, <1>6

(* The nodes that wait for one. *)
Waiting(dag, need, n) == {m \in DOMAIN need : n \in dag.nodes[m].parents}

(* The head of the queue is done, and its successors wait for less. *)
Releasing(dag, need, queue, less, longer) ==
    /\ less = [n \in DOMAIN need |->
                 IF n \in Waiting(dag, need, Head(queue)) THEN need[n] - 1 ELSE need[n]]
    /\ longer = Tail(queue) \o Descending({n \in Waiting(dag, need, Head(queue)) : need[n] = 1})

(* The node at the head of the queue is done, and with it nothing else. *)
LEMMA ProgressReleases ==
    ASSUME NEW dag, Layered(dag), NEW need, NEW queue, NEW waiting,
           Progress(dag, need, queue, waiting), queue # <<>>,
           NEW less, NEW longer, Releasing(dag, need, queue, less, longer)
    PROVE  /\ Progress(dag, less, longer, waiting)
           /\ Finished(less, longer, waiting) = Finished(need, queue, waiting) \cup {Head(queue)}
           /\ Head(queue) \in 1..Len(dag.nodes) /\ Head(queue) \notin Finished(need, queue, waiting)
<1> DEFINE N == Len(dag.nodes)
           h == Head(queue)
           D == Finished(need, queue, waiting)
           T == Waiting(dag, need, h)
           R == {n \in T : need[n] = 1}
<1>1. /\ Sequence(Tail(queue)) /\ Distinct(Tail(queue)) /\ h \notin Range(Tail(queue))
      /\ Range(queue) = Range(Tail(queue)) \cup {h} /\ h \in 1..N /\ h \notin waiting
  <2>1. Progress(dag, need, Tail(queue), waiting \cup {Head(queue)}) /\ h \in 1..N /\ h \notin waiting
    BY ProgressWaits
  <2>2. Range(queue) = Range(Tail(queue)) \cup {h}
    BY TailSequence DEF Progress
  <2> QED BY <2>1, <2>2 DEF Progress
<1>2. /\ need \in [1..N -> Nat] /\ N \in Nat
      /\ waiting \subseteq 1..N /\ waiting \cap Range(queue) = {} /\ Range(queue) \subseteq 1..N
      /\ \A n \in Range(queue) \cup waiting : need[n] = 0
  BY DEF Progress, Layered
<1>3. D \subseteq 1..N /\ h \notin D /\ \A n \in D : need[n] = 0
  BY <1>1, <1>2 DEF Finished
<1>4. \A n \in T : n \in 1..N /\ h \in dag.nodes[n].parents
  BY <1>2 DEF Waiting
<1>5. ASSUME NEW n \in 1..N
      PROVE  /\ need[n] = Cardinality(dag.nodes[n].parents \ D) /\ need[n] \in Nat
             /\ Cardinality(dag.nodes[n].parents \ (D \cup {h})) = IF n \in T THEN need[n] - 1 ELSE need[n]
             /\ n \in T => need[n] # 0
  <2> DEFINE P == dag.nodes[n].parents \ D
             Q == dag.nodes[n].parents \ (D \cup {h})
  <2>1. need[n] = Cardinality(P) /\ need[n] \in Nat
    BY <1>2 DEF Progress
  <2>2. IsFiniteSet(P)
    BY LayeredParts
  <2>3. CASE n \in T
    <3>1. h \in P /\ Q = P \ {h}
      BY <1>3, <1>4, <2>3
    <3> HIDE DEF P, Q
    <3>2. Cardinality(P \ {h}) = Cardinality(P) - 1
      BY <2>2, <3>1, FS_RemoveElement
    <3>3. Cardinality(P) # 0
      BY <2>2, <3>1, FS_EmptySet
    <3> QED BY <2>1, <2>3, <3>1, <3>2, <3>3 DEF P, Q
  <2>4. CASE n \notin T
    <3>1. h \notin dag.nodes[n].parents
      BY <1>2, <2>4 DEF Waiting
    <3>2. Q = P
      BY <3>1
    <3> QED BY <2>1, <2>4, <3>2
  <2> QED BY <2>3, <2>4
<1>6. /\ DOMAIN less = 1..N
      /\ \A n \in 1..N : less[n] = IF n \in T THEN need[n] - 1 ELSE need[n]
  BY <1>2 DEF Releasing
<1>7. less \in [1..N -> Nat]
  <2>1. less = [n \in 1..N |-> less[n]]
    BY <1>2 DEF Releasing
  <2>2. ASSUME NEW n \in 1..N PROVE less[n] \in Nat
    <3>1. less[n] = IF n \in T THEN need[n] - 1 ELSE need[n]
      BY <1>6
    <3>2. need[n] \in Nat /\ (n \in T => need[n] # 0)
      BY <1>5
    <3> HIDE DEF T
    <3> QED BY <3>1, <3>2
  <2> QED BY <2>1, <2>2
<1>8. \A n \in 1..N : less[n] = 0 <=> need[n] = 0 \/ n \in R
  <2>1. ASSUME NEW n \in 1..N PROVE less[n] = 0 <=> need[n] = 0 \/ n \in R
    <3>1. less[n] = IF n \in T THEN need[n] - 1 ELSE need[n]
      BY <1>6
    <3>2. need[n] \in Nat /\ (n \in T => need[n] # 0)
      BY <1>5
    <3>3. n \in R <=> n \in T /\ need[n] = 1
      OBVIOUS
    <3> HIDE DEF T, R
    <3> QED BY <3>1, <3>2, <3>3
  <2> QED BY <2>1
<1>9. Lists(Descending(R), R)
  <2>1. R \in SUBSET (1..N)
    BY <1>4
  <2> HIDE DEF R
  <2> QED BY <1>2, <2>1, ListedInOrder
<1>10. \A n \in R : n \in 1..N /\ need[n] = 1
  BY <1>4
<1>11. longer = Tail(queue) \o Descending(R)
  BY DEF Releasing
<1> HIDE DEF T, R, D
<1>12. /\ Sequence(longer) /\ Range(longer) = Range(Tail(queue)) \cup R
  <2> DEFINE a == Tail(queue)
             b == Descending(R)
  <2>1. Sequence(a) /\ Sequence(b) /\ Range(b) = R
    BY <1>1, <1>9 DEF Lists
  <2> HIDE DEF a, b
  <2>2. Sequence(a \o b) /\ Range(a \o b) = Range(a) \cup Range(b)
    BY <2>1, JoinedSequence
  <2> QED BY <1>11, <2>1, <2>2 DEF a, b
<1>13. \A n \in R : n \notin Range(queue) /\ n \notin waiting
  BY <1>2, <1>10
<1>14. Distinct(longer)
  <2> DEFINE a == Tail(queue)
             b == Descending(R)
  <2>1. /\ Sequence(a) /\ Sequence(b) /\ Distinct(a) /\ Distinct(b) /\ Range(b) = R
        /\ Range(a) \subseteq Range(queue)
    BY <1>1, <1>9 DEF Lists
  <2> HIDE DEF a, b
  <2>2. /\ Len(a) \in Nat /\ Len(b) \in Nat
        /\ \A i \in 1..Len(a) : (a \o b)[i] = a[i]
        /\ \A i \in 1..Len(a \o b) : \/ i \in 1..Len(a)
                                     \/ i - Len(a) \in 1..Len(b) /\ (a \o b)[i] = b[i - Len(a)]
        /\ \A i \in 1..Len(a) : a[i] \in Range(a)
        /\ \A i \in 1..Len(b) : b[i] \in Range(b)
    BY <2>1, JoinedSequence, SequenceFacts
  <2>3. ASSUME NEW i \in 1..Len(a \o b), NEW j \in 1..Len(a \o b), (a \o b)[i] = (a \o b)[j]
        PROVE  i = j
    <3>1. CASE i \in 1..Len(a) /\ j \in 1..Len(a)
      BY <2>1, <2>2, <2>3, <3>1 DEF Distinct
    <3>2. CASE i \in 1..Len(a) /\ j \notin 1..Len(a)
      BY <1>13, <2>1, <2>2, <2>3, <3>2
    <3>3. CASE i \notin 1..Len(a) /\ j \in 1..Len(a)
      BY <1>13, <2>1, <2>2, <2>3, <3>3
    <3>4. CASE i \notin 1..Len(a) /\ j \notin 1..Len(a)
      <4>1. /\ i - Len(a) \in 1..Len(b) /\ (a \o b)[i] = b[i - Len(a)]
            /\ j - Len(a) \in 1..Len(b) /\ (a \o b)[j] = b[j - Len(a)]
        BY <2>2, <3>4
      <4>2. i - Len(a) = j - Len(a)
        BY <2>1, <2>3, <4>1 DEF Distinct
      <4> QED BY <2>2, <4>2
    <3> QED BY <3>1, <3>2, <3>3, <3>4
  <2> QED BY <1>11, <2>3 DEF Distinct, a, b
<1>15. Finished(less, longer, waiting) = D \cup {h}
  <2>1. ASSUME NEW n \in 1..N
        PROVE  n \in Finished(less, longer, waiting) <=> n \in D \/ n = h
    <3>1. n \in Finished(less, longer, waiting) <=>
              (need[n] = 0 \/ n \in R) /\ n \notin Range(Tail(queue)) /\ n \notin R /\ n \notin waiting
      BY <1>6, <1>8, <1>12 DEF Finished
    <3>2. n \in D <=> need[n] = 0 /\ n \notin Range(queue) /\ n \notin waiting
      BY <1>2 DEF Finished, D
    <3>3. need[h] = 0 /\ h \notin R
      BY <1>1, <1>2, <1>10
    <3> QED BY <1>1, <1>10, <3>1, <3>2, <3>3
  <2>2. Finished(less, longer, waiting) \subseteq 1..N
    BY <1>6 DEF Finished
  <2> QED BY <1>1, <1>3, <2>1, <2>2
<1>16. \A n \in 1..N : less[n] = Cardinality(dag.nodes[n].parents \ (D \cup {h}))
  BY <1>5, <1>6
<1>17. /\ Range(longer) \subseteq 1..N /\ waiting \cap Range(longer) = {}
       /\ \A n \in Range(longer) \cup waiting : less[n] = 0
  BY <1>1, <1>2, <1>8, <1>10, <1>12, <1>13
<1>18. Progress(dag, less, longer, waiting)
  BY <1>2, <1>7, <1>12, <1>14, <1>15, <1>16, <1>17 DEF Progress
<1> QED BY <1>1, <1>3, <1>15, <1>18 DEF D

-----------------------------------------------------------------------------
(* What a plan holds *)

Real(plan) == {k \in 1..Len(plan) : plan[k].kind # "swap"}

(* The plan holds the operations of S, each once, in the order R.          *)
Covers(ops, plan, S, R) ==
    /\ Sequence(plan)
    /\ \A k \in Real(plan) : /\ plan[k].source \in S
                             /\ plan[k].kind = ops[plan[k].source].kind
                             /\ plan[k].wires = ops[plan[k].source].wires
    /\ \A k, m \in Real(plan) : plan[k].source = plan[m].source => k = m
    /\ \A i \in S : \E k \in Real(plan) : plan[k].source = i
    /\ \A k, m \in Real(plan) : <<plan[k].source, plan[m].source>> \in R => k < m

(* The operations of the source in a concatenation are those of its parts. *)
LEMMA RealOfJoined ==
    ASSUME NEW p, NEW q, Sequence(p), Sequence(q)
    PROVE  /\ \A k \in Real(p) : k \in Real(p \o q) /\ (p \o q)[k] = p[k]
           /\ \A k \in Real(q) : Len(p) + k \in Real(p \o q) /\ (p \o q)[Len(p) + k] = q[k]
           /\ \A k \in Real(p \o q) : \/ k \in Real(p) /\ (p \o q)[k] = p[k]
                                      \/ k - Len(p) \in Real(q) /\ (p \o q)[k] = q[k - Len(p)]
           /\ \A k \in Real(p), m \in Real(q) : k \in Nat /\ m \in Nat /\ k < Len(p) + m
           /\ Len(p) \in Nat /\ \A k \in Real(p \o q) : k \in Nat
<1>1. /\ Len(p) \in Nat /\ Len(q) \in Nat /\ Len(p \o q) = Len(p) + Len(q)
      /\ \A i \in 1..Len(p) : (p \o q)[i] = p[i]
      /\ \A i \in 1..Len(q) : (p \o q)[Len(p) + i] = q[i]
      /\ \A i \in 1..Len(p \o q) :
            \/ i \in 1..Len(p)
            \/ i - Len(p) \in 1..Len(q) /\ (p \o q)[i] = q[i - Len(p)]
  BY JoinedSequence, SequenceFacts
<1>2. ASSUME NEW k \in Real(p) PROVE k \in Real(p \o q) /\ (p \o q)[k] = p[k]
  <2>1. k \in 1..Len(p) /\ p[k].kind # "swap"
    BY DEF Real
  <2>2. k \in 1..Len(p \o q)
    BY <1>1, <2>1
  <2> QED BY <1>1, <2>1, <2>2 DEF Real
<1>3. ASSUME NEW k \in Real(q) PROVE Len(p) + k \in Real(p \o q) /\ (p \o q)[Len(p) + k] = q[k]
  <2>1. k \in 1..Len(q) /\ q[k].kind # "swap"
    BY DEF Real
  <2>2. Len(p) + k \in 1..Len(p \o q)
    BY <1>1, <2>1
  <2>3. (p \o q)[Len(p) + k] = q[k]
    BY <1>1, <2>1
  <2> QED BY <2>1, <2>2, <2>3 DEF Real
<1>4. ASSUME NEW k \in Real(p \o q)
      PROVE  \/ k \in Real(p) /\ (p \o q)[k] = p[k]
             \/ k - Len(p) \in Real(q) /\ (p \o q)[k] = q[k - Len(p)]
  <2>1. k \in 1..Len(p \o q) /\ (p \o q)[k].kind # "swap"
    BY DEF Real
  <2>2. CASE k \in 1..Len(p)
    BY <1>1, <2>1, <2>2 DEF Real
  <2>3. CASE k - Len(p) \in 1..Len(q) /\ (p \o q)[k] = q[k - Len(p)]
    BY <2>1, <2>3 DEF Real
  <2> QED BY <1>1, <2>1, <2>2, <2>3
<1>5. \A k \in Real(p), m \in Real(q) : k \in Nat /\ m \in Nat /\ k < Len(p) + m
  BY <1>1 DEF Real
<1>6. \A k \in Real(p \o q) : k \in Nat
  BY <1>1 DEF Real
<1> QED BY <1>1, <1>2, <1>3, <1>4, <1>5, <1>6

(* A plan and what must not come before it. *)
LEMMA CoversMore ==
    ASSUME NEW ops, NEW R, NEW p, NEW q, NEW S, NEW T, Covers(ops, p, S, R), Covers(ops, q, T, R),
           S \cap T = {}, \A i \in T, j \in S : <<i, j>> \notin R
    PROVE  Covers(ops, p \o q, S \cup T, R)
<1> DEFINE r == p \o q
           n == Len(p)
<1>1. Sequence(p) /\ Sequence(q)
  BY DEF Covers
<1>2. /\ \A k \in Real(p) : k \in Real(r) /\ r[k] = p[k]
      /\ \A k \in Real(q) : n + k \in Real(r) /\ r[n + k] = q[k]
      /\ \A k \in Real(r) : \/ k \in Real(p) /\ r[k] = p[k]
                            \/ k - n \in Real(q) /\ r[k] = q[k - n]
      /\ \A k \in Real(p), m \in Real(q) : k \in Nat /\ m \in Nat /\ k < n + m
      /\ n \in Nat /\ \A k \in Real(r) : k \in Nat
  BY <1>1, RealOfJoined
<1>3. Sequence(r)
  BY <1>1, JoinedSequence
<1> HIDE DEF r, n
<1>4. \A k \in Real(r) : /\ r[k].source \in S \cup T
                         /\ r[k].kind = ops[r[k].source].kind
                         /\ r[k].wires = ops[r[k].source].wires
  BY <1>2 DEF Covers
<1>5. ASSUME NEW k \in Real(r), NEW m \in Real(r) 
      PROVE  /\ r[k].source = r[m].source => k = m
             /\ <<r[k].source, r[m].source>> \in R => k < m
  <2>1. CASE k \in Real(p) /\ r[k] = p[k] /\ m \in Real(p) /\ r[m] = p[m]
    BY <2>1 DEF Covers
  <2>2. CASE k \in Real(p) /\ r[k] = p[k] /\ m - n \in Real(q) /\ r[m] = q[m - n]
    <3>1. r[k].source \in S /\ r[m].source \in T
      BY <2>2 DEF Covers
    <3>2. k < n + (m - n) /\ n + (m - n) = m
      BY <1>2, <2>2
    <3> QED BY <3>1, <3>2
  <2>3. CASE k - n \in Real(q) /\ r[k] = q[k - n] /\ m \in Real(p) /\ r[m] = p[m]
    <3>1. r[k].source \in T /\ r[m].source \in S
      BY <2>3 DEF Covers
    <3> QED BY <3>1
  <2>4. CASE k - n \in Real(q) /\ r[k] = q[k - n] /\ m - n \in Real(q) /\ r[m] = q[m - n]
    <3>1. /\ r[k].source = r[m].source => k - n = m - n
          /\ <<r[k].source, r[m].source>> \in R => k - n < m - n
      BY <2>4 DEF Covers
    <3>2. n \in Nat /\ k \in Nat /\ m \in Nat
      BY <1>2
    <3> QED BY <3>1, <3>2
  <2> QED BY <1>2, <2>1, <2>2, <2>3, <2>4
<1>6. \A i \in S \cup T : \E k \in Real(r) : r[k].source = i
  <2>1. ASSUME NEW i \in S PROVE \E k \in Real(r) : r[k].source = i
    BY <1>2 DEF Covers
  <2>2. ASSUME NEW i \in T PROVE \E k \in Real(r) : r[k].source = i
    <3>1. PICK k \in Real(q) : q[k].source = i
      BY DEF Covers
    <3>2. n + k \in Real(r) /\ r[n + k] = q[k]
      BY <1>2
    <3> QED BY <3>1, <3>2
  <2> QED BY <2>1, <2>2
<1> QED BY <1>3, <1>4, <1>5, <1>6 DEF Covers, r

(* SWAPs hold none. *)
LEMMA CoversSwaps ==
    ASSUME NEW ops, NEW R, NEW swaps, Sequence(swaps)
    PROVE  Covers(ops, [i \in 1..Len(swaps) |-> Swap(swaps[i])], {}, R)
<1> DEFINE p == [i \in 1..Len(swaps) |-> Swap(swaps[i])]
<1>1. Len(swaps) \in Nat
  BY SequenceFacts
<1>2. Sequence(p) /\ Len(p) = Len(swaps)
  <2>1. DOMAIN p = 1..Len(swaps) /\ p = [i \in DOMAIN p |-> p[i]]
    OBVIOUS
  <2> HIDE DEF p
  <2> QED BY <1>1, <2>1, SequenceIntro
<1>3. \A k \in 1..Len(swaps) : p[k].kind = "swap"
  BY DEF Swap
<1> HIDE DEF p
<1>4. Real(p) = {}
  BY <1>2, <1>3 DEF Real
<1> QED BY <1>2, <1>4 DEF Covers, p

(* A sequence of operations in upward order holds them. *)
LEMMA CoversListed ==
    ASSUME NEW ops, NEW R, NEW s \in Seq(Nat), NEW p, Sequence(p), Len(p) = Len(s), Upwards(s),
           \A i, j \in Range(s) : <<i, j>> \in R => i < j,
           \A i \in Range(s) : ops[i].kind # "swap",
           \A j \in 1..Len(s) : /\ p[j].kind = ops[s[j]].kind /\ p[j].source = s[j]
                                /\ p[j].wires = ops[s[j]].wires
    PROVE  Covers(ops, p, Range(s), R)
<1>1. /\ Sequence(s) /\ Len(s) \in Nat /\ DOMAIN s = 1..Len(s)
      /\ \A i \in 1..Len(s) : s[i] \in Nat /\ s[i] \in Range(s)
      /\ \A x \in Range(s) : \E i \in 1..Len(s) : x = s[i]
  BY SequenceOf, SequenceFacts
<1>2. Real(p) = 1..Len(s)
  <2>1. ASSUME NEW k \in 1..Len(s) PROVE p[k].kind # "swap"
    <3>1. s[k] \in Range(s) /\ p[k].kind = ops[s[k]].kind
      BY <1>1
    <3> QED BY <3>1
  <2> QED BY <2>1 DEF Real
<1>3. \A k \in 1..Len(s) : /\ p[k].source \in Range(s)
                           /\ p[k].kind = ops[p[k].source].kind
                           /\ p[k].wires = ops[p[k].source].wires
  BY <1>1
<1>4. ASSUME NEW k \in 1..Len(s), NEW m \in 1..Len(s)
      PROVE  /\ p[k].source = p[m].source => k = m
             /\ <<p[k].source, p[m].source>> \in R => k < m
  <2>1. /\ k < m => s[k] < s[m]
        /\ m < k => s[m] < s[k]
        /\ s[k] \in Nat /\ s[m] \in Nat /\ k \in Nat /\ m \in Nat
        /\ s[k] \in Range(s) /\ s[m] \in Range(s)
        /\ p[k].source = s[k] /\ p[m].source = s[m]
    <3>1. \A i, j \in 1..Len(s) : i < j => s[i] < s[j]
      BY <1>1 DEF Upwards
    <3>2. p[k].source = s[k] /\ p[m].source = s[m]
      OBVIOUS
    <3>3. s[k] \in Nat /\ s[m] \in Nat /\ s[k] \in Range(s) /\ s[m] \in Range(s)
      BY <1>1
    <3> QED BY <1>1, <3>1, <3>2, <3>3
  <2>2. s[k] = s[m] => k = m
    BY <2>1
  <2>3. <<s[k], s[m]>> \in R => k < m
    <3>1. <<s[k], s[m]>> \in R => s[k] < s[m]
      BY <2>1
    <3> QED BY <2>1, <3>1
  <2> QED BY <2>1, <2>2, <2>3
<1>5. \A i \in Range(s) : \E k \in 1..Len(s) : p[k].source = i
  BY <1>1
<1> QED BY <1>2, <1>3, <1>4, <1>5 DEF Covers

-----------------------------------------------------------------------------
(* What orders the operations of a block *)

(* Those the source orders, and those emitted first with all others.       *)
Order(dag, ops) ==
    {x \in (1..Len(ops)) \X (1..Len(ops)) :
        \/ x[1] < x[2] /\ Precedes(ops[x[1]], ops[x[2]])
        \/ x[1] \in Range(dag.initial) /\ x[2] \notin Range(dag.initial)}

(* What is emitted when the nodes in D are done. *)
Emitted(dag, D) == Range(dag.initial) \cup UNION {Range(dag.nodes[n].ops) : n \in D}

(* What the order of a block relates. *)
LEMMA OrderIs ==
    ASSUME NEW dag, NEW ops, NEW i \in 1..Len(ops), NEW j \in 1..Len(ops)
    PROVE  <<i, j>> \in Order(dag, ops) <=>
               \/ i < j /\ Precedes(ops[i], ops[j])
               \/ i \in Range(dag.initial) /\ j \notin Range(dag.initial)
BY DEF Order

(* What a graph says of its nodes. *)
LEMMA GraphParts ==
    ASSUME NEW dag, NEW ops, IsGraph(dag, ops, Len(ops))
    PROVE  /\ Layered(dag) /\ dag.initial \in Seq(Nat) /\ Upwards(dag.initial)
           /\ Range(dag.initial) \subseteq 1..Len(ops)
           /\ \A n \in 1..Len(dag.nodes) :
                 /\ dag.nodes[n] \in NodeType
                 /\ Filed(dag.nodes[n], ops, Len(ops))
                 /\ \A a \in Range(dag.initial) : a \notin Range(dag.nodes[n].ops)
           /\ \A m, n \in 1..Len(dag.nodes) : m # n =>
                 \A a \in Range(dag.nodes[m].ops) : a \notin Range(dag.nodes[n].ops)
<1>1. Grown(dag, ops, Len(ops)) /\ Filled(dag, Len(ops))
  BY DEF IsGraph
<1>2. dag \in DagType
  BY <1>1 DEF Grown
<1>3. dag.nodes \in Seq(NodeType) /\ dag.initial \in Seq(Nat)
  BY <1>2 DEF DagType
<1>4. Len(dag.nodes) \in Nat /\ \A n \in 1..Len(dag.nodes) : dag.nodes[n] \in NodeType
  BY <1>3, SequenceOf
<1>5. Layered(dag)
  BY <1>1, <1>4 DEF Layered, Grown
<1>6. Range(dag.initial) \subseteq 1..Len(ops) /\ Upwards(dag.initial)
      /\ \A n \in 1..Len(dag.nodes) : Filed(dag.nodes[n], ops, Len(ops))
  BY <1>1 DEF Grown
<1> QED BY <1>1, <1>3, <1>4, <1>5, <1>6 DEF Filled

(* A node whose parents are done may follow what is done. *)
LEMMA MayFollow ==
    ASSUME NEW dag, NEW ops, IsGraph(dag, ops, Len(ops)), NEW D, D \subseteq 1..Len(dag.nodes),
           Ancestral(dag, D), NEW n \in 1..Len(dag.nodes), n \notin D
    PROVE  /\ Emitted(dag, D) \cap Range(dag.nodes[n].ops) = {}
           /\ \A i \in Range(dag.nodes[n].ops), j \in Emitted(dag, D) : <<i, j>> \notin Order(dag, ops)
           /\ Emitted(dag, D \cup {n}) = Emitted(dag, D) \cup Range(dag.nodes[n].ops)
<1>1. /\ \A m \in 1..Len(dag.nodes) : \A a \in Range(dag.initial) : a \notin Range(dag.nodes[m].ops)
      /\ \A m, k \in 1..Len(dag.nodes) : m # k =>
            \A a \in Range(dag.nodes[m].ops) : a \notin Range(dag.nodes[k].ops)
      /\ Range(dag.initial) \subseteq 1..Len(ops)
      /\ \A m \in 1..Len(dag.nodes) : \A a \in Range(dag.nodes[m].ops) : a \in 1..Len(ops)
  BY GraphParts DEF Filed
<1>2. Emitted(dag, D) \cap Range(dag.nodes[n].ops) = {}
  BY <1>1 DEF Emitted
<1>3. Ordered(dag, ops, D)
  BY DEF IsGraph
<1>4. ASSUME NEW i \in Range(dag.nodes[n].ops), NEW j \in Emitted(dag, D)
      PROVE  <<i, j>> \notin Order(dag, ops)
  <2>1. i \in 1..Len(ops) /\ i \notin Range(dag.initial)
    BY <1>1
  <2>2. CASE j \in Range(dag.initial)
    <3>1. i < j => ~ Precedes(ops[i], ops[j])
      BY <1>3, <2>2 DEF Ordered
    <3> QED BY <1>1, <2>1, <2>2, <3>1, OrderIs
  <2>3. CASE j \notin Range(dag.initial)
    <3>1. PICK m \in D : j \in Range(dag.nodes[m].ops)
      BY <2>3 DEF Emitted
    <3>2. i < j => ~ Precedes(ops[i], ops[j])
      BY <1>3, <3>1 DEF Ordered
    <3> QED BY <1>1, <2>1, <2>3, <3>1, <3>2, OrderIs
  <2> QED BY <2>2, <2>3
<1>5. Emitted(dag, D \cup {n}) = Emitted(dag, D) \cup Range(dag.nodes[n].ops)
  BY DEF Emitted
<1> QED BY <1>2, <1>4, <1>5

(* In the end every operation is emitted. *)
LEMMA AllEmitted ==
    ASSUME NEW dag, NEW ops, IsGraph(dag, ops, Len(ops))
    PROVE  Emitted(dag, 1..Len(dag.nodes)) = 1..Len(ops)
<1>1. \A n \in 1..Len(dag.nodes) : \A a \in Range(dag.nodes[n].ops) : a \in 1..Len(ops)
  BY GraphParts DEF Filed
<1>2. Range(dag.initial) \subseteq 1..Len(ops)
  BY GraphParts
<1>3. \A a \in 1..Len(ops) : a \in Range(dag.initial)
                             \/ \E p \in 1..Len(dag.nodes) : a \in Range(dag.nodes[p].ops)
  BY DEF IsGraph, Filled
<1> QED BY <1>1, <1>2, <1>3 DEF Emitted

(* What has no qubits is in a node only behind a barrier. *)
Late(dag, ops, i) ==
    /\ dag.barrier # 0 => \E m \in 1..i : IsBarrier(ops[m])
    /\ \A p \in 1..Len(dag.nodes) : \A a \in Range(dag.nodes[p].ops) :
          ops[a].wires = <<>> => \E m \in 1..a : IsBarrier(ops[m])
    /\ \A a \in Range(dag.initial) : ~ IsBarrier(ops[a]) /\ Class(ops[a]) = "Synchronize"

(* Adding an operation keeps late what the graph places after it. *)
LEMMA LateFurther ==
    ASSUME NEW ops, NEW i \in Nat \ {0}, ops[i] \in OperationType, ops[i].wires = <<>> => ops[i].kind # "gate",
           NEW dag, Grown(dag, ops, i - 1), Late(dag, ops, i - 1)
    PROVE  Late(Added(dag, ops[i], i), ops, i)
<1> DEFINE new == Added(dag, ops[i], i)
<1>1. /\ dag \in DagType /\ dag.barrier \in 0..Len(dag.nodes)
      /\ \A w \in Logical : dag.wire[w] \in 0..Len(dag.nodes)
  BY DEF Grown
<1>2. \/ AddedFirst(dag, new, ops[i], i)
      \/ \E p \in 1..Len(dag.nodes) : AddedTo(p, dag, new, ops[i], i)
      \/ AddedLast(dag, new, ops[i], i)
  BY <1>1, AddedIs
<1> HIDE DEF new
<1>3. \A m \in 1..(i - 1) : m \in 1..i
  OBVIOUS
<1>4. ASSUME AddedFirst(dag, new, ops[i], i) PROVE Late(new, ops, i)
  <2>1. Range(new.initial) = Range(dag.initial) \cup {i} /\ new.nodes = dag.nodes
    <3>1. dag.initial \in Seq(Nat)
      BY <1>1 DEF DagType
    <3>2. Range(Append(dag.initial, i)) = Range(dag.initial) \cup {i}
      BY <3>1, SequenceOf, AppendedSequence
    <3> QED BY <1>4, <3>2 DEF AddedFirst
  <2>2. new.barrier = dag.barrier /\ ~ IsBarrier(ops[i]) /\ Class(ops[i]) = "Synchronize"
    BY <1>4 DEF AddedFirst
  <2>3. dag.barrier # 0 => \E m \in 1..i : IsBarrier(ops[m])
    BY <1>3 DEF Late
  <2>4. /\ \A p \in 1..Len(new.nodes) : \A a \in Range(new.nodes[p].ops) :
              ops[a].wires = <<>> => \E m \in 1..a : IsBarrier(ops[m])
    BY <2>1 DEF Late
  <2>5. \A a \in Range(new.initial) : ~ IsBarrier(ops[a]) /\ Class(ops[a]) = "Synchronize"
    BY <2>1, <2>2 DEF Late
  <2>6. new.barrier # 0 => \E m \in 1..i : IsBarrier(ops[m])
    BY <2>2, <2>3
  <2> QED BY <2>4, <2>5, <2>6 DEF Late
<1>5. ASSUME NEW p \in 1..Len(dag.nodes), AddedTo(p, dag, new, ops[i], i) PROVE Late(new, ops, i)
  <2>1. HoldsAlso(p, dag, new, i)
    BY <1>5, HeldTo
  <2>2. ops[i].wires # <<>>
    <3>1. Class(ops[i]) \in {"Unary", "TwoQ"}
      BY <1>5 DEF AddedTo, Foldable
    <3> QED BY <3>1 DEF Class
  <2>3. new.barrier = dag.barrier
    BY <1>5 DEF AddedTo
  <2>4. ASSUME NEW q \in 1..Len(dag.nodes), NEW a \in Range(new.nodes[q].ops), ops[a].wires = <<>>
        PROVE  \E m \in 1..a : IsBarrier(ops[m])
    <3>1. a \in Range(dag.nodes[q].ops)
      BY <2>1, <2>2, <2>4 DEF HoldsAlso
    <3> QED BY <2>4, <3>1 DEF Late
  <2>5. Len(new.nodes) = Len(dag.nodes) /\ new.initial = dag.initial
    BY <2>1 DEF HoldsAlso
  <2>6. dag.barrier # 0 => \E m \in 1..i : IsBarrier(ops[m])
    BY <1>3 DEF Late
  <2>7. \A a \in Range(dag.initial) : ~ IsBarrier(ops[a]) /\ Class(ops[a]) = "Synchronize"
    BY DEF Late
  <2> QED BY <2>3, <2>4, <2>5, <2>6, <2>7 DEF Late
<1>6. ASSUME AddedLast(dag, new, ops[i], i) PROVE Late(new, ops, i)
  <2>1. HoldsLast(dag, new, ops[i], i)
    BY <1>6, HeldLast
  <2>2. new.barrier = IF IsBarrier(ops[i]) THEN Len(dag.nodes) + 1 ELSE dag.barrier
    BY <1>6 DEF AddedLast
  <2>3. new.barrier # 0 => \E m \in 1..i : IsBarrier(ops[m])
    BY <1>3, <2>2 DEF Late
  <2>4. ops[i].wires = <<>> => \E m \in 1..i : IsBarrier(ops[m])
    <3>1. CASE IsBarrier(ops[i])
      BY <3>1
    <3>2. CASE ops[i].wires = <<>> /\ ~ IsBarrier(ops[i])
      <4>1. Class(ops[i]) = "Synchronize"
        BY <3>2 DEF Class, IsBarrier
      <4>2. Parents(dag, ops[i]) # {}
        <5>1. SUFFICES ASSUME Parents(dag, ops[i]) = {} PROVE FALSE
          OBVIOUS
        <5>2. new = [dag EXCEPT !.initial = Append(@, i)]
          BY <3>2, <4>1, <5>1 DEF Added, new
        <5>3. new.nodes = dag.nodes
          BY <1>1, <5>2 DEF DagType
        <5> QED BY <2>1, <5>3 DEF HoldsLast
      <4>3. Range(ops[i].wires) = {}
        BY <3>2, EmptySequence
      <4>4. dag.barrier # 0
        BY <3>2, <4>2, <4>3 DEF Parents
      <4> QED BY <1>3, <4>4 DEF Late
    <3> QED BY <3>1, <3>2
  <2>5. ASSUME NEW q \in 1..Len(new.nodes), NEW a \in Range(new.nodes[q].ops), ops[a].wires = <<>>
        PROVE  \E m \in 1..a : IsBarrier(ops[m])
    <3>1. CASE q \in 1..Len(dag.nodes)
      <4>1. a \in Range(dag.nodes[q].ops)
        BY <2>1, <3>1, <2>5 DEF HoldsLast
      <4> QED BY <2>5, <3>1, <4>1 DEF Late
    <3>2. CASE q = Len(dag.nodes) + 1
      <4>1. a = i
        BY <2>1, <3>2, <2>5 DEF HoldsLast
      <4> QED BY <2>4, <2>5, <4>1
    <3> QED BY <2>1, <3>1, <3>2 DEF HoldsLast
  <2>6. \A a \in Range(new.initial) : ~ IsBarrier(ops[a]) /\ Class(ops[a]) = "Synchronize"
    BY <2>1 DEF Late, HoldsLast
  <2> QED BY <2>3, <2>5, <2>6 DEF Late
<1>7. Late(new, ops, i)
  BY <1>2, <1>4, <1>5, <1>6
<1> QED BY <1>7 DEF new

(* So the graph of a block does. *)
LEMMA DagIsLate ==
    ASSUME NEW ops \in Seq(OperationType),
           \A i \in 1..Len(ops) : ops[i].wires = <<>> => ops[i].kind # "gate"
    PROVE  Late(Dag(ops), ops, Len(ops))
<1> DEFINE n == Len(ops)
           d == CHOOSE x : Builds(x, ops, n)
<1>1. n \in Nat /\ \A i \in 1..n : ops[i] \in OperationType
  OBVIOUS
<1>2. Builds(d, ops, n)
  <2> HIDE DEF n
  <2> QED BY <1>1, BuildsExists
<1>3. Dag(ops) = d[n]
  BY DEF Dag, Builds
<1>4. \A i \in 1..n : ops[i].wires = <<>> => ops[i].kind # "gate"
  OBVIOUS
<1> HIDE DEF d, n
<1> DEFINE T == {i \in 0..n : IsGraph(d[i], ops, i) /\ Late(d[i], ops, i)}
<1>5. \A i \in 0..n : d[i] = IF i = 0 THEN NoOperations ELSE Added(d[i - 1], ops[i], i)
  BY <1>2 DEF Builds
<1>6. 0 \in T
  <2>1. d[0] = NoOperations /\ 0 \in 0..n
    BY <1>1, <1>5
  <2>2. Late(NoOperations, ops, 0)
    <3>1. Len(NoOperations.nodes) = 0 /\ NoOperations.barrier = 0
      BY EmptySequence DEF NoOperations
    <3>2. \A p \in 1..0 : FALSE
      OBVIOUS
    <3>3. Range(NoOperations.initial) = {}
      BY EmptySequence DEF NoOperations
    <3> QED BY <3>1, <3>2, <3>3 DEF Late
  <2> QED BY <2>1, <2>2, GraphOfNone
<1>7. ASSUME NEW i \in 1..n, i - 1 \in T PROVE i \in T
  <2>1. d[i] = Added(d[i - 1], ops[i], i) /\ i \in Nat \ {0} /\ i \in 0..n
    BY <1>1, <1>5
  <2>2. IsGraph(d[i - 1], ops, i - 1) /\ Late(d[i - 1], ops, i - 1)
    BY <1>7
  <2>3. IsGraph(Added(d[i - 1], ops[i], i), ops, i)
    BY <1>1, <2>1, <2>2, GraphOfMore
  <2>4. Late(Added(d[i - 1], ops[i], i), ops, i)
    <3>1. Grown(d[i - 1], ops, i - 1)
      BY <2>2 DEF IsGraph
    <3> QED BY <1>1, <1>4, <2>1, <2>2, <3>1, LateFurther
  <2> QED BY <2>1, <2>3, <2>4
<1> HIDE DEF T
<1>8. \A i \in 1..n : i - 1 \in T => i \in T
  BY <1>7
<1>9. \A i \in 0..n : i \in T
  BY <1>1, <1>6, <1>8, CountUp
<1>10. Late(d[n], ops, n)
  BY <1>1, <1>9 DEF T
<1> QED BY <1>3, <1>10 DEF n

(* Operations of a block, as its validation leaves them. *)
LEMMA OperationsAre ==
    ASSUME NEW b \in DOMAIN Program, NEW i \in 1..Len(Program[b])
    PROVE  /\ Program[b] \in Seq(OperationType) /\ Program[b][i] \in OperationType
           /\ i \in DOMAIN Program[b] /\ Len(Program[b]) \in Nat
           /\ IsInjective(Program[b][i].wires)
           /\ Program[b][i].kind = "gate" => Len(Program[b][i].wires) \in {1, 2}
           /\ Program[b][i].kind \notin Control => Program[b][i].bodies = <<>>
           /\ Program[b][i].kind \in Transfers => Program[b][i].wires = <<>> /\ i = Len(Program[b])
           /\ Program[b][i].kind # "swap"
<1>1. Program[b] \in Seq(OperationType)
  BY DagsAreGraphs
<1>2. Program[b][i] \in OperationType /\ i \in DOMAIN Program[b] /\ Len(Program[b]) \in Nat
  BY <1>1, SequenceOf
<1>3. Program[b][i].kind # "swap"
  BY <1>2 DEF OperationType, Control, Transfers
<1> QED BY <1>1, <1>2, <1>3, ProgramIsValid

(* And those of all blocks of the program do. *)
LEMMA DagsAreLate ==
    ASSUME NEW b \in DOMAIN Program
    PROVE  Late(Dags[b], Program[b], Len(Program[b]))
<1>1. Program[b] \in Seq(OperationType)
  BY DagsAreGraphs
<1>2. ASSUME NEW i \in 1..Len(Program[b]), Program[b][i].wires = <<>> PROVE Program[b][i].kind # "gate"
  <2>1. Len(<<>>) \notin {1, 2}
    BY EmptySequence
  <2> QED BY <1>2, <2>1, OperationsAre
<1> QED BY <1>1, <1>2, DagIsLate DEF Dags

(* Where exits are direct, everything comes before the transfer of a body. *)
LEMMA TransferLast ==
    ASSUME ExitsAreDirect, NEW b \in DOMAIN Program, NEW i \in 1..Len(Program[b]),
           NEW c \in Range(Program[b][i].bodies),
           Program[c][Len(Program[c])].kind \in Transfers, Len(Program[c]) # 0
    PROVE  \A j \in 1..Len(Program[c]) :
               j # Len(Program[c]) => <<j, Len(Program[c])>> \in Order(Dags[c], Program[c])
<1> DEFINE ops == Program[c]
           n == Len(ops)
           dag == Dags[c]
<1>1. c \in DOMAIN Program
  <2>1. Program[b][i] \in OperationType
    BY OperationsAre
  <2>2. Program[b][i].bodies \in Seq(DOMAIN Program)
    BY <2>1 DEF OperationType
  <2> QED BY <2>2, SequenceOf
<1>2. ops \in Seq(OperationType) /\ IsGraph(dag, ops, n)
  BY <1>1, DagsAreGraphs
<1>3. n \in Nat /\ n \in 1..n /\ DOMAIN ops = 1..n /\ i \in DOMAIN Program[b]
  BY <1>2, SequenceOf, OperationsAre
<1>4. \A k \in 1..n : ops[k].wires = <<>> /\ ~ IsBarrier(ops[k]) => \A m \in 1..k : ~ IsBarrier(ops[m])
  BY <1>3 DEF ExitsAreDirect
<1>5. Late(dag, ops, n)
  BY <1>1, DagsAreLate
<1>6. IsBarrier(ops[n])
  BY DEF IsBarrier
<1>7. ASSUME NEW j \in 1..n, j # n PROVE <<j, n>> \in Order(dag, ops)
  <2>1. j < n
    BY <1>3, <1>7
  <2>2. CASE IsBarrier(ops[j]) \/ ops[j].wires # <<>>
    <3>1. Precedes(ops[j], ops[n])
      BY <1>6, <2>2 DEF Precedes
    <3> QED BY <1>3, <2>1, <3>1, OrderIs
  <2>3. CASE ~ IsBarrier(ops[j]) /\ ops[j].wires = <<>>
    <3>1. \A m \in 1..j : ~ IsBarrier(ops[m])
      BY <1>4, <2>3
    <3>2. \A p \in 1..Len(dag.nodes) : j \notin Range(dag.nodes[p].ops)
      BY <1>5, <2>3, <3>1 DEF Late
    <3>3. /\ \A a \in 1..n : a \in Range(dag.initial)
                             \/ \E p \in 1..Len(dag.nodes) : a \in Range(dag.nodes[p].ops)
      BY <1>2 DEF IsGraph, Filled
    <3>4. j \in Range(dag.initial)
      BY <3>2, <3>3
    <3>5. n \notin Range(dag.initial)
      BY <1>5, <1>6 DEF Late
    <3> QED BY <1>3, <3>4, <3>5, OrderIs
  <2> QED BY <2>2, <2>3
<1> QED BY <1>7

-----------------------------------------------------------------------------
(* Plans and SWAPs *)

(* Operations other than SWAPs leave the layout alone. *)
LEMMA LeadsStill ==
    ASSUME NEW p, Sequence(p), NEW L, Placed(L), NEW c,
           \A k \in 1..Len(p) : p[k].kind # "swap" /\ Right(p[k], L, c)
    PROVE  Leads(p, L, L, c)
<1> DEFINE t == [k \in 0..Len(p) |-> L]
<1>1. Len(p) \in Nat
  BY SequenceFacts
<1>2. /\ t[0] = L /\ t[Len(p)] = L
      /\ \A k \in 1..Len(p) : t[k] = L /\ t[k - 1] = L
  <2>1. 0 \in 0..Len(p) /\ Len(p) \in 0..Len(p)
        /\ \A k \in 1..Len(p) : k \in 0..Len(p) /\ k - 1 \in 0..Len(p)
    BY <1>1
  <2> QED BY <2>1
<1> HIDE DEF t
<1>3. Walk(p, L, t)
  BY <1>2 DEF Walk, After
<1>4. Walks(p, L, c, t)
  BY <1>2, <1>3 DEF Walks
<1> QED BY <1>2, <1>4 DEF Leads

(* An operation in its place is a plan. *)
LEMMA LeadsOne ==
    ASSUME NEW op, NEW L, Placed(L), NEW c, op.kind # "swap", Right(op, L, c)
    PROVE  Leads(<<op>>, L, L, c)
<1>1. Len(<<op>>) = 1 /\ (<<op>>)[1] = op /\ \A k \in 1..1 : k = 1
  OBVIOUS
<1>2. Sequence(<<op>>)
  BY DEF Sequence, Range
<1>3. \A k \in 1..Len(<<op>>) : (<<op>>)[k].kind # "swap" /\ Right((<<op>>)[k], L, c)
  BY <1>1
<1> QED BY <1>2, <1>3, LeadsStill

(* M is the layout behind the SWAPs from L. *)
Behind(L, swaps, M) ==
    \E u : /\ u[0] = L /\ u[Len(swaps)] = M
           /\ \A k \in 1..Len(swaps) : u[k] = Swapped(u[k - 1], swaps[k])

(* The SWAP of an edge acts on its ends. *)
LEMMA SwapIs ==
    ASSUME NEW e \in Edges
    PROVE  /\ Range(Swap(e).at) = e /\ Len(Swap(e).at) = 2 /\ Adjacent(Swap(e).at)
           /\ Swap(e).kind = "swap" /\ Swap(e).wires = <<>>
<1>1. PICK a, b \in Physical : a # b /\ e = {a, b}
  BY ExchangeOf
<1>2. IsFiniteSet(e)
  BY <1>1, PhysicalIsFinite, FS_Subset
<1>3. \E s \in [1..Cardinality(e) -> e] : IsInjective(s)
  <2> DEFINE s == <<a, b>>
  <2>1. s \in [1..2 -> e] /\ \A i, j \in 1..2 : s[i] = s[j] => i = j
    BY <1>1
  <2>2. Cardinality(e) = 2
    BY EdgesArePairs
  <2>3. IsInjective(s)
    BY <2>1 DEF IsInjective
  <2> HIDE DEF s
  <2> QED BY <2>1, <2>2, <2>3
<1> DEFINE w == SetToSeq(e)
<1>4. w \in [1..2 -> e] /\ IsInjective(w)
  <2>1. w \in [1..Cardinality(e) -> e] /\ IsInjective(w)
    BY <1>3 DEF SetToSeq
  <2> QED BY <2>1, EdgesArePairs
<1> HIDE DEF w
<1>5. w[1] # w[2] /\ w[1] \in e /\ w[2] \in e /\ Len(w) = 2 /\ DOMAIN w = 1..2
  BY <1>4 DEF IsInjective
<1>6. {w[1], w[2]} = e
  BY <1>1, <1>5
<1>7. Range(w) = {w[1], w[2]}
  BY <1>5 DEF Range
<1> QED BY <1>5, <1>6, <1>7 DEF Swap, w, Adjacent

(* No SWAPs lead nowhere. *)
LEMMA BehindNone ==
    ASSUME NEW L
    PROVE  Behind(L, <<>>, L)
<1> DEFINE u == [k \in 0..0 |-> L]
<1>1. u[0] = L /\ Len(<<>>) = 0 /\ \A k \in 1..0 : FALSE
  BY EmptySequence
<1> HIDE DEF u
<1> QED BY <1>1 DEF Behind

(* One more SWAP. *)
LEMMA BehindNext ==
    ASSUME NEW L, NEW swaps, Sequence(swaps), NEW M, Behind(L, swaps, M), NEW e
    PROVE  Behind(L, Append(swaps, e), Swapped(M, e))
<1> DEFINE n == Len(swaps)
<1>1. PICK u : u[0] = L /\ u[n] = M /\ \A k \in 1..n : u[k] = Swapped(u[k - 1], swaps[k])
  BY DEF Behind
<1>2. /\ n \in Nat /\ Len(Append(swaps, e)) = n + 1 /\ Append(swaps, e)[n + 1] = e
      /\ \A k \in 1..n : Append(swaps, e)[k] = swaps[k]
  BY AppendedSequence, SequenceFacts
<1> HIDE DEF n
<1> DEFINE v == [k \in 0..(n + 1) |-> IF k = n + 1 THEN Swapped(M, e) ELSE u[k]]
<1>3. v[n + 1] = Swapped(M, e) /\ \A k \in 0..n : v[k] = u[k]
  <2>1. n + 1 \in 0..(n + 1) /\ \A k \in 0..n : k \in 0..(n + 1) /\ k # n + 1
    BY <1>2
  <2> QED BY <2>1
<1> HIDE DEF v
<1>4. v[0] = L
  BY <1>1, <1>2, <1>3
<1>5. ASSUME NEW k \in 1..(n + 1) PROVE v[k] = Swapped(v[k - 1], Append(swaps, e)[k])
  <2>1. CASE k = n + 1
    <3>1. k - 1 = n /\ n \in 0..n
      BY <1>2, <2>1
    <3> QED BY <1>1, <1>2, <1>3, <2>1, <3>1
  <2>2. CASE k # n + 1
    <3>1. k \in 1..n /\ k \in 0..n /\ k - 1 \in 0..n
      BY <1>2, <2>2
    <3> QED BY <1>1, <1>2, <1>3, <3>1
  <2> QED BY <2>1, <2>2
<1> QED BY <1>2, <1>3, <1>4, <1>5 DEF Behind

(* Every layout behind SWAPs has its qubits in places of their own. *)
LEMMA BehindPlaced ==
    ASSUME NEW L, Placed(L), NEW swaps \in Seq(Edges), NEW u, u[0] = L,
           \A k \in 1..Len(swaps) : u[k] = Swapped(u[k - 1], swaps[k])
    PROVE  \A k \in 0..Len(swaps) : Placed(u[k])
<1> DEFINE n == Len(swaps)
           T == {k \in 0..n : Placed(u[k])}
<1>1. n \in Nat /\ \A k \in 1..n : swaps[k] \in Edges
  OBVIOUS
<1> HIDE DEF n
<1>2. 0 \in T
  BY <1>1
<1>3. ASSUME NEW k \in 1..n, k - 1 \in T PROVE k \in T
  <2>1. Placed(u[k - 1]) /\ swaps[k] \in Edges /\ u[k] = Swapped(u[k - 1], swaps[k])
    BY <1>1, <1>3 DEF n
  <2>2. Placed(u[k])
    BY <2>1, SwappedPlaced
  <2> QED BY <1>1, <2>2
<1> HIDE DEF T
<1>4. \A k \in 1..n : k - 1 \in T => k \in T
  BY <1>3
<1>5. \A k \in 0..n : k \in T
  BY <1>1, <1>2, <1>4, CountUp
<1> QED BY <1>5 DEF T, n

(* SWAPs are a plan to the layout behind them. *)
LEMMA LeadsSwaps ==
    ASSUME NEW L, Placed(L), NEW swaps \in Seq(Edges), NEW M, Behind(L, swaps, M), NEW c
    PROVE  Leads([i \in 1..Len(swaps) |-> Swap(swaps[i])], L, M, c) /\ Placed(M)
<1> DEFINE n == Len(swaps)
           p == [i \in 1..Len(swaps) |-> Swap(swaps[i])]
<1>1. PICK u : u[0] = L /\ u[n] = M /\ \A k \in 1..n : u[k] = Swapped(u[k - 1], swaps[k])
  BY DEF Behind
<1>2. n \in Nat /\ \A k \in 1..n : swaps[k] \in Edges
  OBVIOUS
<1>3. \A k \in 0..n : Placed(u[k])
  BY <1>1, BehindPlaced
<1>4. Sequence(p) /\ Len(p) = n
  <2>1. DOMAIN p = 1..n /\ p = [i \in DOMAIN p |-> p[i]]
    OBVIOUS
  <2> HIDE DEF p, n
  <2> QED BY <1>2, <2>1, SequenceIntro
<1>5. \A k \in 1..n : p[k] = Swap(swaps[k])
  OBVIOUS
<1> HIDE DEF p, n
<1>6. ASSUME NEW k \in 1..n
      PROVE  u[k] = After(u[k - 1], p[k]) /\ Right(p[k], u[k - 1], c)
  <2>1. /\ Range(p[k].at) = swaps[k] /\ Len(p[k].at) = 2 /\ Adjacent(p[k].at)
        /\ p[k].kind = "swap" /\ p[k].wires = <<>>
    BY <1>2, <1>5, SwapIs
  <2>2. u[k] = After(u[k - 1], p[k])
    BY <1>1, <2>1 DEF After
  <2>3. p[k].kind \notin Control /\ p[k].kind \notin Transfers /\ Len(p[k].wires) = 0
    BY <2>1, EmptySequence DEF Control, Transfers
  <2>4. \A j \in 1..0 : FALSE
    OBVIOUS
  <2>5. Right(p[k], u[k - 1], c)
    BY <1>2, <2>1, <2>3, <2>4 DEF Right, Fits
  <2> QED BY <2>2, <2>5
<1>7. Walks(p, L, c, u) /\ u[Len(p)] = M
  BY <1>1, <1>4, <1>6 DEF Walks, Walk
<1>8. Placed(M)
  <2>1. n \in 0..n
    BY <1>2
  <2> QED BY <1>1, <1>3, <2>1
<1>9. Leads(p, L, M, c)
  BY <1>4, <1>7, <1>8 DEF Leads
<1> QED BY <1>8, <1>9 DEF p

(* A plan without its last operation, when that is not a SWAP. *)
LEMMA LeadsShorter ==
    ASSUME NEW p, NEW L, NEW M, NEW c, Leads(p, L, M, c), Len(p) > 0, p[Len(p)].kind # "swap"
    PROVE  Leads(SubSeq(p, 1, Len(p) - 1), L, M, c) /\ Right(p[Len(p)], M, c)
<1> DEFINE n == Len(p)
           q == SubSeq(p, 1, n - 1)
<1>1. Sequence(p) /\ Placed(L) /\ Placed(M)
  BY DEF Leads
<1>2. PICK t : Walks(p, L, c, t) /\ t[n] = M
  BY DEF Leads
<1>3. n \in Nat \ {0}
  BY <1>1, SequenceFacts
<1>4. Sequence(q) /\ Len(q) = n - 1 /\ \A k \in 1..(n - 1) : q[k] = p[k]
  <2>1. p \in Seq(Range(p)) /\ n = Len(p)
    BY <1>1 DEF Sequence
  <2> HIDE DEF n
  <2>2. q \in Seq(Range(p)) /\ Len(q) = n - 1 /\ \A k \in 1..(n - 1) : q[k] = p[k]
    BY <1>3, <2>1
  <2> HIDE DEF q
  <2> QED BY <2>2, SequenceOf
<1>5. t[n] = After(t[n - 1], p[n]) /\ Right(p[n], t[n - 1], c)
  <2>1. n \in 1..n
    BY <1>3
  <2> QED BY <1>2, <2>1 DEF Walks, Walk
<1>6. t[n - 1] = M
  BY <1>2, <1>5 DEF After
<1>7. ASSUME NEW k \in 1..(n - 1)
      PROVE  t[k] = After(t[k - 1], q[k]) /\ Right(q[k], t[k - 1], c)
  <2>1. k \in 1..n
    BY <1>3
  <2> QED BY <1>2, <1>4, <2>1 DEF Walks, Walk
<1>8. Walks(q, L, c, t)
  BY <1>2, <1>4, <1>7 DEF Walks, Walk
<1>9. Leads(q, L, M, c)
  BY <1>1, <1>4, <1>6, <1>8 DEF Leads
<1> QED BY <1>5, <1>6, <1>9

(* The recursion of Moved. *)
Moves(at, L, swaps, n) ==
    at = [i \in 0..n |-> IF i = 0 THEN L ELSE Swapped(at[i - 1], swaps[i])]

(* SWAPs can be followed one at a time. *)
LEMMA MovesExists ==
    ASSUME NEW L, NEW swaps, NEW n \in Nat
    PROVE  \E at : Moves(at, L, swaps, n)
<1> DEFINE T == {k \in 0..n : \E d : Moves(d, L, swaps, k)}
<1>1. 0 \in T
  <2> DEFINE d == [i \in 0..0 |-> L]
  <2>1. d = [i \in 0..0 |-> IF i = 0 THEN L ELSE Swapped(d[i - 1], swaps[i])]
    OBVIOUS
  <2>2. Moves(d, L, swaps, 0)
    BY <2>1 DEF Moves
  <2> HIDE DEF d
  <2> QED BY <2>2
<1>2. ASSUME NEW k \in 1..n, k - 1 \in T PROVE k \in T
  <2>1. PICK d : Moves(d, L, swaps, k - 1)
    BY <1>2
  <2> DEFINE e == [i \in 0..k |-> IF i = k THEN Swapped(d[k - 1], swaps[k]) ELSE d[i]]
  <2>2. d = [i \in 0..(k - 1) |-> IF i = 0 THEN L ELSE Swapped(d[i - 1], swaps[i])]
    BY <2>1 DEF Moves
  <2>3. ASSUME NEW i \in 0..k
        PROVE  e[i] = IF i = 0 THEN L ELSE Swapped(e[i - 1], swaps[i])
    <3>1. CASE i = k
      <4>1. i # 0 /\ i - 1 \in 0..k /\ i - 1 # k
        BY <3>1
      <4>2. e[i - 1] = d[i - 1]
        BY <4>1
      <4> QED BY <3>1, <4>1, <4>2
    <3>2. CASE i # k /\ i # 0
      <4>1. i - 1 \in 0..k /\ i - 1 # k /\ i \in 0..(k - 1)
        BY <3>2
      <4>2. e[i - 1] = d[i - 1] /\ e[i] = d[i]
        BY <3>2, <4>1
      <4>3. d[i] = Swapped(d[i - 1], swaps[i])
        <5> HIDE DEF e
        <5> QED BY <2>2, <3>2, <4>1
      <4> QED BY <3>2, <4>2, <4>3
    <3>3. CASE i = 0
      <4>1. i # k /\ 0 \in 0..(k - 1)
        BY <3>3
      <4>2. d[0] = L
        <5> HIDE DEF e
        <5> QED BY <2>2, <4>1
      <4> QED BY <3>3, <4>1, <4>2
    <3> QED BY <3>1, <3>2, <3>3
  <2>4. e = [i \in 0..k |-> e[i]]
    OBVIOUS
  <2> HIDE DEF e
  <2>5. Moves(e, L, swaps, k)
    BY <2>3, <2>4 DEF Moves
  <2> QED BY <2>5
<1> HIDE DEF T
<1>3. \A k \in 1..n : k - 1 \in T => k \in T
  BY <1>2
<1>4. \A k \in 0..n : k \in T
  BY <1>1, <1>3, CountUp
<1> QED BY <1>4 DEF T

(* The layout they are said to end in is the one they lead to. *)
LEMMA MovedBehind ==
    ASSUME NEW L, NEW swaps, Len(swaps) \in Nat
    PROVE  Behind(L, swaps, Moved(L, swaps))
<1> DEFINE n == Len(swaps)
           at == CHOOSE x : Moves(x, L, swaps, n)
<1>1. Moves(at, L, swaps, n)
  <2> HIDE DEF n
  <2>1. n \in Nat
    BY DEF n
  <2> QED BY <2>1, MovesExists
<1>2. Moved(L, swaps) = at[n]
  BY DEF Moved, Moves
<1>3. n \in Nat
  OBVIOUS
<1> HIDE DEF at, n
<1>4. \A i \in 0..n : at[i] = IF i = 0 THEN L ELSE Swapped(at[i - 1], swaps[i])
  BY <1>1 DEF Moves
<1>5. at[0] = L
  BY <1>3, <1>4
<1>6. ASSUME NEW k \in 1..n PROVE at[k] = Swapped(at[k - 1], swaps[k])
  <2>1. k \in 0..n /\ k # 0
    BY <1>3
  <2> QED BY <1>4, <2>1
<1> QED BY <1>2, <1>5, <1>6 DEF Behind, n

-----------------------------------------------------------------------------
(* Undoing a search *)

(* g has the fields of f, and their values but for those in S. *)
Alike(f, g, S) == DOMAIN g = DOMAIN f /\ \A x \in DOMAIN f \ S : g[x] = f[x]

(* Waiting pairs are cached with the placement of their qubits. *)
Cached(nodes, front, layout) ==
    \A m \in DOMAIN front :
        /\ front[m] = <<layout[nodes[m].wires[1]], layout[nodes[m].wires[2]]>>
        /\ nodes[m].wires[1] \in Logical /\ nodes[m].wires[2] \in Logical
        /\ nodes[m].wires[1] # nodes[m].wires[2]

(* What a SWAP does to a frame. *)
SwapsTo(nodes, f, g, M) ==
    /\ Alike(f, g, {"layout", "front"})
    /\ g.layout = M
    /\ DOMAIN g.front = DOMAIN f.front
    /\ Cached(nodes, g.front, M)

(* A tried SWAP changes the layout and where the waiting pairs are. *)
LEMMA ApplySwapIs ==
    ASSUME NEW nodes, NEW f, {"layout", "front"} \subseteq DOMAIN f, Placed(f.layout),
           Cached(nodes, f.front, f.layout), NEW e \in Edges
    PROVE  /\ SwapsTo(nodes, f, ApplySwap(f, e), Swapped(f.layout, e))
           /\ \A n \in DOMAIN f.front :
                 ApplySwap(f, e).front[n] = <<Exchange(f.front[n][1], e), Exchange(f.front[n][2], e)>>
<1> DEFINE g == ApplySwap(f, e)
           front == [n \in DOMAIN f.front |->
                        <<Exchange(f.front[n][1], e), Exchange(f.front[n][2], e)>>]
<1>1. Alike(f, g, {"layout", "front"})
  BY DEF ApplySwap, Alike
<1>2. g.layout = Swapped(f.layout, e) /\ g.front = front
  BY DEF ApplySwap
<1>3. DOMAIN front = DOMAIN f.front
  OBVIOUS
<1>4. \A l \in Logical : Swapped(f.layout, e)[l] = Exchange(f.layout[l], e)
  BY SwappedPlaced
<1>5. ASSUME NEW m \in DOMAIN f.front
      PROVE  /\ front[m] = <<Swapped(f.layout, e)[nodes[m].wires[1]], Swapped(f.layout, e)[nodes[m].wires[2]]>>
             /\ nodes[m].wires[1] \in Logical /\ nodes[m].wires[2] \in Logical
             /\ nodes[m].wires[1] # nodes[m].wires[2]
  <2>1. /\ f.front[m] = <<f.layout[nodes[m].wires[1]], f.layout[nodes[m].wires[2]]>>
        /\ nodes[m].wires[1] \in Logical /\ nodes[m].wires[2] \in Logical
        /\ nodes[m].wires[1] # nodes[m].wires[2]
    BY DEF Cached
  <2>2. front[m] = <<Exchange(f.front[m][1], e), Exchange(f.front[m][2], e)>>
    OBVIOUS
  <2>3. f.front[m][1] = f.layout[nodes[m].wires[1]] /\ f.front[m][2] = f.layout[nodes[m].wires[2]]
    BY <2>1
  <2> HIDE DEF front
  <2> QED BY <1>4, <2>1, <2>2, <2>3
<1>6. \A n \in DOMAIN f.front : front[n] = <<Exchange(f.front[n][1], e), Exchange(f.front[n][2], e)>>
  OBVIOUS
<1> HIDE DEF g, front
<1>7. Cached(nodes, front, Swapped(f.layout, e))
  BY <1>3, <1>5 DEF Cached
<1>8. SwapsTo(nodes, f, g, Swapped(f.layout, e))
  BY <1>1, <1>2, <1>3, <1>7 DEF SwapsTo
<1> QED BY <1>2, <1>6, <1>8 DEF g

(* The recursion of Undone. *)
Backs(back, f, k) ==
    back = [i \in 0..k |-> IF i = 0 THEN f ELSE ApplySwap(back[i - 1], f.swaps[Len(f.swaps) + 1 - i])]

(* Taking SWAPs back can be followed one at a time. *)
LEMMA BacksExists ==
    ASSUME NEW f, NEW n \in Nat
    PROVE  \E back : Backs(back, f, n)
<1> DEFINE Undo(g, i) == ApplySwap(g, f.swaps[Len(f.swaps) + 1 - i])
           T == {k \in 0..n : \E d : Backs(d, f, k)}
<1>1. 0 \in T
  <2> DEFINE d == [i \in 0..0 |-> f]
  <2>1. d = [i \in 0..0 |-> IF i = 0 THEN f ELSE Undo(d[i - 1], i)]
    OBVIOUS
  <2>2. Backs(d, f, 0)
    BY <2>1 DEF Backs
  <2> HIDE DEF d
  <2> QED BY <2>2
<1>2. ASSUME NEW k \in 1..n, k - 1 \in T PROVE k \in T
  <2>1. PICK d : Backs(d, f, k - 1)
    BY <1>2
  <2> DEFINE e == [i \in 0..k |-> IF i = k THEN Undo(d[k - 1], k) ELSE d[i]]
  <2>2. d = [i \in 0..(k - 1) |-> IF i = 0 THEN f ELSE Undo(d[i - 1], i)]
    BY <2>1 DEF Backs
  <2> HIDE DEF Undo
  <2>3. ASSUME NEW i \in 0..k
        PROVE  e[i] = IF i = 0 THEN f ELSE Undo(e[i - 1], i)
    <3>1. CASE i = k
      <4>1. i # 0 /\ i - 1 \in 0..k /\ i - 1 # k
        BY <3>1
      <4>2. e[i - 1] = d[i - 1]
        BY <4>1
      <4> QED BY <3>1, <4>1, <4>2
    <3>2. CASE i # k /\ i # 0
      <4>1. i - 1 \in 0..k /\ i - 1 # k /\ i \in 0..(k - 1)
        BY <3>2
      <4>2. e[i - 1] = d[i - 1] /\ e[i] = d[i]
        BY <3>2, <4>1
      <4>3. d[i] = Undo(d[i - 1], i)
        <5> HIDE DEF e
        <5> QED BY <2>2, <3>2, <4>1
      <4> QED BY <3>2, <4>2, <4>3
    <3>3. CASE i = 0
      <4>1. i # k /\ 0 \in 0..(k - 1)
        BY <3>3
      <4>2. d[0] = f
        <5> HIDE DEF e
        <5> QED BY <2>2, <4>1
      <4> QED BY <3>3, <4>1, <4>2
    <3> QED BY <3>1, <3>2, <3>3
  <2>4. e = [i \in 0..k |-> e[i]]
    OBVIOUS
  <2> HIDE DEF e
  <2>5. e = [i \in 0..k |-> IF i = 0 THEN f ELSE Undo(e[i - 1], i)]
    BY <2>3, <2>4
  <2>6. Backs(e, f, k)
    BY <2>5 DEF Backs, Undo
  <2> QED BY <2>6
<1> HIDE DEF T
<1>3. \A k \in 1..n : k - 1 \in T => k \in T
  BY <1>2
<1>4. \A k \in 0..n : k \in T
  BY <1>1, <1>3, CountUp
<1> QED BY <1>4 DEF T

(* The search is undone down to the layout it began with. *)
LEMMA UndoneIs ==
    ASSUME NEW nodes, NEW f, {"layout", "front"} \subseteq DOMAIN f, f.swaps \in Seq(Edges),
           Cached(nodes, f.front, f.layout), NEW L, Placed(L), Behind(L, f.swaps, f.layout)
    PROVE  SwapsTo(nodes, f, Undone(f), L)
<1> DEFINE n == Len(f.swaps)
           back == CHOOSE x : Backs(x, f, n)
<1>1. n \in Nat /\ \A k \in 1..n : f.swaps[k] \in Edges
  OBVIOUS
<1>2. Backs(back, f, n)
  <2> HIDE DEF n
  <2> QED BY <1>1, BacksExists
<1>3. Undone(f) = back[n]
  BY DEF Undone, Backs
<1>4. PICK u : u[0] = L /\ u[n] = f.layout /\ \A k \in 1..n : u[k] = Swapped(u[k - 1], f.swaps[k])
  BY DEF Behind
<1>5. \A k \in 0..n : Placed(u[k])
  BY <1>4, BehindPlaced
<1>6. \A i \in 0..n : back[i] = IF i = 0 THEN f ELSE ApplySwap(back[i - 1], f.swaps[n + 1 - i])
  BY <1>2 DEF Backs
<1> HIDE DEF back, n
<1> DEFINE T == {i \in 0..n : SwapsTo(nodes, f, back[i], u[n - i])}
<1>7. 0 \in T
  <2>1. back[0] = f /\ n - 0 = n /\ 0 \in 0..n
    BY <1>1, <1>6
  <2>2. SwapsTo(nodes, f, f, f.layout)
    BY DEF SwapsTo, Alike
  <2> QED BY <1>4, <2>1, <2>2
<1>8. ASSUME NEW i \in 1..n, i - 1 \in T PROVE i \in T
  <2> DEFINE g == back[i - 1]
             k == n + 1 - i
             e == f.swaps[k]
  <2>1. k \in 1..n /\ k \in 0..n /\ k - 1 \in 0..n /\ n - (i - 1) = k /\ n - i = k - 1 /\ i \in 0..n /\ i # 0
    BY <1>1
  <2>2. back[i] = ApplySwap(g, e)
    BY <1>6, <2>1
  <2>3. SwapsTo(nodes, f, g, u[k])
    BY <1>8, <2>1
  <2>4. e \in Edges /\ Placed(u[k]) /\ Placed(u[k - 1]) /\ u[k] = Swapped(u[k - 1], e)
    BY <1>1, <1>4, <1>5, <2>1
  <2> HIDE DEF g, k, e
  <2>5. Swapped(u[k], e) = u[k - 1]
    BY <2>4, SwappedPlaced
  <2>6. {"layout", "front"} \subseteq DOMAIN g /\ g.layout = u[k] /\ Cached(nodes, g.front, g.layout)
    BY <2>3 DEF SwapsTo, Alike
  <2>7. SwapsTo(nodes, g, ApplySwap(g, e), u[k - 1])
    BY <2>4, <2>5, <2>6, ApplySwapIs
  <2>8. SwapsTo(nodes, f, ApplySwap(g, e), u[k - 1])
    BY <2>3, <2>7 DEF SwapsTo, Alike
  <2> QED BY <2>1, <2>2, <2>8
<1> HIDE DEF T
<1>9. \A i \in 1..n : i - 1 \in T => i \in T
  BY <1>8
<1>10. \A i \in 0..n : i \in T
  BY <1>1, <1>7, <1>9, CountUp
<1>11. SwapsTo(nodes, f, back[n], u[n - n])
  BY <1>1, <1>10 DEF T
<1>12. n - n = 0
  BY <1>1
<1> QED BY <1>3, <1>4, <1>11, <1>12

-----------------------------------------------------------------------------
(* What routing a block maintains *)

Fields == {"block", "entry", "layout", "front", "need", "queue", "swaps", "tried",
           "repeated", "goal", "phase", "routed", "plan"}

(* The transfers each block may hold. *)
Inside ==
    CHOOSE inside \in [DOMAIN Program -> SUBSET Transfers] :
        /\ inside[Main] = {}
        /\ \A b \in DOMAIN Program : \A i \in DOMAIN Program[b] : LET op == Program[b][i] IN
              /\ op.kind \in Transfers => op.kind \in inside[b]
              /\ \A c \in Range(op.bodies) : inside[c] \subseteq Allowed(op.kind, inside[b])

(* The transfers each block may hold. *)
LEMMA InsideIs ==
    /\ Inside \in [DOMAIN Program -> SUBSET Transfers] /\ Inside[Main] = {}
    /\ \A b \in DOMAIN Program : \A i \in 1..Len(Program[b]) :
          /\ Program[b][i].kind \in Transfers => Program[b][i].kind \in Inside[b]
          /\ \A c \in Range(Program[b][i].bodies) :
                Inside[c] \subseteq Allowed(Program[b][i].kind, Inside[b])
<1>1. \E inside \in [DOMAIN Program -> SUBSET Transfers] :
        /\ inside[Main] = {}
        /\ \A b \in DOMAIN Program : \A i \in DOMAIN Program[b] : LET op == Program[b][i] IN
              /\ op.kind \in Transfers => op.kind \in inside[b]
              /\ \A c \in Range(op.bodies) : inside[c] \subseteq Allowed(op.kind, inside[b])
  BY TransfersHaveTargets
<1>2. /\ Inside \in [DOMAIN Program -> SUBSET Transfers] /\ Inside[Main] = {}
      /\ \A b \in DOMAIN Program : \A i \in DOMAIN Program[b] :
            /\ Program[b][i].kind \in Transfers => Program[b][i].kind \in Inside[b]
            /\ \A c \in Range(Program[b][i].bodies) :
                  Inside[c] \subseteq Allowed(Program[b][i].kind, Inside[b])
  BY <1>1 DEF Inside
<1> QED BY <1>2, OperationsAre

Nodes(f) == Dags[f.block].nodes
Source(f) == Program[f.block]
DoneIn(f) == Finished(f.need, f.queue, DOMAIN f.front)

Tracks(f) == Progress(Dags[f.block], f.need, f.queue, DOMAIN f.front)

(* The plan holds what is done, and ends with an operation of the block.   *)
Ends(plan) == Len(plan) > 0 => plan[Len(plan)].kind # "swap"

Holds(f) ==
    /\ Covers(Source(f), f.plan, Emitted(Dags[f.block], DoneIn(f)), Order(Dags[f.block], Source(f)))
    /\ Ends(f.plan)

Laid(f) ==
    /\ Placed(f.entry) /\ Placed(f.layout)
    /\ \A m \in DOMAIN f.front : Nodes(f)[m].class = "TwoQ"
    /\ Cached(Nodes(f), f.front, f.layout)
    /\ f.swaps \in Seq(Edges)

Stage(f) ==
    \/ /\ f.phase = "visit"
       /\ Len(f.swaps) <= AttemptLimit + Cardinality(Physical)
       /\ f.swaps # <<>> => f.queue # <<>> /\ Node(f).class = "TwoQ" /\ Adjacent(Placement(f))
    \/ /\ f.phase = "search"
       /\ f.queue = <<>> /\ Len(f.swaps) <= AttemptLimit
    \/ /\ f.phase = "force"
       /\ f.queue = <<>> /\ f.goal \in DOMAIN f.front
       /\ Len(f.swaps) + Distance(f.front[f.goal]) <= Cardinality(Physical)

(* The plan leads to a layout from which the SWAPs in hand lead on.        *)
Made(f) ==
    \E L : Leads(f.plan, f.entry, L, Inside[f.block]) /\ Behind(L, f.swaps, f.layout)

Bodies(f) ==
    /\ Sequence(f.routed)
    /\ f.routed # <<>> => f.phase = "visit" /\ f.queue # <<>> /\ Node(f).class = "ControlFlow"
    /\ \A i \in 1..Len(f.routed) :
          /\ Body(f.routed[i], f.layout, Allowed(Flow(f).kind, Inside[f.block]))
          /\ ExitsAreDirect => LeftLast(f.routed[i], Flow(f).kind)

Good(f) ==
    /\ DOMAIN f = Fields /\ f.block \in DOMAIN Program
    /\ Tracks(f) /\ Holds(f) /\ Laid(f) /\ Stage(f) /\ Made(f) /\ Bodies(f)

-----------------------------------------------------------------------------
(* Operations on their way into a plan *)

(* An operation mapped to the layout. *)
LEMMA MappedIs ==
    ASSUME NEW f, NEW i
    PROVE  /\ Mapped(f, i).kind = Program[f.block][i].kind /\ Mapped(f, i).source = i
           /\ Mapped(f, i).wires = Program[f.block][i].wires /\ Mapped(f, i).bodies = <<>>
           /\ Mapped(f, i).at = [j \in 1..Len(Program[f.block][i].wires) |->
                                    f.layout[Program[f.block][i].wires[j]]]
BY DEF Mapped

(* A mapped operation is right where its qubits are, pairs next to each    *)
(* other.                                                                  *)
LEMMA MappedRight ==
    ASSUME NEW f, f.block \in DOMAIN Program, NEW i \in 1..Len(Program[f.block]),
           Program[f.block][i].kind \notin Control,
           Class(Program[f.block][i]) = "TwoQ" =>
               Adjacent(<<f.layout[Program[f.block][i].wires[1]], f.layout[Program[f.block][i].wires[2]]>>)
    PROVE  /\ Right(Mapped(f, i), f.layout, Inside[f.block])
           /\ Mapped(f, i).kind # "swap"
<1> DEFINE op == Program[f.block][i]
           m == Mapped(f, i)
<1>1. /\ m.kind = op.kind /\ m.wires = op.wires
      /\ m.at = [j \in 1..Len(op.wires) |-> f.layout[op.wires[j]]]
  <2>1. m.kind = op.kind /\ m.wires = op.wires
    BY DEF Mapped
  <2>2. m.at = [j \in 1..Len(op.wires) |-> f.layout[op.wires[j]]]
    BY DEF Mapped
  <2> QED BY <2>1, <2>2
<1>2. /\ op \in OperationType /\ op.kind # "swap"
      /\ op.kind = "gate" => Len(op.wires) \in {1, 2}
  BY OperationsAre
<1>3. Len(op.wires) \in Nat
  BY <1>2, SequenceOf DEF OperationType
<1>4. op.kind \in Transfers => op.kind \in Inside[f.block]
  BY InsideIs
<1>5. op.kind \notin Control
  OBVIOUS
<1>6. Class(op) = "TwoQ" => Adjacent(<<f.layout[op.wires[1]], f.layout[op.wires[2]]>>)
  OBVIOUS
<1> HIDE DEF op, m
<1>7. Len(m.at) = Len(op.wires) /\ \A j \in 1..Len(op.wires) : m.at[j] = f.layout[op.wires[j]]
  BY <1>1, <1>3
<1>8. ASSUME Len(m.at) = 2, m.kind \in {"gate", "swap"} PROVE Adjacent(m.at)
  <2>1. op.kind = "gate" /\ Len(op.wires) = 2
    BY <1>1, <1>2, <1>7, <1>8
  <2>2. Class(op) = "TwoQ"
    BY <2>1 DEF Class, Control
  <2>3. m.at[1] = f.layout[op.wires[1]] /\ m.at[2] = f.layout[op.wires[2]]
    BY <1>7, <2>1
  <2> QED BY <1>6, <2>2, <2>3 DEF Adjacent
<1>9. Fits(m, f.layout, Inside[f.block])
  BY <1>1, <1>2, <1>4, <1>5, <1>7, <1>8 DEF Fits
<1>10. Right(m, f.layout, Inside[f.block]) /\ m.kind # "swap"
  BY <1>1, <1>2, <1>5, <1>9 DEF Right
<1> QED BY <1>10 DEF m

(* Mapped in its place, one operation after another. *)
InPlace(f, s) == [j \in 1..Len(s) |-> Mapped(f, s[j])]

(* Operations in their order, each executable where its qubits are. *)
Listable(f, s) ==
    /\ s \in Seq(Nat) /\ Upwards(s) /\ Range(s) \subseteq 1..Len(Program[f.block])
    /\ \A i, j \in Range(s) : <<i, j>> \in Order(Dags[f.block], Program[f.block]) => i < j
    /\ \A i \in Range(s) :
          /\ Program[f.block][i].kind \notin Control
          /\ Class(Program[f.block][i]) = "TwoQ" =>
                Adjacent(<<f.layout[Program[f.block][i].wires[1]], f.layout[Program[f.block][i].wires[2]]>>)

(* The plan p holds the operations in S and stays at the layout. *)
Carries(f, p, S) ==
    /\ Covers(Program[f.block], p, S, Order(Dags[f.block], Program[f.block]))
    /\ Leads(p, f.layout, f.layout, Inside[f.block])
    /\ Ends(p)

(* Operations that follow one another without SWAPs. *)
LEMMA ListedPlan ==
    ASSUME NEW f, f.block \in DOMAIN Program, Placed(f.layout), NEW s, Listable(f, s)
    PROVE  Carries(f, InPlace(f, s), Range(s)) /\ Len(InPlace(f, s)) = Len(s)
<1> DEFINE p == InPlace(f, s)
<1>0. s \in Seq(Nat) /\ Upwards(s) /\ Range(s) \subseteq 1..Len(Program[f.block])
  BY DEF Listable
<1>1. Len(s) \in Nat /\ \A j \in 1..Len(s) : s[j] \in Range(s)
  BY <1>0, SequenceOf
<1>2. Sequence(p) /\ Len(p) = Len(s)
  <2>1. DOMAIN p = 1..Len(s) /\ p = [j \in DOMAIN p |-> p[j]]
    BY DEF InPlace
  <2> HIDE DEF p
  <2> QED BY <1>1, <2>1, SequenceIntro
<1>3. ASSUME NEW j \in 1..Len(s)
      PROVE  /\ Right(p[j], f.layout, Inside[f.block]) /\ p[j].kind # "swap"
             /\ p[j].kind = Program[f.block][s[j]].kind /\ p[j].source = s[j]
             /\ p[j].wires = Program[f.block][s[j]].wires
  <2>1. p[j] = Mapped(f, s[j])
    BY DEF InPlace
  <2>2. s[j] \in Range(s) /\ s[j] \in 1..Len(Program[f.block])
    BY <1>0, <1>1
  <2> DEFINE i == s[j]
  <2>5. /\ Program[f.block][i].kind \notin Control
        /\ Class(Program[f.block][i]) = "TwoQ" =>
              Adjacent(<<f.layout[Program[f.block][i].wires[1]], f.layout[Program[f.block][i].wires[2]]>>)
    BY <2>2 DEF Listable
  <2>6. i \in 1..Len(Program[f.block])
    BY <2>2
  <2> HIDE DEF i
  <2>7. Right(Mapped(f, i), f.layout, Inside[f.block]) /\ Mapped(f, i).kind # "swap"
    BY <2>5, <2>6, MappedRight
  <2>3. Right(Mapped(f, s[j]), f.layout, Inside[f.block]) /\ Mapped(f, s[j]).kind # "swap"
    BY <2>7 DEF i
  <2>4. /\ Mapped(f, s[j]).kind = Program[f.block][s[j]].kind /\ Mapped(f, s[j]).source = s[j]
        /\ Mapped(f, s[j]).wires = Program[f.block][s[j]].wires
    BY DEF Mapped
  <2> QED BY <2>1, <2>3, <2>4
<1>4. \A i \in Range(s) : Program[f.block][i].kind # "swap"
  BY <1>0, OperationsAre
<1>8. \A i, j \in Range(s) : <<i, j>> \in Order(Dags[f.block], Program[f.block]) => i < j
  BY DEF Listable
<1> HIDE DEF p
<1>5. Covers(Program[f.block], p, Range(s), Order(Dags[f.block], Program[f.block]))
  BY <1>0, <1>2, <1>3, <1>4, <1>8, CoversListed
<1>6. Leads(p, f.layout, f.layout, Inside[f.block])
  BY <1>2, <1>3, LeadsStill
<1>7. Ends(p)
  BY <1>1, <1>2, <1>3 DEF Ends
<1> QED BY <1>2, <1>5, <1>6, <1>7 DEF Carries, p

(* The operations of a node, and what they have in common. *)
NodeSays(b, node) ==
    /\ node.ops \in Seq(Nat) /\ node.ops # <<>> /\ Upwards(node.ops)
    /\ Range(node.ops) \subseteq 1..Len(Program[b])
    /\ \A a \in Range(node.ops) : Class(Program[b][a]) = node.class /\ Program[b][a].wires = node.wires
    /\ node.class \notin {"Unary", "TwoQ"} => Len(node.ops) = 1
    /\ \A i, j \in Range(node.ops) : <<i, j>> \in Order(Dags[b], Program[b]) => i < j
    /\ Head(node.ops) \in Range(node.ops) /\ Head(node.ops) \in 1..Len(Program[b])

(* What is known of a node of the graph of a block. *)
LEMMA NodeParts ==
    ASSUME NEW b \in DOMAIN Program, NEW n \in 1..Len(Dags[b].nodes)
    PROVE  NodeSays(b, Dags[b].nodes[n])
<1> DEFINE node == Dags[b].nodes[n]
<1>1. IsGraph(Dags[b], Program[b], Len(Program[b]))
  BY DagsAreGraphs
<1>2. node \in NodeType /\ Filed(node, Program[b], Len(Program[b]))
      /\ \A a \in Range(Dags[b].initial) : a \notin Range(node.ops)
  BY <1>1, GraphParts
<1> HIDE DEF node
<1>3. node.ops \in Seq(Nat)
  BY <1>2 DEF NodeType
<1>4. /\ node.ops # <<>> /\ Upwards(node.ops)
      /\ \A a \in Range(node.ops) : /\ a \in 1..Len(Program[b])
                                    /\ Class(Program[b][a]) = node.class /\ Program[b][a].wires = node.wires
      /\ node.class \notin {"Unary", "TwoQ"} => Len(node.ops) = 1
  BY <1>2 DEF Filed
<1>5. Head(node.ops) \in Range(node.ops)
  BY <1>3, <1>4, SequenceOf, TailSequence
<1>6. \A i, j \in Range(node.ops) : <<i, j>> \in Order(Dags[b], Program[b]) => i < j
  BY <1>2, <1>4, OrderIs
<1>7. NodeSays(b, node)
  BY <1>3, <1>4, <1>5, <1>6 DEF NodeSays
<1> QED BY <1>7 DEF node

(* What a class says of an operation. *)
LEMMA ClassSays ==
    ASSUME NEW b \in DOMAIN Program, NEW i \in 1..Len(Program[b])
    PROVE  /\ Class(Program[b][i]) = "ControlFlow" <=> Program[b][i].kind \in Control
           /\ Class(Program[b][i]) = "TwoQ" =>
                 /\ Program[b][i].wires \in Seq(Logical) /\ Len(Program[b][i].wires) = 2
                 /\ Program[b][i].wires[1] \in Logical /\ Program[b][i].wires[2] \in Logical
                 /\ Program[b][i].wires[1] # Program[b][i].wires[2]
<1> DEFINE op == Program[b][i]
<1>1. /\ op \in OperationType /\ IsInjective(op.wires)
      /\ op.kind = "gate" => Len(op.wires) \in {1, 2}
  BY OperationsAre
<1>2. op.wires \in Seq(Logical)
  BY <1>1 DEF OperationType
<1> HIDE DEF op
<1>3. Class(op) = "ControlFlow" <=> op.kind \in Control
  BY DEF Class
<1>4. ASSUME Class(op) = "TwoQ"
      PROVE  /\ Len(op.wires) = 2 /\ op.wires[1] \in Logical /\ op.wires[2] \in Logical
             /\ op.wires[1] # op.wires[2]
  <2>1. Len(op.wires) = 2
    BY <1>1, <1>4 DEF Class
  <2>2. 1 \in DOMAIN op.wires /\ 2 \in DOMAIN op.wires
    BY <1>2, <2>1
  <2>3. op.wires[1] \in Logical /\ op.wires[2] \in Logical
    BY <1>2, <2>1
  <2>4. op.wires[1] = op.wires[2] => 1 = 2
    BY <1>1, <2>2 DEF IsInjective
  <2> QED BY <2>1, <2>3, <2>4
<1> QED BY <1>2, <1>3, <1>4 DEF op

(* The pair of a node of two qubits. *)
LEMMA PairParts ==
    ASSUME NEW b \in DOMAIN Program, NEW n \in 1..Len(Dags[b].nodes), Dags[b].nodes[n].class = "TwoQ"
    PROVE  /\ Dags[b].nodes[n].wires[1] \in Logical /\ Dags[b].nodes[n].wires[2] \in Logical
           /\ Dags[b].nodes[n].wires[1] # Dags[b].nodes[n].wires[2]
<1> DEFINE node == Dags[b].nodes[n]
           a == Head(node.ops)
<1>1. /\ a \in Range(node.ops) /\ a \in 1..Len(Program[b])
      /\ \A x \in Range(node.ops) : Class(Program[b][x]) = node.class /\ Program[b][x].wires = node.wires
  BY NodeParts DEF NodeSays
<1>2. Class(Program[b][a]) = "TwoQ" /\ Program[b][a].wires = node.wires
  BY <1>1
<1> QED BY <1>1, <1>2, ClassSays

(* The operations emitted first. *)
LEMMA InitialParts ==
    ASSUME NEW b \in DOMAIN Program
    PROVE  /\ Dags[b].initial \in Seq(Nat) /\ Upwards(Dags[b].initial)
           /\ Range(Dags[b].initial) \subseteq 1..Len(Program[b])
           /\ \A i, j \in Range(Dags[b].initial) : <<i, j>> \in Order(Dags[b], Program[b]) => i < j
           /\ \A i \in Range(Dags[b].initial) :
                 Program[b][i].kind \notin Control /\ Class(Program[b][i]) # "TwoQ"
<1>1. IsGraph(Dags[b], Program[b], Len(Program[b])) /\ Late(Dags[b], Program[b], Len(Program[b]))
  BY DagsAreGraphs, DagsAreLate
<1>2. /\ Dags[b].initial \in Seq(Nat) /\ Upwards(Dags[b].initial)
      /\ Range(Dags[b].initial) \subseteq 1..Len(Program[b])
  BY <1>1, GraphParts
<1>3. \A i \in Range(Dags[b].initial) : Class(Program[b][i]) = "Synchronize"
  BY <1>1 DEF Late
<1>4. \A i \in Range(Dags[b].initial) :
          Program[b][i].kind \notin Control /\ Class(Program[b][i]) # "TwoQ"
  BY <1>2, <1>3, ClassSays
<1>5. \A i, j \in Range(Dags[b].initial) : <<i, j>> \in Order(Dags[b], Program[b]) => i < j
  BY <1>2, OrderIs
<1> QED BY <1>2, <1>4, <1>5

(* Routing a block begins well. *)
LEMMA FrameGood ==
    ASSUME NEW b \in DOMAIN Program, NEW L, Placed(L)
    PROVE  Good(Frame(b, L)) /\ Frame(b, L).entry = L /\ Frame(b, L).block = b
<1> DEFINE f == Frame(b, L)
           r == [block |-> b, layout |-> L]
           dag == Dags[b]
           N == Len(dag.nodes)
           p == [j \in 1..Len(dag.initial) |-> Mapped(r, dag.initial[j])]
           need == [n \in 1..N |-> Cardinality(dag.nodes[n].parents)]
           queue == Ascending({n \in 1..N : dag.nodes[n].parents = {}})
<1>1. /\ DOMAIN f = Fields
      /\ f.block = b /\ f.entry = L /\ f.layout = L /\ f.front = [n \in {} |-> <<>>]
      /\ f.need = need /\ f.queue = queue /\ f.swaps = <<>> /\ f.phase = "visit"
      /\ f.routed = <<>> /\ f.plan = p
  BY DEF Frame, Fields
<1>2. IsGraph(dag, Program[b], Len(Program[b]))
  BY DagsAreGraphs
<1>3. Layered(dag)
  BY <1>2, GraphParts
<1>4. Progress(dag, need, queue, {}) /\ Finished(need, queue, {}) = {}
  BY <1>3, ProgressStarts
<1>5. r.block = b /\ r.layout = L
  OBVIOUS
<1> DEFINE s == dag.initial
<1>6. /\ s \in Seq(Nat) /\ Upwards(s) /\ Range(s) \subseteq 1..Len(Program[b])
      /\ \A i, j \in Range(s) : <<i, j>> \in Order(dag, Program[b]) => i < j
      /\ \A i \in Range(s) : Program[b][i].kind \notin Control /\ Class(Program[b][i]) # "TwoQ"
  BY InitialParts
<1>7. p = InPlace(r, s)
  BY DEF InPlace
<1> HIDE DEF f, need, queue, p, r
<1>8. /\ Covers(Program[b], p, Range(s), Order(dag, Program[b]))
      /\ Leads(p, L, L, Inside[b]) /\ Ends(p)
  <2>1. Listable(r, s)
    BY <1>5, <1>6 DEF Listable
  <2>2. Carries(r, p, Range(s))
    BY <1>5, <1>7, <2>1, ListedPlan
  <2> QED BY <1>5, <2>2 DEF Carries
<1>9. DOMAIN f.front = {}
  BY <1>1
<1>10. Tracks(f) /\ DoneIn(f) = {}
  BY <1>1, <1>4, <1>9 DEF Tracks, DoneIn
<1>11. Holds(f)
  <2>1. Emitted(dag, {}) = Range(s)
    BY DEF Emitted
  <2> QED BY <1>1, <1>8, <1>10, <2>1 DEF Holds, Source
<1>12. Laid(f)
  <2>1. <<>> \in Seq(Edges)
    OBVIOUS
  <2> QED BY <1>1, <1>9, <2>1 DEF Laid, Cached
<1>13. Stage(f)
  <2>1. Len(<<>>) = 0 /\ Cardinality(Physical) \in Nat
    BY PhysicalIsFinite, FS_CardinalityType
  <2> QED BY <1>1, <2>1, LimitIsNatural DEF Stage
<1>14. Made(f)
  BY <1>1, <1>8, BehindNone DEF Made
<1>15. Bodies(f)
  <2>1. \A i \in 1..0 : FALSE
    OBVIOUS
  <2> QED BY <1>1, <2>1, EmptySequence DEF Bodies
<1>16. Good(f) /\ f.entry = L /\ f.block = b
  BY <1>1, <1>10, <1>11, <1>12, <1>13, <1>14, <1>15 DEF Good
<1> QED BY <1>16 DEF f

-----------------------------------------------------------------------------
(* One step of a block's routing *)

(* Fields that a step does not name keep their values. *)
LEMMA AlikeIs ==
    ASSUME NEW f, NEW g, NEW S, DOMAIN f = Fields, Alike(f, g, S)
    PROVE  /\ DOMAIN g = Fields
           /\ "block" \notin S => g.block = f.block
           /\ "entry" \notin S => g.entry = f.entry
           /\ "layout" \notin S => g.layout = f.layout
           /\ "front" \notin S => g.front = f.front
           /\ "need" \notin S => g.need = f.need
           /\ "queue" \notin S => g.queue = f.queue
           /\ "swaps" \notin S => g.swaps = f.swaps
           /\ "goal" \notin S => g.goal = f.goal
           /\ "phase" \notin S => g.phase = f.phase
           /\ "routed" \notin S => g.routed = f.routed
           /\ "plan" \notin S => g.plan = f.plan
BY DEF Alike, Fields

(* The head of the queue is a node of the graph, and its pair is placed. *)
LEMMA HeadIs ==
    ASSUME NEW f, Good(f), f.queue # <<>>
    PROVE  /\ Head(f.queue) \in 1..Len(Nodes(f)) /\ Node(f) = Nodes(f)[Head(f.queue)]
           /\ Head(f.queue) \notin DOMAIN f.front
           /\ f.block \in DOMAIN Program
<1>1. Progress(Dags[f.block], f.need, f.queue, DOMAIN f.front) /\ f.block \in DOMAIN Program
  BY DEF Good, Tracks
<1>2. Head(f.queue) \in 1..Len(Dags[f.block].nodes) /\ Head(f.queue) \notin DOMAIN f.front
  BY <1>1, ProgressWaits
<1> QED BY <1>1, <1>2 DEF Nodes, Node

(* A pair joins the front layer. *)
LEMMA WaitGood ==
    ASSUME NEW f, Good(f), f.phase = "visit", f.queue # <<>>, Node(f).class = "TwoQ",
           ~ Adjacent(Placement(f)),
           NEW g, Alike(f, g, {"queue", "front"}), g.queue = Tail(f.queue),
           g.front = [n \in DOMAIN f.front \cup {Head(f.queue)} |->
                         IF n = Head(f.queue) THEN Placement(f) ELSE f.front[n]]
    PROVE  Good(g)
<1> DEFINE h == Head(f.queue)
<1>1. /\ DOMAIN f = Fields /\ f.block \in DOMAIN Program
      /\ Tracks(f) /\ Holds(f) /\ Laid(f) /\ Stage(f) /\ Made(f) /\ Bodies(f)
  BY DEF Good
<1>2. /\ DOMAIN g = Fields /\ g.block = f.block /\ g.entry = f.entry /\ g.layout = f.layout
      /\ g.need = f.need /\ g.swaps = f.swaps /\ g.phase = f.phase /\ g.routed = f.routed
      /\ g.plan = f.plan
  BY <1>1, AlikeIs
<1>3. h \in 1..Len(Nodes(f)) /\ Node(f) = Nodes(f)[h] /\ h \notin DOMAIN f.front
  BY HeadIs
<1>4. DOMAIN g.front = DOMAIN f.front \cup {h}
  OBVIOUS
<1>5. Tracks(g) /\ DoneIn(g) = DoneIn(f)
  <2>1. Progress(Dags[f.block], f.need, f.queue, DOMAIN f.front)
    BY <1>1 DEF Tracks
  <2>2. /\ Progress(Dags[f.block], f.need, Tail(f.queue), DOMAIN f.front \cup {Head(f.queue)})
        /\ Finished(f.need, Tail(f.queue), DOMAIN f.front \cup {Head(f.queue)})
               = Finished(f.need, f.queue, DOMAIN f.front)
    <3> DEFINE need == f.need
               queue == f.queue
               waiting == DOMAIN f.front
    <3>1. Progress(Dags[f.block], need, queue, waiting) /\ queue # <<>>
      BY <2>1
    <3> HIDE DEF need, queue, waiting
    <3>2. /\ Progress(Dags[f.block], need, Tail(queue), waiting \cup {Head(queue)})
          /\ Finished(need, Tail(queue), waiting \cup {Head(queue)}) = Finished(need, queue, waiting)
      BY <3>1, ProgressWaits
    <3> QED BY <3>2 DEF need, queue, waiting
  <2> QED BY <1>2, <1>4, <2>2 DEF Tracks, DoneIn
<1>6. Holds(g)
  BY <1>1, <1>2, <1>5 DEF Holds, Source
<1>7. f.swaps = <<>> /\ f.routed = <<>>
  BY <1>1 DEF Stage, Bodies
<1>8. Nodes(g) = Nodes(f)
  BY <1>2 DEF Nodes
<1>9. /\ Nodes(f)[h].wires[1] \in Logical /\ Nodes(f)[h].wires[2] \in Logical
      /\ Nodes(f)[h].wires[1] # Nodes(f)[h].wires[2]
  BY <1>1, <1>3, PairParts DEF Nodes
<1>10. Placement(f) = <<f.layout[Nodes(f)[h].wires[1]], f.layout[Nodes(f)[h].wires[2]]>>
  BY <1>3 DEF Placement
<1>11. Laid(g)
  <2>1. \A m \in DOMAIN g.front : Nodes(g)[m].class = "TwoQ"
    BY <1>1, <1>3, <1>4, <1>8 DEF Laid
  <2>2. Cached(Nodes(g), g.front, g.layout)
    <3>1. ASSUME NEW m \in DOMAIN f.front \cup {h}
          PROVE  /\ g.front[m] = <<f.layout[Nodes(f)[m].wires[1]], f.layout[Nodes(f)[m].wires[2]]>>
                 /\ Nodes(f)[m].wires[1] \in Logical /\ Nodes(f)[m].wires[2] \in Logical
                 /\ Nodes(f)[m].wires[1] # Nodes(f)[m].wires[2]
      <4>1. CASE m = h
        BY <1>9, <1>10, <4>1
      <4>2. CASE m # h
        <5>1. m \in DOMAIN f.front /\ g.front[m] = f.front[m]
          BY <3>1, <4>2
        <5> QED BY <1>1, <5>1 DEF Laid, Cached
      <4> QED BY <4>1, <4>2
    <3> QED BY <1>2, <1>4, <1>8, <3>1 DEF Cached
  <2> QED BY <1>1, <1>2, <2>1, <2>2 DEF Laid
<1>12. Stage(g)
  <2>1. Len(<<>>) = 0 /\ Cardinality(Physical) \in Nat
    BY PhysicalIsFinite, FS_CardinalityType
  <2> QED BY <1>2, <1>7, <2>1, LimitIsNatural DEF Stage
<1>13. Made(g)
  BY <1>1, <1>2 DEF Made
<1>14. Bodies(g)
  <2>1. \A i \in 1..0 : FALSE
    OBVIOUS
  <2> QED BY <1>2, <1>7, <2>1, EmptySequence DEF Bodies
<1> QED BY <1>1, <1>2, <1>5, <1>6, <1>11, <1>12, <1>13, <1>14 DEF Good

(* g is f with the SWAPs in hand and then q emitted, and its head released. *)
ReleasedTo(f, g, q) ==
    /\ Alike(f, g, {"need", "queue", "swaps", "routed", "plan"})
    /\ g.swaps = <<>> /\ g.routed = <<>>
    /\ Releasing(Dags[f.block], f.need, f.queue, g.need, g.queue)
    /\ g.plan = (f.plan \o [i \in 1..Len(f.swaps) |-> Swap(f.swaps[i])]) \o q

(* q is what the node at the head of the queue adds to the plan. *)
Adding(f, q) ==
    /\ Covers(Source(f), q, Range(Node(f).ops), Order(Dags[f.block], Source(f)))
    /\ Ends(q) /\ Len(q) > 0 /\ Leads(q, f.layout, f.layout, Inside[f.block])

Advances(dag, need, queue, waiting, less, longer) ==
    /\ Progress(dag, less, longer, waiting)
    /\ Finished(less, longer, waiting) = Finished(need, queue, waiting) \cup {Head(queue)}
    /\ Head(queue) \notin Finished(need, queue, waiting)

(* Releasing the children of a node makes progress in the graph. *)
LEMMA ReleaseAdvances ==
    ASSUME NEW f, Good(f), f.queue # <<>>, NEW g, NEW q, ReleasedTo(f, g, q)
    PROVE  Advances(Dags[f.block], f.need, f.queue, DOMAIN f.front, g.need, g.queue)
<1> DEFINE dag == Dags[f.block]
           need == f.need
           queue == f.queue
           waiting == DOMAIN f.front
           less == g.need
           longer == g.queue
<1>1. Progress(dag, need, queue, waiting) /\ f.block \in DOMAIN Program
  BY DEF Good, Tracks
<1>2. Layered(dag)
  BY <1>1, DagsAreGraphs, GraphParts
<1>3. Releasing(dag, need, queue, less, longer)
  BY DEF ReleasedTo
<1>5. queue # <<>>
  OBVIOUS
<1> HIDE DEF dag, need, queue, waiting, less, longer
<1>6. Advances(dag, need, queue, waiting, less, longer)
  BY <1>1, <1>2, <1>3, <1>5, ProgressReleases DEF Advances
<1> QED BY <1>6 DEF dag, need, queue, waiting, less, longer

SameBlock(f, g) ==
    /\ DOMAIN g = Fields /\ g.block = f.block /\ g.entry = f.entry

(* And leaves the block, its layout and its front alone. *)
LEMMA ReleaseKeeps ==
    ASSUME NEW f, DOMAIN f = Fields, NEW g, NEW q, ReleasedTo(f, g, q)
    PROVE  /\ SameBlock(f, g) /\ g.layout = f.layout
           /\ g.front = f.front /\ g.phase = f.phase
<1>1. Alike(f, g, {"need", "queue", "swaps", "routed", "plan"})
  BY DEF ReleasedTo
<1> QED BY <1>1 DEF Alike, Fields, SameBlock

(* The swaps in hand are emitted, then the node at the head of the queue. *)
LEMMA ReleaseGood ==
    ASSUME NEW f, Good(f), f.phase = "visit", f.queue # <<>>,
           NEW q, Adding(f, q), NEW g, ReleasedTo(f, g, q)
    PROVE  Good(g)
<1> DEFINE h == Head(f.queue)
           dag == Dags[f.block]
           ops == Program[f.block]
           R == Order(dag, ops)
           s == [i \in 1..Len(f.swaps) |-> Swap(f.swaps[i])]
           D == DoneIn(f)
           c == Inside[f.block]
<1>1. /\ DOMAIN f = Fields /\ f.block \in DOMAIN Program
      /\ Tracks(f) /\ Holds(f) /\ Laid(f) /\ Stage(f) /\ Made(f) /\ Bodies(f)
  BY DEF Good
<1>2. /\ DOMAIN g = Fields /\ g.block = f.block /\ g.entry = f.entry /\ g.layout = f.layout
      /\ g.front = f.front /\ g.phase = "visit"
  BY <1>1, ReleaseKeeps DEF SameBlock
<1>3. h \in 1..Len(dag.nodes) /\ Node(f) = dag.nodes[h]
  BY HeadIs DEF Nodes
<1>4. IsGraph(dag, ops, Len(ops)) /\ Layered(dag)
  BY <1>1, DagsAreGraphs, GraphParts
<1>5. Progress(dag, f.need, f.queue, DOMAIN f.front)
  BY <1>1 DEF Tracks
<1>6. /\ Progress(dag, g.need, g.queue, DOMAIN f.front)
      /\ Finished(g.need, g.queue, DOMAIN f.front) = D \cup {h} /\ h \notin D
  BY ReleaseAdvances DEF Advances, DoneIn
<1>7. Tracks(g) /\ DoneIn(g) = D \cup {h}
  BY <1>2, <1>6 DEF Tracks, DoneIn
<1>8. Ancestral(dag, D) /\ D \subseteq 1..Len(dag.nodes)
  BY <1>4, <1>5, FinishedAncestral DEF DoneIn
<1>9. f.swaps \in Seq(Edges) /\ Sequence(f.swaps) /\ Placed(f.layout) /\ Placed(f.entry)
  BY <1>1, SequenceOf DEF Laid
<1>10. Covers(ops, f.plan, Emitted(dag, D), R) /\ Covers(ops, s, {}, R)
  BY <1>1, <1>9, CoversSwaps DEF Holds, Source
<1>11. g.plan = (f.plan \o s) \o q /\ g.swaps = <<>> /\ g.routed = <<>>
  BY DEF ReleasedTo
<1>12. Covers(ops, q, Range(dag.nodes[h].ops), R)
  BY <1>3 DEF Source, Adding
<1>13. h \notin D
  BY <1>6
<1>14. Leads(q, f.layout, f.layout, c) /\ Ends(q) /\ Len(q) > 0
  BY DEF Adding
<1>15. PICK L : Leads(f.plan, f.entry, L, c) /\ Behind(L, f.swaps, f.layout)
  BY <1>1 DEF Made
<1>16. Leads(s, L, f.layout, c)
  <2>1. Placed(L)
    BY <1>15 DEF Leads
  <2> QED BY <1>9, <1>15, <2>1, LeadsSwaps
<1> HIDE DEF D, s, R, dag, ops, h, c
<1>17. /\ Emitted(dag, D) \cap Range(dag.nodes[h].ops) = {}
       /\ \A i \in Range(dag.nodes[h].ops), j \in Emitted(dag, D) : <<i, j>> \notin R
       /\ Emitted(dag, D \cup {h}) = Emitted(dag, D) \cup Range(dag.nodes[h].ops)
  BY <1>3, <1>4, <1>8, <1>13, MayFollow DEF R
<1>18. Covers(ops, f.plan \o s, Emitted(dag, D), R)
  <2>1. Emitted(dag, D) \cup {} = Emitted(dag, D)
    OBVIOUS
  <2>2. Covers(ops, f.plan \o s, Emitted(dag, D) \cup {}, R)
    BY <1>10, CoversMore
  <2> QED BY <2>1, <2>2
<1>19. Covers(ops, g.plan, Emitted(dag, D \cup {h}), R)
  <2> DEFINE p == f.plan \o s
             S == Emitted(dag, D)
             T == Range(dag.nodes[h].ops)
  <2>1. Covers(ops, p, S, R) /\ Covers(ops, q, T, R) /\ S \cap T = {} 
        /\ \A i \in T, j \in S : <<i, j>> \notin R
    BY <1>12, <1>17, <1>18
  <2>2. g.plan = p \o q /\ Emitted(dag, D \cup {h}) = S \cup T
    BY <1>11, <1>17
  <2> HIDE DEF p, S, T
  <2>3. Covers(ops, p \o q, S \cup T, R)
    BY <2>1, CoversMore
  <2> QED BY <2>2, <2>3
<1>20. Ends(g.plan)
  <2> DEFINE p == f.plan \o s
  <2>1. Sequence(p) /\ Sequence(q)
    BY <1>12, <1>18 DEF Covers
  <2>2. g.plan = p \o q
    BY <1>11
  <2> HIDE DEF p
  <2>3. Len(q) \in 1..Len(q)
    BY <1>14, <2>1, SequenceFacts
  <2>4. Len(p \o q) = Len(p) + Len(q) /\ (p \o q)[Len(p) + Len(q)] = q[Len(q)]
    BY <2>1, <2>3, JoinedSequence
  <2> QED BY <1>14, <2>2, <2>4 DEF Ends
<1>21. Holds(g)
  BY <1>2, <1>7, <1>19, <1>20 DEF Holds, Source, R, dag, ops
<1>22. Nodes(g) = Nodes(f)
  BY <1>2 DEF Nodes
<1>23. Laid(g)
  <2>1. <<>> \in Seq(Edges)
    OBVIOUS
  <2> QED BY <1>1, <1>2, <1>11, <1>22, <2>1 DEF Laid
<1>24. Stage(g)
  <2>1. Len(<<>>) = 0 /\ Cardinality(Physical) \in Nat
    BY PhysicalIsFinite, FS_CardinalityType
  <2> QED BY <1>2, <1>11, <2>1, LimitIsNatural DEF Stage
<1>25. Made(g)
  <2>1. Leads(f.plan \o s, f.entry, f.layout, c)
    BY <1>15, <1>16, LeadsFurther
  <2> DEFINE p == f.plan \o s
  <2> HIDE DEF p
  <2>2. Leads(p, f.entry, f.layout, c)
    BY <2>1 DEF p
  <2>3. Leads(p \o q, f.entry, f.layout, c)
    BY <1>14, <2>2, LeadsFurther
  <2>4. Leads(g.plan, g.entry, f.layout, Inside[g.block])
    BY <1>2, <1>11, <2>3 DEF p, c
  <2>5. Behind(f.layout, g.swaps, g.layout)
    BY <1>2, <1>11, BehindNone
  <2> QED BY <2>4, <2>5 DEF Made
<1>26. Bodies(g)
  <2>1. \A i \in 1..0 : FALSE
    OBVIOUS
  <2> QED BY <1>11, <2>1, EmptySequence DEF Bodies
<1> QED BY <1>1, <1>2, <1>7, <1>21, <1>23, <1>24, <1>25, <1>26 DEF Good

(* The operations of a node that is not control flow, pairs being          *)
(* adjacent.                                                               *)
LEMMA NodeAdds ==
    ASSUME NEW f, Good(f), f.queue # <<>>, Node(f).class # "ControlFlow",
           Node(f).class = "TwoQ" => Adjacent(Placement(f))
    PROVE  Adding(f, InPlace(f, Node(f).ops))
<1> DEFINE s == Node(f).ops
           b == f.block
           p == InPlace(f, s)
<1>1. b \in DOMAIN Program /\ Placed(f.layout)
  BY DEF Good, Laid
<1>2. Head(f.queue) \in 1..Len(Dags[b].nodes) /\ Node(f) = Dags[b].nodes[Head(f.queue)]
  BY HeadIs DEF Nodes
<1>3. NodeSays(b, Node(f))
  BY <1>1, <1>2, NodeParts
<1>4. ASSUME NEW i \in Range(s)
      PROVE  /\ Program[b][i].kind \notin Control
             /\ Class(Program[b][i]) = "TwoQ" =>
                   Adjacent(<<f.layout[Program[b][i].wires[1]], f.layout[Program[b][i].wires[2]]>>)
  <2>1. i \in 1..Len(Program[b]) /\ Class(Program[b][i]) = Node(f).class /\ Program[b][i].wires = Node(f).wires
    BY <1>3 DEF NodeSays
  <2>2. Program[b][i].kind \notin Control
    BY <1>1, <2>1, ClassSays
  <2> QED BY <2>1, <2>2 DEF Placement
<1>5. /\ s \in Seq(Nat) /\ s # <<>> /\ Upwards(s) /\ Range(s) \subseteq 1..Len(Program[b])
      /\ \A i, j \in Range(s) : <<i, j>> \in Order(Dags[b], Program[b]) => i < j
  BY <1>3 DEF NodeSays
<1> HIDE DEF s, p
<1>6. Listable(f, s)
  BY <1>4, <1>5 DEF Listable
<1>7. Carries(f, p, Range(s)) /\ Len(p) = Len(s)
  BY <1>1, <1>6, ListedPlan DEF p
<1>8. Len(p) > 0
  <2>1. Len(s) \in Nat /\ Len(s) # 0
    BY <1>5
  <2> QED BY <1>7, <2>1
<1> QED BY <1>7, <1>8 DEF Adding, Carries, Source, s, p

(* What releasing changes. *)
LEMMA ReleasedIs ==
    ASSUME NEW k, DOMAIN k = Fields
    PROVE  /\ Alike(k, Released(k), {"need", "queue"})
           /\ Releasing(Dags[k.block], k.need, k.queue, Released(k).need, Released(k).queue)
BY DEF Released, Alike, Releasing, Waiting, Fields

(* Emitting a node appends its operations and releases its children. *)
LEMMA EmitReleases ==
    ASSUME NEW f, Good(f), f.routed = <<>>,
           NEW g, g = Released([Flushed(f) EXCEPT
                         !.plan = @ \o [j \in 1..Len(Node(f).ops) |-> Mapped(Flushed(f), Node(f).ops[j])]])
    PROVE  ReleasedTo(f, g, InPlace(f, Node(f).ops))
<1> DEFINE s == [i \in 1..Len(f.swaps) |-> Swap(f.swaps[i])]
           ops == Node(f).ops
           e == Flushed(f)
           k == [e EXCEPT !.plan = @ \o [j \in 1..Len(ops) |-> Mapped(e, ops[j])]]
<1>1. DOMAIN f = Fields
  BY DEF Good
<1>2. /\ DOMAIN e = Fields /\ e.plan = f.plan \o s /\ e.swaps = <<>> /\ e.block = f.block
      /\ e.layout = f.layout /\ e.need = f.need /\ e.queue = f.queue
      /\ Alike(f, e, {"plan", "swaps"})
  BY <1>1 DEF Flushed, Fields, Alike
<1>3. \A i : Mapped(e, i) = Mapped(f, i)
  BY <1>2 DEF Mapped
<1> HIDE DEF e
<1>4. [j \in 1..Len(ops) |-> Mapped(e, ops[j])] = InPlace(f, ops)
  BY <1>3 DEF InPlace
<1>5. /\ DOMAIN k = Fields /\ k.plan = (f.plan \o s) \o InPlace(f, ops) /\ Alike(e, k, {"plan"})
      /\ k.swaps = <<>> /\ k.block = f.block /\ k.need = f.need /\ k.queue = f.queue
  BY <1>2, <1>4 DEF Fields, Alike
<1>6. Alike(f, k, {"plan", "swaps"})
  BY <1>2, <1>5 DEF Alike
<1>7. g = Released(k)
  BY DEF e
<1> HIDE DEF k
<1>8. /\ Alike(k, g, {"need", "queue"})
      /\ Releasing(Dags[f.block], f.need, f.queue, g.need, g.queue)
  <2>1. /\ Alike(k, Released(k), {"need", "queue"})
        /\ Releasing(Dags[k.block], k.need, k.queue, Released(k).need, Released(k).queue)
    BY <1>5, ReleasedIs
  <2> QED BY <1>5, <1>7, <2>1
<1>9. Alike(f, g, {"need", "queue", "swaps", "routed", "plan"})
  BY <1>6, <1>8 DEF Alike
<1>10. g.plan = k.plan /\ g.swaps = k.swaps
  BY <1>5, <1>8 DEF Alike, Fields
<1>11. g.routed = <<>>
  <2>1. g.routed = k.routed /\ k.routed = f.routed
    BY <1>1, <1>5, <1>6, <1>8 DEF Alike, Fields
  <2> QED BY <2>1
<1> QED BY <1>5, <1>8, <1>9, <1>10, <1>11 DEF ReleasedTo

(* So a frame stays good when a node is emitted. *)
LEMMA EmitGood ==
    ASSUME NEW f, Good(f), f.phase = "visit", f.queue # <<>>, Node(f).class # "ControlFlow",
           Node(f).class = "TwoQ" => Adjacent(Placement(f))
    PROVE  Good(Released([Flushed(f) EXCEPT
                   !.plan = @ \o [j \in 1..Len(Node(f).ops) |-> Mapped(Flushed(f), Node(f).ops[j])]]))
<1> DEFINE g == Released([Flushed(f) EXCEPT
                   !.plan = @ \o [j \in 1..Len(Node(f).ops) |-> Mapped(Flushed(f), Node(f).ops[j])]])
<1>1. f.routed = <<>>
  BY DEF Good, Bodies
<1>2. ReleasedTo(f, g, InPlace(f, Node(f).ops))
  BY <1>1, EmitReleases
<1>3. Adding(f, InPlace(f, Node(f).ops))
  BY NodeAdds
<1> HIDE DEF g
<1>4. Good(g)
  BY <1>2, <1>3, ReleaseGood
<1> QED BY <1>4 DEF g

(* The routed operation of control flow. *)
Closing(f) ==
    [Mapped(f, Head(Node(f).ops)) EXCEPT !.bodies = f.routed, !.at = SetToSeq(UsedQubits(f.routed))]

(* The control flow at the head of the queue. *)
LEMMA FlowIs ==
    ASSUME NEW f, Good(f), f.queue # <<>>, Node(f).class = "ControlFlow"
    PROVE  /\ f.block \in DOMAIN Program /\ Head(Node(f).ops) \in 1..Len(Program[f.block])
           /\ Flow(f) = Program[f.block][Head(Node(f).ops)] /\ Flow(f).kind \in Control
           /\ Range(Node(f).ops) = {Head(Node(f).ops)}
<1> DEFINE b == f.block
           s == Node(f).ops
<1>1. /\ Head(f.queue) \in 1..Len(Dags[b].nodes) /\ Node(f) = Dags[b].nodes[Head(f.queue)]
      /\ b \in DOMAIN Program
  BY HeadIs DEF Nodes
<1>2. NodeSays(b, Node(f))
  BY <1>1, NodeParts
<1>3. s \in Seq(Nat) /\ Len(s) = 1 /\ Head(s) \in Range(s) /\ Head(s) \in 1..Len(Program[b])
  BY <1>2 DEF NodeSays
<1>4. Class(Program[b][Head(s)]) = "ControlFlow"
  BY <1>2 DEF NodeSays
<1>5. Program[b][Head(s)].kind \in Control
  BY <1>1, <1>3, <1>4, ClassSays
<1>6. Range(s) = {Head(s)}
  BY <1>3, SequenceOf, SequenceFacts
<1> QED BY <1>1, <1>3, <1>5, <1>6 DEF Flow

(* A routed control flow is added to the plan in its place. *)
LEMMA ClosingAdds ==
    ASSUME NEW f, Good(f), f.queue # <<>>, Node(f).class = "ControlFlow"
    PROVE  Adding(f, <<Closing(f)>>)
<1> DEFINE i == Head(Node(f).ops)
           op == Closing(f)
           ops == Program[f.block]
           R == Order(Dags[f.block], ops)
           c == Inside[f.block]
<1>1. /\ f.block \in DOMAIN Program /\ i \in 1..Len(ops) /\ Flow(f) = ops[i] /\ ops[i].kind \in Control
      /\ Range(Node(f).ops) = {i}
  BY FlowIs
<1>2. Placed(f.layout) /\ Bodies(f)
  BY DEF Good, Laid
<1>3. op.kind = ops[i].kind /\ op.source = i /\ op.wires = ops[i].wires /\ op.bodies = f.routed
  BY DEF Closing, Mapped
<1>4. /\ Sequence(f.routed)
      /\ \A j \in 1..Len(f.routed) :
            /\ Body(f.routed[j], f.layout, Allowed(ops[i].kind, c))
            /\ ExitsAreDirect => LeftLast(f.routed[j], ops[i].kind)
  BY <1>1, <1>2 DEF Bodies
<1> HIDE DEF op, i
<1>5. op.kind \notin Transfers /\ op.kind \notin {"gate", "swap"} /\ op.kind # "swap" /\ op.kind \in Control
  BY <1>1, <1>3 DEF Control, Transfers
<1>6. Right(op, f.layout, c)
  BY <1>3, <1>4, <1>5 DEF Right, Fits
<1>7. Leads(<<op>>, f.layout, f.layout, c)
  BY <1>2, <1>5, <1>6, LeadsOne
<1>8. Len(<<op>>) = 1 /\ (<<op>>)[1] = op /\ Sequence(<<op>>)
  BY DEF Sequence, Range
<1>9. Covers(ops, <<op>>, {i}, R)
  <2>1. Real(<<op>>) = {1}
    BY <1>5, <1>8 DEF Real
  <2>2. <<i, i>> \notin R
    <3>1. i < i => FALSE
      BY <1>1
    <3> QED BY <1>1, <3>1, OrderIs
  <2> HIDE DEF R
  <2> QED BY <1>3, <1>8, <2>1, <2>2 DEF Covers
<1>10. Ends(<<op>>)
  BY <1>5, <1>8 DEF Ends
<1> QED BY <1>1, <1>7, <1>8, <1>9, <1>10 DEF Adding, Source, op

(* Closing it releases the children of its node. *)
LEMMA CloseReleases ==
    ASSUME NEW f, Good(f), f.swaps = <<>>,
           NEW g, g = Released([f EXCEPT !.plan = Append(@, Closing(f)), !.routed = <<>>])
    PROVE  ReleasedTo(f, g, <<Closing(f)>>)
<1> DEFINE op == Closing(f)
           k == [f EXCEPT !.plan = Append(@, op), !.routed = <<>>]
<1>1. DOMAIN f = Fields /\ Sequence(f.plan)
  BY DEF Good, Holds, Covers
<1> HIDE DEF op
<1>2. /\ DOMAIN k = Fields /\ k.plan = Append(f.plan, op) /\ Alike(f, k, {"plan", "routed"})
      /\ k.routed = <<>> /\ k.block = f.block /\ k.need = f.need /\ k.queue = f.queue /\ k.swaps = f.swaps
  BY <1>1 DEF Fields, Alike
<1>3. g = Released(k)
  BY DEF op
<1> HIDE DEF k
<1>4. /\ Alike(k, g, {"need", "queue"})
      /\ Releasing(Dags[f.block], f.need, f.queue, g.need, g.queue)
  <2>1. /\ Alike(k, Released(k), {"need", "queue"})
        /\ Releasing(Dags[k.block], k.need, k.queue, Released(k).need, Released(k).queue)
    BY <1>2, ReleasedIs
  <2> QED BY <1>2, <1>3, <2>1
<1>5. Alike(f, g, {"need", "queue", "swaps", "routed", "plan"})
  BY <1>2, <1>4 DEF Alike
<1>6. g.plan = k.plan /\ g.swaps = k.swaps /\ g.routed = k.routed
  BY <1>2, <1>4 DEF Alike, Fields
<1>7. Append(f.plan, op) = (f.plan \o [i \in 1..Len(f.swaps) |-> Swap(f.swaps[i])]) \o <<op>>
  <2> DEFINE p == f.plan
             e == [i \in 1..Len(f.swaps) |-> Swap(f.swaps[i])]
             T == Range(p) \cup {op}
  <2>1. p \in Seq(T) /\ op \in T
    <3>1. p \in Seq(Range(p))
      BY <1>1 DEF Sequence
    <3> QED BY <3>1
  <2>2. e = <<>>
    <3>1. 1..Len(f.swaps) = {}
      BY EmptySequence
    <3> QED BY <3>1
  <2> HIDE DEF p, e, T
  <2>3. p \o <<>> = p
    BY <2>1
  <2>4. Append(p, op) = p \o <<op>>
    BY <2>1
  <2> QED BY <2>2, <2>3, <2>4 DEF p, e
<1> QED BY <1>2, <1>4, <1>5, <1>6, <1>7 DEF ReleasedTo, op

(* So a frame stays good when control flow is closed. *)
LEMMA CloseGood ==
    ASSUME NEW f, Good(f), f.phase = "visit", f.queue # <<>>, Node(f).class = "ControlFlow"
    PROVE  Good(Released([f EXCEPT !.plan = Append(@, Closing(f)), !.routed = <<>>]))
<1> DEFINE g == Released([f EXCEPT !.plan = Append(@, Closing(f)), !.routed = <<>>])
<1>1. f.swaps = <<>>
  BY DEF Good, Stage
<1>2. ReleasedTo(f, g, <<Closing(f)>>)
  BY <1>1, CloseReleases
<1>3. Adding(f, <<Closing(f)>>)
  BY ClosingAdds
<1> HIDE DEF g
<1>4. Good(g)
  BY <1>2, <1>3, ReleaseGood
<1> QED BY <1>4 DEF g

-----------------------------------------------------------------------------
(* Searching *)

(* While SWAPs are tried, what was routed stays. *)
Searches(f, g) == Alike(f, g, {"layout", "front", "queue", "swaps", "tried", "repeated", "goal", "phase"})

(* What is tracked when nothing is queued, or when S is queued again. *)
LEMMA SearchesGood ==
    ASSUME NEW f, Good(f), f.queue = <<>>,
           NEW g, Searches(f, g), Placed(g.layout), Cached(Nodes(f), g.front, g.layout),
           g.swaps \in Seq(Edges), Stage(g),
           NEW S \in SUBSET DOMAIN f.front, DOMAIN g.front = DOMAIN f.front \ S, Lists(g.queue, S),
           \A L : Behind(L, f.swaps, f.layout) /\ Placed(L) => Behind(L, g.swaps, g.layout)
    PROVE  Good(g)
<1>1. /\ DOMAIN f = Fields /\ f.block \in DOMAIN Program
      /\ Tracks(f) /\ Holds(f) /\ Laid(f) /\ Made(f) /\ Bodies(f)
  BY DEF Good
<1>2. /\ DOMAIN g = Fields /\ g.block = f.block /\ g.entry = f.entry
      /\ g.need = f.need /\ g.routed = f.routed /\ g.plan = f.plan
  BY <1>1 DEF Searches, Alike, Fields
<1>3. Tracks(g) /\ DoneIn(g) = DoneIn(f)
  <2>1. Progress(Dags[f.block], f.need, <<>>, DOMAIN f.front)
    BY <1>1 DEF Tracks
  <2> DEFINE need == f.need
             waiting == DOMAIN f.front
             order == g.queue
  <2>2. Progress(Dags[f.block], need, <<>>, waiting) /\ S \in SUBSET waiting /\ Lists(order, S)
    BY <2>1
  <2> HIDE DEF need, waiting, order
  <2>3. /\ Progress(Dags[f.block], need, order, waiting \ S)
        /\ Finished(need, order, waiting \ S) = Finished(need, <<>>, waiting)
    BY <2>2, ProgressEnabled
  <2> QED BY <1>2, <2>3 DEF need, waiting, order, Tracks, DoneIn
<1>4. Holds(g)
  BY <1>1, <1>2, <1>3 DEF Holds, Source
<1>5. Nodes(g) = Nodes(f)
  BY <1>2 DEF Nodes
<1>6. Laid(g)
  BY <1>1, <1>2, <1>5 DEF Laid
<1>7. Made(g)
  <2>1. PICK L : Leads(f.plan, f.entry, L, Inside[f.block]) /\ Behind(L, f.swaps, f.layout)
    BY <1>1 DEF Made
  <2>2. Placed(L)
    BY <2>1 DEF Leads
  <2> QED BY <1>2, <2>1, <2>2 DEF Made
<1>8. Bodies(g)
  <2>1. f.routed = <<>>
    BY <1>1 DEF Bodies
  <2>2. \A i \in 1..0 : FALSE
    OBVIOUS
  <2> QED BY <1>2, <2>1, <2>2, EmptySequence DEF Bodies
<1> QED BY <1>1, <1>2, <1>3, <1>4, <1>6, <1>7, <1>8 DEF Good

(* k is f with SWAPs applied or undone. *)
Swept(f, k) ==
    /\ Alike(f, k, {"layout", "front", "swaps"})
    /\ Placed(k.layout) /\ Cached(Nodes(f), k.front, k.layout)
    /\ DOMAIN k.front = DOMAIN f.front /\ k.swaps \in Seq(Edges)
    /\ \A L : Behind(L, f.swaps, f.layout) /\ Placed(L) => Behind(L, k.swaps, k.layout)

(* Trying no SWAP moves nothing. *)
LEMMA NothingSwept ==
    ASSUME NEW f, Good(f)
    PROVE  Swept(f, f)
BY DEF Good, Laid, Swept, Alike

(* Trying one moves the layout and the pairs alike. *)
LEMMA OneSwept ==
    ASSUME NEW f, Good(f), NEW e \in Edges,
           NEW k, k = [ApplySwap(f, e) EXCEPT !.swaps = Append(@, e)]
    PROVE  /\ Swept(f, k) /\ Len(k.swaps) = Len(f.swaps) + 1
           /\ \A n \in DOMAIN f.front : k.front[n] = <<Exchange(f.front[n][1], e), Exchange(f.front[n][2], e)>>
<1>1. DOMAIN f = Fields /\ Placed(f.layout) /\ Cached(Nodes(f), f.front, f.layout) /\ f.swaps \in Seq(Edges)
  BY DEF Good, Laid
<1> DEFINE a == ApplySwap(f, e)
           M == Swapped(f.layout, e)
<1>2. /\ SwapsTo(Nodes(f), f, a, M)
      /\ \A n \in DOMAIN f.front : a.front[n] = <<Exchange(f.front[n][1], e), Exchange(f.front[n][2], e)>>
  <2>1. {"layout", "front"} \subseteq DOMAIN f
    BY <1>1 DEF Fields
  <2> QED BY <1>1, <2>1, ApplySwapIs
<1>3. /\ Alike(f, a, {"layout", "front"}) /\ a.layout = M /\ DOMAIN a.front = DOMAIN f.front
      /\ Cached(Nodes(f), a.front, M)
  BY <1>2 DEF SwapsTo
<1>4. a.swaps = f.swaps /\ DOMAIN a = Fields
  BY <1>1, <1>3 DEF Alike, Fields
<1>5. k = [a EXCEPT !.swaps = Append(@, e)]
  OBVIOUS
<1> HIDE DEF a, M
<1>6. /\ Alike(f, k, {"layout", "front", "swaps"}) /\ k.swaps = Append(f.swaps, e)
      /\ k.layout = M /\ k.front = a.front
  BY <1>1, <1>3, <1>4, <1>5 DEF Alike, Fields
<1>7. Placed(M)
  BY <1>1, SwappedPlaced DEF M
<1>8. Sequence(f.swaps) /\ k.swaps \in Seq(Edges) /\ Len(k.swaps) = Len(f.swaps) + 1
  <2>1. Sequence(f.swaps)
    BY <1>1, SequenceOf
  <2> DEFINE s == f.swaps
  <2>2. s \in Seq(Edges)
    BY <1>1
  <2> HIDE DEF s
  <2>3. Append(s, e) \in Seq(Edges) /\ Len(Append(s, e)) = Len(s) + 1
    BY <2>2
  <2> QED BY <1>6, <2>1, <2>3 DEF s
<1>9. \A L : Behind(L, f.swaps, f.layout) => Behind(L, k.swaps, k.layout)
  BY <1>6, <1>8, BehindNext DEF M
<1>10. Swept(f, k)
  BY <1>3, <1>6, <1>7, <1>8, <1>9 DEF Swept
<1> QED BY <1>2, <1>6, <1>8, <1>10

(* The layout behind no SWAPs is the same. *)
LEMMA BehindNothing ==
    ASSUME NEW L, NEW M, Behind(L, <<>>, M)
    PROVE  L = M
BY EmptySequence DEF Behind

(* Rolled back, the layout is the one the search began with. *)
LEMMA AllUndone ==
    ASSUME NEW f, Good(f), NEW k, k = [Undone(f) EXCEPT !.swaps = <<>>]
    PROVE  Swept(f, k) /\ k.swaps = <<>> /\ k.front = Undone(f).front
<1>1. /\ DOMAIN f = Fields /\ Placed(f.layout) /\ Cached(Nodes(f), f.front, f.layout)
      /\ f.swaps \in Seq(Edges) /\ Made(f)
  BY DEF Good, Laid
<1>2. {"layout", "front"} \subseteq DOMAIN f
  BY <1>1 DEF Fields
<1> DEFINE u == Undone(f)
<1>3. ASSUME NEW L, Behind(L, f.swaps, f.layout), Placed(L)
      PROVE  SwapsTo(Nodes(f), f, u, L)
  BY <1>1, <1>2, <1>3, UndoneIs
<1>4. PICK L : Behind(L, f.swaps, f.layout) /\ Placed(L)
  BY <1>1 DEF Made, Leads
<1>5. SwapsTo(Nodes(f), f, u, L)
  BY <1>3, <1>4
<1>6. k = [u EXCEPT !.swaps = <<>>]
  OBVIOUS
<1> HIDE DEF u
<1>7. /\ Alike(f, u, {"layout", "front"}) /\ u.layout = L /\ DOMAIN u.front = DOMAIN f.front
      /\ Cached(Nodes(f), u.front, L)
  BY <1>5 DEF SwapsTo
<1>8. /\ Alike(f, k, {"layout", "front", "swaps"}) /\ k.swaps = <<>>
      /\ k.layout = L /\ k.front = u.front
  BY <1>1, <1>6, <1>7 DEF Alike, Fields
<1>9. ASSUME NEW M, Behind(M, f.swaps, f.layout), Placed(M)
      PROVE  Behind(M, k.swaps, k.layout)
  <2>1. u.layout = M
    BY <1>3, <1>9 DEF SwapsTo
  <2> QED BY <1>7, <1>8, <2>1, BehindNone
<1>10. k.swaps \in Seq(Edges)
  BY <1>8
<1>11. Swept(f, k)
  BY <1>4, <1>7, <1>8, <1>9, <1>10 DEF Swept
<1> QED BY <1>8, <1>11 DEF u

(* Nothing is queued yet. *)
LEMMA StillSearches ==
    ASSUME NEW f, Good(f), f.queue = <<>>, NEW k, Swept(f, k),
           NEW g, Alike(k, g, {"tried", "repeated", "goal", "phase"}), Stage(g)
    PROVE  Good(g)
<1>1. DOMAIN f = Fields
  BY DEF Good
<1>2. /\ DOMAIN k = Fields /\ k.queue = <<>> /\ Placed(k.layout)
      /\ Cached(Nodes(f), k.front, k.layout)
      /\ DOMAIN k.front = DOMAIN f.front /\ k.swaps \in Seq(Edges)
      /\ Alike(f, k, {"layout", "front", "swaps"})
  BY <1>1 DEF Swept, Alike, Fields
<1>3. g.layout = k.layout /\ g.front = k.front /\ g.swaps = k.swaps /\ g.queue = k.queue
  BY <1>2 DEF Alike, Fields
<1>4. Searches(f, g)
  BY <1>2 DEF Searches, Alike
<1>5. Lists(g.queue, {})
  BY <1>2, <1>3, EmptySequence DEF Lists, Distinct
<1>6. \A L : Behind(L, f.swaps, f.layout) /\ Placed(L) => Behind(L, g.swaps, g.layout)
  BY <1>3 DEF Swept
<1>7. DOMAIN g.front = DOMAIN f.front \ {} /\ {} \in SUBSET DOMAIN f.front
  BY <1>2, <1>3
<1> QED BY <1>2, <1>3, <1>4, <1>5, <1>6, <1>7, SearchesGood

(* Executable pairs are queued again. *)
LEMMA EnabledGood ==
    ASSUME NEW f, Good(f), f.queue = <<>>, NEW k, Swept(f, k),
           Len(k.swaps) <= AttemptLimit + Cardinality(Physical),
           NEW S, S \subseteq Executable(k), S # {}, NEW order \in SetToSeqs(S)
    PROVE  Good([k EXCEPT !.phase = "visit", !.queue = order, !.front = Without(@, S),
                          !.goal = 0, !.tried = {}, !.repeated = FALSE])
<1> DEFINE g == [k EXCEPT !.phase = "visit", !.queue = order, !.front = Without(@, S),
                          !.goal = 0, !.tried = {}, !.repeated = FALSE]
<1>1. DOMAIN f = Fields /\ Tracks(f) /\ Laid(f) /\ f.block \in DOMAIN Program
  BY DEF Good
<1>2. /\ DOMAIN k = Fields /\ Placed(k.layout)
      /\ Cached(Nodes(f), k.front, k.layout) /\ k.block = f.block
      /\ DOMAIN k.front = DOMAIN f.front /\ k.swaps \in Seq(Edges)
      /\ Alike(f, k, {"layout", "front", "swaps"})
  BY <1>1 DEF Swept, Alike, Fields
<1>3. /\ g.layout = k.layout /\ g.swaps = k.swaps /\ g.queue = order /\ g.front = Without(k.front, S)
      /\ g.phase = "visit" /\ g.block = f.block
      /\ Alike(k, g, {"phase", "queue", "front", "goal", "tried", "repeated"})
  BY <1>2 DEF Alike, Fields
<1> HIDE DEF g
<1>4. Searches(f, g)
  BY <1>2, <1>3 DEF Searches, Alike
<1>5. S \subseteq DOMAIN f.front /\ \A n \in S : Adjacent(k.front[n])
  BY <1>2 DEF Executable
<1>6. /\ DOMAIN g.front = DOMAIN f.front \ S
      /\ \A n \in DOMAIN g.front : n \in DOMAIN k.front /\ g.front[n] = k.front[n]
  BY <1>2, <1>3 DEF Without
<1>7. Cached(Nodes(f), g.front, g.layout)
  BY <1>2, <1>3, <1>6 DEF Cached
<1>8. IsFiniteSet(S)
  <2>1. DOMAIN f.front \subseteq 1..Len(Dags[f.block].nodes) /\ Layered(Dags[f.block])
    BY <1>1, DagsAreGraphs, GraphParts DEF Tracks, Progress
  <2>2. IsFiniteSet(1..Len(Dags[f.block].nodes))
    BY <2>1, FS_Interval DEF Layered
  <2>3. S \subseteq 1..Len(Dags[f.block].nodes)
    BY <1>5, <2>1
  <2> QED BY <2>2, <2>3, FS_Subset
<1>9. Lists(order, S)
  BY <1>8, ListedSet
<1>10. order # <<>> /\ Head(order) \in S
  <2>1. Sequence(order) /\ Range(order) = S
    BY <1>9 DEF Lists
  <2>2. order # <<>>
    BY <2>1, EmptySequence
  <2> QED BY <2>1, <2>2, TailSequence
<1>11. Node(g).class = "TwoQ" /\ Adjacent(Placement(g))
  <2> DEFINE h == Head(order)
  <2>1. Node(g) = Nodes(f)[h]
    BY <1>3 DEF Node, Nodes
  <2>2. h \in DOMAIN f.front /\ h \in DOMAIN k.front /\ Adjacent(k.front[h])
    BY <1>2, <1>5, <1>10
  <2>3. Nodes(f)[h].class = "TwoQ"
    BY <1>1, <2>2 DEF Laid
  <2>4. k.front[h] = <<k.layout[Nodes(f)[h].wires[1]], k.layout[Nodes(f)[h].wires[2]]>>
    BY <1>2, <2>2 DEF Cached
  <2>5. Placement(g) = k.front[h]
    BY <1>3, <2>1, <2>4 DEF Placement
  <2> QED BY <2>1, <2>2, <2>3, <2>5
<1>12. Stage(g)
  BY <1>3, <1>10, <1>11 DEF Stage
<1>13. \A L : Behind(L, f.swaps, f.layout) /\ Placed(L) => Behind(L, g.swaps, g.layout)
  BY <1>3 DEF Swept
<1>14. Good(g)
  BY <1>2, <1>3, <1>4, <1>5, <1>6, <1>7, <1>9, <1>12, <1>13, SearchesGood
<1> QED BY <1>14 DEF g

(* A pair that waits is a pair of two places, at a distance. *)
LEMMA WaitingPair ==
    ASSUME NEW nodes, NEW front, NEW L, Placed(L), Cached(nodes, front, L), NEW n \in DOMAIN front
    PROVE  /\ Distance(front[n]) \in 0..(Cardinality(Physical) - 1)
           /\ Distance(front[n]) = 0 => Adjacent(front[n])
<1> DEFINE p == L[nodes[n].wires[1]]
           q == L[nodes[n].wires[2]]
<1>1. front[n] = <<p, q>> /\ p \in Physical /\ q \in Physical /\ p # q
  BY DEF Cached, Placed
<1> HIDE DEF p, q
<1> QED BY <1>1, DistanceIs

(* A frame stays good when a search begins. *)
LEMMA SeekGood ==
    ASSUME NEW f, Good(f), f.phase = "visit", f.queue = <<>>
    PROVE  Good([f EXCEPT !.phase = "search", !.swaps = <<>>,
                          !.tried = {f.layout}, !.repeated = FALSE])
<1> DEFINE g == [f EXCEPT !.phase = "search", !.swaps = <<>>,
                          !.tried = {f.layout}, !.repeated = FALSE]
<1>1. DOMAIN f = Fields /\ f.swaps = <<>>
  BY DEF Good, Stage
<1>2. Alike(f, g, {"tried", "repeated", "goal", "phase"}) /\ g.phase = "search" /\ g.queue = <<>> /\ g.swaps = <<>>
  BY <1>1 DEF Alike, Fields
<1> HIDE DEF g
<1>3. Stage(g)
  BY <1>2, EmptySequence, LimitIsNatural DEF Stage
<1>4. Good(g)
  BY <1>2, <1>3, NothingSwept, StillSearches
<1> QED BY <1>4 DEF g

(* And when a SWAP is tried, whether or not it enables a pair. *)
LEMMA TryGood ==
    ASSUME NEW f, Good(f), f.phase = "search", Len(f.swaps) < AttemptLimit, NEW e \in Edges,
           NEW k, k = [ApplySwap(f, e) EXCEPT !.swaps = Append(@, e)]
    PROVE  /\ \A collision \in BOOLEAN :
                  Good([k EXCEPT !.tried = @ \cup {k.layout},
                                 !.repeated = collision \/ k.layout \in k.tried])
           /\ \A S : S \subseteq Executable(k) /\ S # {} =>
                  \A order \in SetToSeqs(S) :
                      Good([k EXCEPT !.phase = "visit", !.queue = order, !.front = Without(@, S),
                                     !.goal = 0, !.tried = {}, !.repeated = FALSE])
<1>1. DOMAIN f = Fields /\ f.queue = <<>> /\ Len(f.swaps) \in Nat
  <2>1. f.swaps \in Seq(Edges)
    BY DEF Good, Laid
  <2>2. DOMAIN f = Fields /\ f.queue = <<>>
    BY DEF Good, Stage
  <2> QED BY <2>1, <2>2, SequenceOf
<1>2. Swept(f, k) /\ Len(k.swaps) = Len(f.swaps) + 1
  BY OneSwept
<1>3. Len(k.swaps) <= AttemptLimit
  BY <1>1, <1>2, LimitIsNatural
<1>4. Cardinality(Physical) \in Nat
  BY PhysicalIsFinite, FS_CardinalityType
<1>5. Len(k.swaps) <= AttemptLimit + Cardinality(Physical)
  BY <1>1, <1>2, <1>3, <1>4, LimitIsNatural
<1>6. DOMAIN k = Fields /\ k.phase = "search" /\ k.queue = <<>>
  BY <1>1, <1>2 DEF Swept, Alike, Fields
<1>7. ASSUME NEW collision \in BOOLEAN
      PROVE  Good([k EXCEPT !.tried = @ \cup {k.layout},
                            !.repeated = collision \/ k.layout \in k.tried])
  <2> DEFINE g == [k EXCEPT !.tried = @ \cup {k.layout},
                            !.repeated = collision \/ k.layout \in k.tried]
  <2>1. Alike(k, g, {"tried", "repeated", "goal", "phase"}) /\ g.phase = "search" /\ g.queue = <<>>
        /\ g.swaps = k.swaps
    BY <1>6 DEF Alike, Fields
  <2> HIDE DEF g
  <2>2. Stage(g)
    BY <1>3, <2>1 DEF Stage
  <2>3. Good(g)
    BY <1>1, <1>2, <2>1, <2>2, StillSearches
  <2> QED BY <2>3 DEF g
<1>8. ASSUME NEW S, S \subseteq Executable(k), S # {}, NEW order \in SetToSeqs(S)
      PROVE  Good([k EXCEPT !.phase = "visit", !.queue = order, !.front = Without(@, S),
                            !.goal = 0, !.tried = {}, !.repeated = FALSE])
  BY <1>1, <1>2, <1>5, <1>8, EnabledGood
<1> QED BY <1>7, <1>8

(* And when the search is rolled back to force a pair. *)
LEMMA GiveUpGood ==
    ASSUME NEW f, Good(f), f.phase = "search", NEW n \in DOMAIN Undone(f).front
    PROVE  Good([Undone(f) EXCEPT !.phase = "force", !.goal = n, !.swaps = <<>>,
                                  !.tried = {}, !.repeated = FALSE])
<1> DEFINE u == Undone(f)
           k == [u EXCEPT !.swaps = <<>>]
           g == [u EXCEPT !.phase = "force", !.goal = n, !.swaps = <<>>,
                          !.tried = {}, !.repeated = FALSE]
<1>1. DOMAIN f = Fields /\ f.queue = <<>>
  BY DEF Good, Stage
<1>2. Swept(f, k) /\ k.swaps = <<>> /\ k.front = u.front
  BY AllUndone
<1> HIDE DEF u
<1>3. DOMAIN k = Fields /\ k.queue = <<>> /\ DOMAIN u = Fields
  <2>1. DOMAIN k = DOMAIN u
    OBVIOUS
  <2> HIDE DEF k
  <2> QED BY <1>1, <1>2, <2>1 DEF Swept, Alike, Fields
<1>4. Alike(k, g, {"tried", "repeated", "goal", "phase"}) /\ g.phase = "force"
      /\ g.goal = n /\ g.front = k.front /\ g.swaps = <<>> /\ g.queue = k.queue
  BY <1>3 DEF Alike, Fields
<1> HIDE DEF k, g
<1>5. Placed(k.layout) /\ Cached(Nodes(f), k.front, k.layout) /\ n \in DOMAIN k.front
  BY <1>2 DEF Swept, u
<1>6. Distance(k.front[n]) \in 0..(Cardinality(Physical) - 1)
  BY <1>5, WaitingPair
<1>7. Cardinality(Physical) \in Nat
  BY PhysicalIsFinite, FS_CardinalityType
<1>8. Len(g.swaps) + Distance(g.front[g.goal]) <= Cardinality(Physical)
  <2>1. Len(g.swaps) = 0 /\ Distance(g.front[g.goal]) = Distance(k.front[n])
    BY <1>4, EmptySequence
  <2> QED BY <1>6, <1>7, <2>1
<1>9. Stage(g)
  BY <1>3, <1>4, <1>5, <1>8 DEF Stage
<1>10. Good(g)
  BY <1>1, <1>2, <1>4, <1>9, StillSearches
<1> QED BY <1>10 DEF g, u

(* And when the pair is brought closer. *)
LEMMA ForceGood ==
    ASSUME NEW f, Good(f), f.phase = "force", NEW e \in Edges,
           Distance(<<Exchange(f.front[f.goal][1], e), Exchange(f.front[f.goal][2], e)>>) =
               Distance(f.front[f.goal]) - 1
    PROVE  Good([ApplySwap(f, e) EXCEPT !.swaps = Append(@, e)])
<1> DEFINE k == [ApplySwap(f, e) EXCEPT !.swaps = Append(@, e)]
<1>1. /\ DOMAIN f = Fields /\ f.queue = <<>> /\ f.goal \in DOMAIN f.front
      /\ Len(f.swaps) + Distance(f.front[f.goal]) <= Cardinality(Physical)
  BY DEF Good, Stage
<1>2. /\ Swept(f, k) /\ Len(k.swaps) = Len(f.swaps) + 1
      /\ \A n \in DOMAIN f.front : k.front[n] = <<Exchange(f.front[n][1], e), Exchange(f.front[n][2], e)>>
  <2>1. k = [ApplySwap(f, e) EXCEPT !.swaps = Append(@, e)]
    OBVIOUS
  <2> HIDE DEF k
  <2> QED BY <2>1, OneSwept
<1> HIDE DEF k
<1>3. /\ DOMAIN k = Fields /\ k.phase = "force" /\ k.queue = <<>> /\ k.goal = f.goal
      /\ DOMAIN k.front = DOMAIN f.front
      /\ Alike(k, k, {"tried", "repeated", "goal", "phase"})
  BY <1>1, <1>2 DEF Swept, Alike, Fields
<1>4. Placed(f.layout) /\ Cached(Nodes(f), f.front, f.layout) /\ f.swaps \in Seq(Edges)
  BY DEF Good, Laid
<1>5. Distance(f.front[f.goal]) \in 0..(Cardinality(Physical) - 1) /\ Len(f.swaps) \in Nat
  BY <1>1, <1>4, WaitingPair, SequenceOf
<1>6. Cardinality(Physical) \in Nat
  BY PhysicalIsFinite, FS_CardinalityType
<1>7. Distance(k.front[k.goal]) = Distance(f.front[f.goal]) - 1
  BY <1>1, <1>2, <1>3
<1>8. Len(k.swaps) + Distance(k.front[k.goal]) <= Cardinality(Physical)
  BY <1>1, <1>2, <1>5, <1>6, <1>7
<1>9. Stage(k)
  BY <1>1, <1>3, <1>8 DEF Stage
<1>10. Good(k)
  BY <1>1, <1>2, <1>3, <1>9, StillSearches
<1> QED BY <1>10 DEF k

(* And when it is adjacent. *)
LEMMA ForcedGood ==
    ASSUME NEW f, Good(f), f.phase = "force", Distance(f.front[f.goal]) = 0,
           NEW order \in SetToSeqs(Executable(f))
    PROVE  Good([f EXCEPT !.phase = "visit", !.queue = order, !.front = Without(@, Executable(f)),
                          !.goal = 0, !.tried = {}, !.repeated = FALSE])
<1>1. /\ f.queue = <<>> /\ f.goal \in DOMAIN f.front
      /\ Len(f.swaps) + Distance(f.front[f.goal]) <= Cardinality(Physical)
  BY DEF Good, Stage
<1>2. Placed(f.layout) /\ Cached(Nodes(f), f.front, f.layout) /\ f.swaps \in Seq(Edges)
  BY DEF Good, Laid
<1>3. f.goal \in Executable(f)
  BY <1>1, <1>2, WaitingPair DEF Executable
<1>4. Len(f.swaps) <= AttemptLimit + Cardinality(Physical)
  <2>1. Len(f.swaps) \in Nat /\ Cardinality(Physical) \in Nat
    BY <1>2, SequenceOf, PhysicalIsFinite, FS_CardinalityType
  <2> QED BY <1>1, <2>1, LimitIsNatural
<1> QED BY <1>1, <1>3, <1>4, NothingSwept, EnabledGood

-----------------------------------------------------------------------------
(* Bodies of control flow *)

(* What more a body may hold when its parent may hold e too. *)
More(kind, e) == IF kind = "loop" THEN {} ELSE e

(* What a body may hold grows with what its parent may. *)
LEMMA AllowedMore ==
    ASSUME NEW kind, NEW c, NEW e
    PROVE  Allowed(kind, c \cup e) = Allowed(kind, c) \cup More(kind, e)
BY DEF Allowed, More

(* A body is one where more transfers are allowed. *)
LEMMA BodyWider ==
    ASSUME NEW p, NEW L, NEW c, NEW d \in SUBSET Transfers, c \subseteq d, Body(p, L, c)
    PROVE  Body(p, L, d)
<1>1. PICK W : Rightful(W) /\ <<p, L, c>> \in W
  BY DEF Body
<1> DEFINE X == {<<x[1], x[2], x[3] \cup e>> : x \in W, e \in SUBSET Transfers}
<1>2. <<p, L, d>> \in X
  <2> DEFINE x == <<p, L, c>>
  <2>1. x[1] = p /\ x[2] = L /\ x[3] = c /\ x \in W
    BY <1>1
  <2>2. <<p, L, d>> = <<x[1], x[2], x[3] \cup d>>
    BY <2>1
  <2> HIDE DEF x
  <2> QED BY <2>1, <2>2
<1>5. \A x \in W, e \in SUBSET Transfers : <<x[1], x[2], x[3] \cup e>> \in X
  OBVIOUS
<1>6. \A y \in X : \E x \in W, e \in SUBSET Transfers : y = <<x[1], x[2], x[3] \cup e>>
  OBVIOUS
<1> HIDE DEF X
<1>3. ASSUME NEW y \in X
      PROVE  /\ Sequence(y[1]) /\ Placed(y[2])
             /\ \E t : /\ Walk(y[1], y[2], t) /\ t[Len(y[1])] = y[2]
                       /\ \A k \in 1..Len(y[1]) :
                             /\ Fits(y[1][k], t[k - 1], y[3])
                             /\ y[1][k].kind \in Control =>
                                   \A i \in 1..Len(y[1][k].bodies) :
                                       <<y[1][k].bodies[i], t[k - 1], Allowed(y[1][k].kind, y[3])>> \in X
  <2>1. PICK x \in W, e \in SUBSET Transfers : y = <<x[1], x[2], x[3] \cup e>>
    BY <1>6
  <2>2. y[1] = x[1] /\ y[2] = x[2] /\ y[3] = x[3] \cup e
    BY <2>1
  <2>3. Sequence(x[1]) /\ Placed(x[2])
    BY <1>1 DEF Rightful
  <2>4. PICK t : /\ Walk(x[1], x[2], t) /\ t[Len(x[1])] = x[2]
                 /\ \A k \in 1..Len(x[1]) :
                        /\ Fits(x[1][k], t[k - 1], x[3])
                        /\ x[1][k].kind \in Control =>
                              \A i \in 1..Len(x[1][k].bodies) :
                                  <<x[1][k].bodies[i], t[k - 1], Allowed(x[1][k].kind, x[3])>> \in W
    BY <1>1 DEF Rightful
  <2>5. ASSUME NEW k \in 1..Len(x[1])
        PROVE  /\ Fits(x[1][k], t[k - 1], x[3] \cup e)
               /\ x[1][k].kind \in Control =>
                      \A i \in 1..Len(x[1][k].bodies) :
                          <<x[1][k].bodies[i], t[k - 1], Allowed(x[1][k].kind, x[3] \cup e)>> \in X
    <3> DEFINE op == x[1][k]
               M == t[k - 1]
    <3>1. Fits(op, M, x[3])
      BY <2>4
    <3>2. op.kind \in Control =>
              \A i \in 1..Len(op.bodies) : <<op.bodies[i], M, Allowed(op.kind, x[3])>> \in W
      BY <2>4
    <3> HIDE DEF op, M
    <3>3. Fits(op, M, x[3] \cup e)
      BY <3>1 DEF Fits
    <3>4. ASSUME op.kind \in Control, NEW i \in 1..Len(op.bodies)
          PROVE  <<op.bodies[i], M, Allowed(op.kind, x[3] \cup e)>> \in X
      <4> DEFINE z == <<op.bodies[i], M, Allowed(op.kind, x[3])>>
      <4>1. z \in W
        BY <3>2, <3>4
      <4>2. z[1] = op.bodies[i] /\ z[2] = M /\ z[3] = Allowed(op.kind, x[3])
        OBVIOUS
      <4> HIDE DEF z
      <4> DEFINE h == More(op.kind, e)
      <4>3. Allowed(op.kind, x[3] \cup e) = Allowed(op.kind, x[3]) \cup h /\ h \in SUBSET Transfers
        BY <2>1, AllowedMore DEF More
      <4> HIDE DEF h
      <4>4. <<op.bodies[i], M, Allowed(op.kind, x[3] \cup e)>> = <<z[1], z[2], z[3] \cup h>>
        BY <4>2, <4>3
      <4> QED BY <1>5, <4>1, <4>3, <4>4
    <3> QED BY <3>3, <3>4 DEF op, M
  <2> QED BY <2>2, <2>3, <2>4, <2>5
<1>4. Rightful(X)
  BY <1>3 DEF Rightful
<1> QED BY <1>2, <1>4 DEF Body

(* A frame that is alike in all is as good. *)
LEMMA SameGood ==
    ASSUME NEW f, Good(f), NEW g, Alike(f, g, {})
    PROVE  Good(g) /\ Node(g) = Node(f) /\ Flow(g) = Flow(f)
<1>1. DOMAIN f = Fields
  BY DEF Good
<1>2. /\ DOMAIN g = Fields
      /\ g.block = f.block /\ g.entry = f.entry /\ g.layout = f.layout /\ g.front = f.front
      /\ g.need = f.need /\ g.queue = f.queue /\ g.swaps = f.swaps /\ g.goal = f.goal
      /\ g.phase = f.phase /\ g.routed = f.routed /\ g.plan = f.plan
  BY <1>1, AlikeIs
<1>3. Node(g) = Node(f)
  BY <1>2 DEF Node
<1>4. Flow(g) = Flow(f)
  BY <1>2, <1>3 DEF Flow
<1>5. Tracks(g)
  BY <1>2 DEF Good, Tracks
<1>6. Holds(g)
  <2>1. Source(g) = Source(f) /\ DoneIn(g) = DoneIn(f)
    BY <1>2 DEF Source, DoneIn
  <2>2. Holds(f)
    BY DEF Good
  <2> QED BY <1>2, <2>1, <2>2 DEF Holds
<1>7. Laid(g)
  <2>1. Nodes(g) = Nodes(f) /\ Laid(f)
    BY <1>2 DEF Good, Nodes
  <2> QED BY <1>2, <2>1 DEF Laid
<1>8. Stage(g)
  <2>1. Placement(g) = Placement(f) /\ Stage(f)
    BY <1>2, <1>3 DEF Good, Placement
  <2> QED BY <1>2, <1>3, <2>1 DEF Stage
<1>9. Made(g)
  BY <1>2 DEF Good, Made
<1>10. Bodies(g)
  BY <1>2, <1>3, <1>4 DEF Good, Bodies
<1> QED BY <1>2, <1>3, <1>4, <1>5, <1>6, <1>7, <1>8, <1>9, <1>10 DEF Good

(* Control flow is reached with no SWAPs in hand. *)
LEMMA FlushedGood ==
    ASSUME NEW f, Good(f), f.phase = "visit", f.queue # <<>>, Node(f).class = "ControlFlow"
    PROVE  /\ f.swaps = <<>> /\ Alike(f, Flushed(f), {})
<1>1. DOMAIN f = Fields /\ f.swaps = <<>>
  BY DEF Good, Stage
<1>2. Sequence(f.plan)
  BY DEF Good, Holds, Covers
<1>3. Alike(f, Flushed(f), {"plan", "swaps"}) /\ Flushed(f).swaps = <<>>
      /\ Flushed(f).plan = f.plan \o [i \in 1..Len(f.swaps) |-> Swap(f.swaps[i])]
  BY <1>1 DEF Flushed, Alike, Fields
<1>4. f.plan \o [i \in 1..Len(f.swaps) |-> Swap(f.swaps[i])] = f.plan
  <2>1. [i \in 1..Len(f.swaps) |-> Swap(f.swaps[i])] = <<>>
    BY <1>1, EmptySequence
  <2> DEFINE p == f.plan
             S == Range(f.plan)
  <2>2. p \in Seq(S)
    BY <1>2 DEF Sequence
  <2> HIDE DEF p, S
  <2>3. p \o <<>> = p
    BY <2>2
  <2> QED BY <2>1, <2>3 DEF p
<1> QED BY <1>1, <1>3, <1>4 DEF Alike, Fields

(* One more body is routed. *)
LEMMA RoutedGood ==
    ASSUME NEW f, Good(f), f.phase = "visit", f.queue # <<>>, Node(f).class = "ControlFlow",
           NEW b, Body(b, f.layout, Allowed(Flow(f).kind, Inside[f.block])),
           ExitsAreDirect => LeftLast(b, Flow(f).kind),
           NEW g, Alike(f, g, {"routed"}), g.routed = Append(f.routed, b)
    PROVE  Good(g) /\ Node(g) = Node(f) /\ Flow(g) = Flow(f)
<1>1. DOMAIN f = Fields
  BY DEF Good
<1>2. /\ DOMAIN g = Fields
      /\ g.block = f.block /\ g.entry = f.entry /\ g.layout = f.layout /\ g.front = f.front
      /\ g.need = f.need /\ g.queue = f.queue /\ g.swaps = f.swaps /\ g.goal = f.goal
      /\ g.phase = f.phase /\ g.plan = f.plan
  BY <1>1, AlikeIs
<1>3. Node(g) = Node(f)
  BY <1>2 DEF Node
<1>4. Flow(g) = Flow(f)
  BY <1>2, <1>3 DEF Flow
<1>5. Tracks(g)
  BY <1>2 DEF Good, Tracks
<1>6. Holds(g)
  <2>1. Source(g) = Source(f) /\ DoneIn(g) = DoneIn(f)
    BY <1>2 DEF Source, DoneIn
  <2>2. Holds(f)
    BY DEF Good
  <2> QED BY <1>2, <2>1, <2>2 DEF Holds
<1>7. Laid(g)
  <2>1. Nodes(g) = Nodes(f) /\ Laid(f)
    BY <1>2 DEF Good, Nodes
  <2> QED BY <1>2, <2>1 DEF Laid
<1>8. Stage(g)
  <2>1. Placement(g) = Placement(f) /\ Stage(f)
    BY <1>2, <1>3 DEF Good, Placement
  <2> QED BY <1>2, <1>3, <2>1 DEF Stage
<1>9. Made(g)
  BY <1>2 DEF Good, Made
<1>10. Bodies(g)
  <2> DEFINE r == f.routed
  <2>1. Sequence(r)
        /\ \A i \in 1..Len(r) : /\ Body(r[i], f.layout, Allowed(Flow(f).kind, Inside[f.block]))
                                /\ ExitsAreDirect => LeftLast(r[i], Flow(f).kind)
    BY DEF Good, Bodies
  <2> HIDE DEF r
  <2>2. Sequence(Append(r, b)) /\ Len(Append(r, b)) = Len(r) + 1 /\ Len(r) \in Nat
        /\ (\A i \in 1..Len(r) : Append(r, b)[i] = r[i]) /\ Append(r, b)[Len(r) + 1] = b
    BY <2>1, AppendedSequence, SequenceFacts
  <2>3. ASSUME NEW i \in 1..(Len(r) + 1)
        PROVE  /\ Body(Append(r, b)[i], f.layout, Allowed(Flow(f).kind, Inside[f.block]))
               /\ ExitsAreDirect => LeftLast(Append(r, b)[i], Flow(f).kind)
    <3>1. i \in 1..Len(r) \/ i = Len(r) + 1
      BY <2>2
    <3>2. CASE i = Len(r) + 1
      BY <2>2, <3>2
    <3>3. CASE i \in 1..Len(r)
      BY <2>1, <2>2, <3>3
    <3> QED BY <3>1, <3>2, <3>3
  <2>4. g.routed = Append(r, b)
    BY DEF r
  <2> QED BY <1>2, <1>3, <1>4, <2>2, <2>3, <2>4 DEF Bodies
<1> QED BY <1>2, <1>3, <1>4, <1>5, <1>6, <1>7, <1>8, <1>9, <1>10 DEF Good

(* When a block is routed its plan holds every operation, and no SWAP is   *)
(* in hand.                                                                *)
LEMMA RoutedHolds ==
    ASSUME NEW f, Good(f), Routed(f)
    PROVE  /\ Covers(Program[f.block], f.plan, 1..Len(Program[f.block]), Order(Dags[f.block], Program[f.block]))
           /\ Ends(f.plan) /\ f.swaps = <<>> /\ f.block \in DOMAIN Program
<1>1. f.queue = <<>> /\ DOMAIN f.front = {} /\ f.phase = "visit" /\ f.block \in DOMAIN Program
  BY DEF Good, Routed
<1>2. f.swaps = <<>>
  BY <1>1 DEF Good, Stage
<1>3. IsGraph(Dags[f.block], Program[f.block], Len(Program[f.block]))
  BY <1>1, DagsAreGraphs
<1>4. Layered(Dags[f.block])
  BY <1>3, GraphParts
<1>5. Progress(Dags[f.block], f.need, <<>>, {})
  BY <1>1 DEF Good, Tracks
<1>6. DoneIn(f) = 1..Len(Dags[f.block].nodes)
  BY <1>1, <1>4, <1>5, AllFinished DEF DoneIn
<1>7. Emitted(Dags[f.block], DoneIn(f)) = 1..Len(Program[f.block])
  BY <1>3, <1>6, AllEmitted
<1> QED BY <1>1, <1>2, <1>7 DEF Good, Holds, Source

(* The plan of a routed body holds a transfer at its end alone. *)
LEMMA TransfersEnd ==
    ASSUME NEW f, Good(f), Routed(f), ExitsAreDirect,
           NEW b \in DOMAIN Program, NEW i \in 1..Len(Program[b]), f.block \in Range(Program[b][i].bodies)
    PROVE  LeftLast(f.plan, Program[b][i].kind)
<1> DEFINE c == f.block
           p == f.plan
           R == Order(Dags[c], Program[c])
           z == Len(Program[c])
<1>1. Covers(Program[c], p, 1..z, R) /\ Ends(p) /\ c \in DOMAIN Program
  BY RoutedHolds
<1>2. c \in Range(Program[b][i].bodies) /\ i \in DOMAIN Program[b]
  BY OperationsAre
<1> HIDE DEF c, p
<1>3. Sequence(p) /\ Len(p) \in Nat
  BY <1>1, SequenceFacts DEF Covers
<1>4. ASSUME NEW k \in 1..Len(p), p[k].kind \in Transfers
      PROVE  k = Len(p) /\ p[k].kind \in Allowed(Program[b][i].kind, {})
  <2>1. k \in Real(p)
    BY <1>4 DEF Real, Transfers
  <2>2. p[k].source \in 1..z /\ p[k].kind = Program[c][p[k].source].kind
    BY <1>1, <2>1 DEF Covers
  <2>3. p[k].source = z /\ z # 0 /\ Program[c][z].kind \in Transfers /\ z \in DOMAIN Program[c]
    BY <1>1, <1>4, <2>2, OperationsAre
  <2>4. p[k].kind \in Allowed(Program[b][i].kind, {})
    BY <1>2, <2>2, <2>3 DEF ExitsAreDirect
  <2>5. \A j \in 1..z : j # z => <<j, z>> \in R
    BY <1>2, <2>3, TransferLast
  <2>6. ASSUME k # Len(p) PROVE FALSE
    <3> DEFINE m == Len(p)
    <3>1. m \in Real(p) /\ k < m
      BY <1>1, <1>3, <2>6 DEF Ends, Real
    <3> HIDE DEF m, R
    <3>2. p[m].source \in 1..z /\ (p[m].source = p[k].source => m = k)
      BY <1>1, <2>1, <3>1 DEF Covers
    <3>3. p[m].source # z
      BY <1>3, <2>3, <3>1, <3>2
    <3>4. <<p[m].source, p[k].source>> \in R
      BY <2>3, <2>5, <3>2, <3>3
    <3>5. m < k
      BY <1>1, <2>1, <3>1, <3>4 DEF Covers
    <3> QED BY <1>3, <3>1, <3>5 DEF m
  <2> QED BY <2>4, <2>6
<1> QED BY <1>4 DEF LeftLast, p

(* The SWAPs that restore a layout. *)
LEMMA RestorationsAre ==
    ASSUME NEW f, NEW s \in Restorations(f)
    PROVE  s \in Seq(Edges) /\ Behind(f.layout, s, f.entry)
<1> DEFINE of(n) == {x \in [1..n -> Edges] : Moved(f.layout, x) = f.entry}
           bound == Cardinality(Physical) * Cardinality(Physical)
           least == CHOOSE n \in 0..bound : of(n) # {} /\ \A m \in 0..(n - 1) : of(m) = {}
<1>1. s \in of(least) /\ least \in 0..bound
  BY DEF Restorations
<1>2. least \in Nat
  BY <1>1
<1>3. s \in [1..least -> Edges] /\ Moved(f.layout, s) = f.entry
  BY <1>1
<1> HIDE DEF least
<1>4. s \in Seq(Edges) /\ Len(s) \in Nat
  BY <1>2, <1>3
<1> QED BY <1>3, <1>4, MovedBehind

(* A routed body, closed, leads back to the layout it was entered with. *)
LEMMA ClosedLeads ==
    ASSUME NEW f, Good(f), Routed(f), NEW s \in Restorations(f)
    PROVE  Leads(Closed(f, s), f.entry, f.entry, Inside[f.block])
<1> DEFINE p == f.plan
           c == Inside[f.block]
           E == [i \in 1..Len(s) |-> Swap(s[i])]
           n == Len(p)
           M == f.layout
<1>1. f.swaps = <<>> /\ Sequence(p)
  BY RoutedHolds DEF Covers
<1>2. Leads(p, f.entry, M, c)
  <2>1. PICK L : Leads(p, f.entry, L, c) /\ Behind(L, <<>>, M)
    BY <1>1 DEF Good, Made
  <2>2. L = M
    BY <2>1, BehindNothing
  <2> QED BY <2>1, <2>2
<1>3. Placed(M) /\ Placed(f.entry)
  BY <1>2 DEF Leads
<1>4. s \in Seq(Edges) /\ Behind(M, s, f.entry)
  BY RestorationsAre
<1> HIDE DEF p, c, M
<1>5. Leads(E, M, f.entry, c)
  BY <1>3, <1>4, LeadsSwaps
<1>6. Closed(f, s) = IF n > 0 /\ p[n].kind \in Transfers
                     THEN SubSeq(p, 1, n - 1) \o E \o <<p[n]>> ELSE p \o E
  BY DEF Closed, p
<1> HIDE DEF E
<1>7. CASE n > 0 /\ p[n].kind \in Transfers
  <2>1. p[n].kind # "swap" /\ p[n].kind \notin Control
    BY <1>7 DEF Transfers, Control
  <2>2. Leads(SubSeq(p, 1, n - 1), f.entry, M, c) /\ Right(p[n], M, c)
    BY <1>2, <1>7, <2>1, LeadsShorter
  <2>3. p[n].wires = <<>>
    <3>1. Covers(Program[f.block], p, 1..Len(Program[f.block]), Order(Dags[f.block], Program[f.block]))
          /\ f.block \in DOMAIN Program
      BY RoutedHolds DEF p
    <3>2. n \in Real(p)
      BY <1>1, <1>7, <2>1, SequenceFacts DEF Real
    <3> DEFINE a == p[n].source
    <3>3. a \in 1..Len(Program[f.block]) /\ p[n].kind = Program[f.block][a].kind
          /\ p[n].wires = Program[f.block][a].wires
      BY <3>1, <3>2 DEF Covers
    <3> HIDE DEF a
    <3> QED BY <1>7, <3>1, <3>3, OperationsAre
  <2>4. Right(p[n], f.entry, c)
    <3> DEFINE op == p[n]
    <3>1. op.wires = <<>> /\ op.kind \notin Control /\ Fits(op, M, c)
      BY <2>1, <2>2, <2>3 DEF Right
    <3> HIDE DEF op
    <3>2. Fits(op, f.entry, c)
      BY <3>1, EmptySequence DEF Fits
    <3>3. Right(op, f.entry, c)
      BY <3>1, <3>2 DEF Right
    <3> QED BY <3>3 DEF op
  <2>5. Leads(<<p[n]>>, f.entry, f.entry, c)
    BY <1>3, <2>1, <2>4, LeadsOne
  <2>6. Leads(SubSeq(p, 1, n - 1) \o E, f.entry, f.entry, c)
    BY <1>5, <2>2, LeadsFurther
  <2>7. Leads((SubSeq(p, 1, n - 1) \o E) \o <<p[n]>>, f.entry, f.entry, c)
    BY <2>5, <2>6, LeadsFurther
  <2> QED BY <1>6, <1>7, <2>7 DEF c
<1>8. CASE ~ (n > 0 /\ p[n].kind \in Transfers)
  <2>1. Leads(p \o E, f.entry, f.entry, c)
    BY <1>2, <1>5, LeadsFurther
  <2> QED BY <1>6, <1>8, <2>1 DEF c
<1> QED BY <1>7, <1>8

(* Closing it leaves a final transfer the last. *)
LEMMA ClosedLast ==
    ASSUME NEW f, Good(f), Routed(f), NEW s \in Restorations(f), NEW kind, LeftLast(f.plan, kind)
    PROVE  LeftLast(Closed(f, s), kind)
<1> DEFINE p == f.plan
           E == [i \in 1..Len(s) |-> Swap(s[i])]
           n == Len(p)
           q == Closed(f, s)
<1>1. Sequence(p) /\ n \in Nat
  BY RoutedHolds, SequenceFacts DEF Covers
<1>2. s \in Seq(Edges)
  BY RestorationsAre
<1>3. Sequence(E) /\ Len(E) = Len(s) /\ Len(E) \in Nat /\ \A i \in 1..Len(E) : E[i].kind = "swap"
  <2>1. Len(s) \in Nat /\ DOMAIN E = 1..Len(s) /\ E = [i \in DOMAIN E |-> E[i]]
    BY <1>2
  <2>2. \A i \in 1..Len(s) : E[i].kind = "swap"
    BY DEF Swap
  <2> HIDE DEF E
  <2> QED BY <2>1, <2>2, SequenceIntro
<1>4. q = IF n > 0 /\ p[n].kind \in Transfers
          THEN SubSeq(p, 1, n - 1) \o E \o <<p[n]>> ELSE p \o E
  BY DEF Closed
<1>5. \A k \in 1..n : p[k].kind \in Transfers => k = n /\ p[k].kind \in Allowed(kind, {})
  BY DEF LeftLast
<1>12. "swap" \notin Transfers
  BY DEF Transfers
<1> HIDE DEF p, E, q
<1>6. ASSUME n > 0, p[n].kind \in Transfers PROVE LeftLast(q, kind)
  <2> DEFINE h == SubSeq(p, 1, n - 1)
             x == p[n]
  <2>1. Sequence(h) /\ Len(h) = n - 1 /\ \A k \in 1..(n - 1) : h[k] = p[k]
    <3> DEFINE S == Range(p)
    <3>1. p \in Seq(S) /\ n = Len(p) /\ n \in Nat \ {0}
      BY <1>1, <1>6 DEF Sequence
    <3> HIDE DEF S, n
    <3>2. h \in Seq(S) /\ Len(h) = n - 1 /\ \A k \in 1..(n - 1) : h[k] = p[k]
      BY <3>1
    <3> HIDE DEF h
    <3> QED BY <3>2, SequenceOf
  <2>2. q = (h \o E) \o <<x>>
    BY <1>4, <1>6
  <2> HIDE DEF h, x
  <2>3. /\ Sequence(h \o E) /\ Len(h \o E) = n - 1 + Len(E)
        /\ \A k \in 1..Len(h \o E) :
              \/ k \in 1..Len(h) /\ (h \o E)[k] = h[k]
              \/ k - Len(h) \in 1..Len(E) /\ (h \o E)[k] = E[k - Len(h)]
    <3>1. Sequence(h) /\ Sequence(E)
      BY <1>3, <2>1
    <3>2. /\ Sequence(h \o E) /\ Len(h \o E) = Len(h) + Len(E)
          /\ \A k \in 1..Len(h) : (h \o E)[k] = h[k]
          /\ \A k \in 1..Len(h \o E) :
                \/ k \in 1..Len(h)
                \/ k - Len(h) \in 1..Len(E) /\ (h \o E)[k] = E[k - Len(h)]
      BY <3>1, JoinedSequence
    <3> QED BY <2>1, <3>2
  <2>4. q = Append(h \o E, x)
    <3> DEFINE r == h \o E
    <3>1. Sequence(r)
      BY <2>3
    <3> HIDE DEF r
    <3> DEFINE S == Range(r)
    <3>2. r \in Seq(S)
      BY <3>1 DEF Sequence
    <3> HIDE DEF S
    <3>3. r \o <<x>> = Append(r, x)
      BY <3>2
    <3> QED BY <2>2, <3>3 DEF r
  <2>5. Len(q) = n + Len(E) /\ q[n + Len(E)] = x
        /\ \A k \in 1..(n - 1 + Len(E)) : q[k] = (h \o E)[k]
    BY <1>1, <1>3, <2>3, <2>4, AppendedSequence
  <2>6. ASSUME NEW k \in 1..Len(q), q[k].kind \in Transfers
        PROVE  k = Len(q) /\ q[k].kind \in Allowed(kind, {})
    <3>1. CASE k = n + Len(E)
      BY <1>1, <1>5, <1>6, <2>5, <3>1 DEF x
    <3>2. ASSUME k # n + Len(E) PROVE FALSE
      <4>1. k \in 1..Len(h \o E) /\ q[k] = (h \o E)[k]
        BY <1>1, <1>3, <2>3, <2>5, <3>2
      <4>2. ASSUME k \in 1..Len(h), (h \o E)[k] = h[k] PROVE FALSE
        <5>1. k \in 1..n /\ k # n /\ q[k] = p[k]
          BY <1>1, <2>1, <4>1, <4>2
        <5> QED BY <1>5, <2>6, <5>1
      <4>3. ASSUME k - Len(h) \in 1..Len(E), (h \o E)[k] = E[k - Len(h)] PROVE FALSE
        BY <1>3, <1>12, <2>6, <4>1, <4>3
      <4> QED BY <2>3, <4>1, <4>2, <4>3
    <3> QED BY <3>1, <3>2
  <2> QED BY <2>6 DEF LeftLast
<1>7. ASSUME ~ (n > 0 /\ p[n].kind \in Transfers) PROVE LeftLast(q, kind)
  <2>1. q = p \o E
    BY <1>4, <1>7
  <2>2. \A k \in 1..n : p[k].kind \notin Transfers
    BY <1>1, <1>5, <1>7
  <2>3. \A k \in 1..Len(q) :
              \/ k \in 1..Len(p) /\ q[k] = p[k]
              \/ k - Len(p) \in 1..Len(E) /\ q[k] = E[k - Len(p)]
    BY <1>1, <1>3, <2>1, JoinedSequence
  <2>4. ASSUME NEW k \in 1..Len(q) PROVE q[k].kind \notin Transfers
    BY <1>3, <1>12, <2>2, <2>3
  <2> QED BY <2>4 DEF LeftLast
<1>8. LeftLast(q, kind)
  BY <1>6, <1>7
<1> QED BY <1>8 DEF q

-----------------------------------------------------------------------------
(* The frames of a trial *)

(* What replacing an element leaves. *)
LEMMA ReplacedSequence ==
    ASSUME NEW s, Sequence(s), NEW n \in 1..Len(s), NEW x
    PROVE  /\ Sequence([s EXCEPT ![n] = x]) /\ Len([s EXCEPT ![n] = x]) = Len(s)
           /\ [s EXCEPT ![n] = x][n] = x
           /\ \A i \in 1..Len(s) : i # n => [s EXCEPT ![n] = x][i] = s[i]
<1> DEFINE t == [s EXCEPT ![n] = x]
<1>1. Len(s) \in Nat /\ DOMAIN s = 1..Len(s)
  BY SequenceFacts
<1>2. DOMAIN t = 1..Len(s) /\ t[n] = x /\ (\A i \in 1..Len(s) : i # n => t[i] = s[i])
      /\ t = [i \in DOMAIN t |-> t[i]]
  BY <1>1
<1> HIDE DEF t
<1>3. Sequence(t) /\ Len(t) = Len(s)
  BY <1>1, <1>2, SequenceIntro
<1> QED BY <1>2, <1>3 DEF t

(* The front of a sequence. *)
LEMMA ShorterSequence ==
    ASSUME NEW s, Sequence(s), NEW n \in 0..Len(s), NEW t, t = [i \in 1..n |-> s[i]]
    PROVE  Sequence(t) /\ Len(t) = n /\ \A i \in 1..n : t[i] = s[i]
<1>1. n \in Nat /\ DOMAIN t = 1..n /\ t = [i \in DOMAIN t |-> t[i]] /\ \A i \in 1..n : t[i] = s[i]
  BY SequenceFacts
<1> QED BY <1>1, SequenceIntro

(* g routes a body of the control flow at which f stands. *)
Awaits(f, g) ==
    /\ f.phase = "visit" /\ f.queue # <<>> /\ Node(f).class = "ControlFlow"
    /\ g.entry = f.layout /\ g.block \in Range(Flow(f).bodies)

Stacked(st) ==
    /\ Sequence(st)
    /\ \A n \in 1..Len(st) : Good(st[n])
    /\ Len(st) > 0 => st[1].block = Main
    /\ \A n \in 2..Len(st) : Awaits(st[n - 1], st[n])

(* The frame on top is good, and the stack is not empty. *)
LEMMA TopGood ==
    ASSUME NEW st, Stacked(st), st # <<>>
    PROVE  /\ Len(st) \in Nat \ {0} /\ Len(st) \in 1..Len(st) /\ Good(st[Len(st)])
           /\ Sequence(st)
<1>1. Sequence(st) /\ Len(st) \in Nat
  BY SequenceFacts DEF Stacked
<1>2. Len(st) # 0
  <2> DEFINE S == Range(st)
  <2>1. st \in Seq(S)
    BY <1>1 DEF Sequence
  <2> HIDE DEF S
  <2> QED BY <2>1
<1> QED BY <1>1, <1>2 DEF Stacked

(* The frame on top takes a step. *)
LEMMA StackedTop ==
    ASSUME NEW st, Stacked(st), st # <<>>, NEW g, Good(g),
           g.block = st[Len(st)].block, g.entry = st[Len(st)].entry
    PROVE  /\ Stacked([st EXCEPT ![Len(st)] = g]) /\ [st EXCEPT ![Len(st)] = g] # <<>>
           /\ Len([st EXCEPT ![Len(st)] = g]) = Len(st)
           /\ [st EXCEPT ![Len(st)] = g][Len(st)] = g
<1> DEFINE n == Len(st)
           t == [st EXCEPT ![n] = g]
<1>1. n \in Nat \ {0} /\ n \in 1..Len(st) /\ Sequence(st)
  BY TopGood
<1>2. /\ Sequence(t) /\ Len(t) = n /\ t[n] = g
      /\ \A i \in 1..n : i # n => t[i] = st[i]
  BY <1>1, ReplacedSequence
<1> HIDE DEF t
<1>3. \A i \in 1..n : Good(t[i])
  BY <1>1, <1>2 DEF Stacked
<1>4. t[1].block = Main
  BY <1>1, <1>2 DEF Stacked
<1>5. ASSUME NEW i \in 2..n PROVE Awaits(t[i - 1], t[i])
  <2>1. Awaits(st[i - 1], st[i])
    BY DEF Stacked
  <2>2. t[i - 1] = st[i - 1] /\ t[i].entry = st[i].entry /\ t[i].block = st[i].block
    BY <1>1, <1>2
  <2> QED BY <2>1, <2>2 DEF Awaits
<1>6. t # <<>>
  BY <1>1, <1>2, EmptySequence
<1>7. Stacked(t)
  BY <1>2, <1>3, <1>4, <1>5 DEF Stacked
<1> QED BY <1>2, <1>6, <1>7 DEF t

(* A body is entered. *)
LEMMA StackedPush ==
    ASSUME NEW st, Stacked(st), st # <<>>, NEW g, Good(g), Awaits(st[Len(st)], g)
    PROVE  Stacked(Append(st, g))
<1> DEFINE n == Len(st)
           t == Append(st, g)
<1>1. n \in Nat \ {0} /\ n \in 1..Len(st) /\ Sequence(st)
  BY TopGood
<1>2. Sequence(t) /\ Len(t) = n + 1 /\ t[n + 1] = g /\ \A i \in 1..n : t[i] = st[i]
  BY <1>1, AppendedSequence
<1> HIDE DEF t
<1>3. \A i \in 1..(n + 1) : Good(t[i])
  <2> TAKE i \in 1..(n + 1)
  <2>1. i \in 1..n \/ i = n + 1
    BY <1>1
  <2> QED BY <1>2, <2>1 DEF Stacked
<1>4. t[1].block = Main
  BY <1>1, <1>2 DEF Stacked
<1>5. ASSUME NEW i \in 2..(n + 1) PROVE Awaits(t[i - 1], t[i])
  <2>1. CASE i = n + 1
    BY <1>1, <1>2, <2>1
  <2>2. CASE i # n + 1
    <3>1. i \in 2..n
      BY <1>1, <2>2
    <3>2. Awaits(st[i - 1], st[i])
      BY <3>1 DEF Stacked
    <3>3. t[i - 1] = st[i - 1] /\ t[i] = st[i]
      BY <1>1, <1>2, <3>1
    <3> QED BY <3>2, <3>3
  <2> QED BY <2>1, <2>2
<1>6. Stacked(t)
  BY <1>2, <1>3, <1>4, <1>5 DEF Stacked
<1> QED BY <1>6 DEF t

(* The frame on top is left. *)
LEMMA StackedPop ==
    ASSUME NEW st, Stacked(st), Len(st) > 1
    PROVE  /\ Stacked([n \in 1..(Len(st) - 1) |-> st[n]]) /\ [n \in 1..(Len(st) - 1) |-> st[n]] # <<>>
           /\ Len([n \in 1..(Len(st) - 1) |-> st[n]]) = Len(st) - 1
           /\ [n \in 1..(Len(st) - 1) |-> st[n]][Len(st) - 1] = st[Len(st) - 1]
           /\ Len(st) - 1 \in 1..Len(st)
<1> DEFINE m == Len(st) - 1
           t == [n \in 1..m |-> st[n]]
<1>1. Sequence(st) /\ Len(st) \in Nat
  BY SequenceFacts DEF Stacked
<1>2. m \in Nat \ {0} /\ m \in 0..Len(st) /\ m + 1 = Len(st)
  <2> DEFINE n == Len(st)
  <2>1. n \in Nat /\ n > 1
    BY <1>1
  <2> HIDE DEF n
  <2>2. n - 1 \in Nat \ {0} /\ n - 1 \in 0..n /\ (n - 1) + 1 = n
    BY <2>1
  <2> QED BY <2>2 DEF n
<1> HIDE DEF m
<1>3. Sequence(t) /\ Len(t) = m /\ \A i \in 1..m : t[i] = st[i]
  BY <1>1, <1>2, ShorterSequence
<1> HIDE DEF t
<1>4. \A i \in 1..m : i \in 1..Len(st)
  BY <1>2
<1>5. \A i \in 1..m : Good(t[i])
  BY <1>3, <1>4 DEF Stacked
<1>6. t[1].block = Main
  BY <1>2, <1>3 DEF Stacked
<1>7. ASSUME NEW i \in 2..m PROVE Awaits(t[i - 1], t[i])
  <2>1. Awaits(st[i - 1], st[i])
    BY <1>2 DEF Stacked
  <2>2. t[i - 1] = st[i - 1] /\ t[i] = st[i]
    BY <1>2, <1>3
  <2> QED BY <2>1, <2>2
<1>8. Stacked(t) /\ t # <<>> /\ t[m] = st[m] /\ m \in 1..Len(st)
  BY <1>2, <1>3, <1>4, <1>5, <1>6, <1>7, EmptySequence DEF Stacked
<1> QED BY <1>3, <1>8 DEF t, m

-----------------------------------------------------------------------------
(* The steps of a trial *)

(* The first frame is good. *)
LEMMA StackStarts ==
    ASSUME NEW L \in Layouts
    PROVE  Stacked(<<Frame(Main, L)>>) /\ Placed(L)
<1>1. Placed(L)
  BY LayoutsPlaceAll DEF Placed
<1>2. Main \in DOMAIN Program
  BY ProgramIsValid
<1> DEFINE f == Frame(Main, L)
           t == <<f>>
<1>3. Good(f) /\ f.block = Main
  BY <1>1, <1>2, FrameGood
<1> HIDE DEF f
<1>4. Sequence(t) /\ Len(t) = 1 /\ t[1] = f
  <2>1. t \in Seq({f}) /\ Len(t) = 1 /\ t[1] = f
    OBVIOUS
  <2> HIDE DEF t
  <2> QED BY <2>1, SequenceOf
<1> HIDE DEF t
<1>5. Stacked(t)
  BY <1>3, <1>4 DEF Stacked
<1> QED BY <1>1, <1>5 DEF t, f

(* A step of the frame on top. *)
LEMMA ContinueKeeps ==
    ASSUME Stacked(stack), stack # <<>>, NEW g, Good(g), g.block = Top.block, g.entry = Top.entry, Continue(g)
    PROVE  Stacked(stack')
BY StackedTop DEF Continue, Top

(* A pair that is not adjacent joins the front layer. *)
LEMMA WaitKeeps == ASSUME Stacked(stack), Wait PROVE Stacked(stack')
<1> DEFINE f == Top
           g == [Top EXCEPT
                    !.queue = Tail(@),
                    !.front = [n \in DOMAIN Top.front \cup {Head(Top.queue)} |->
                                  IF n = Head(Top.queue) THEN Placement(Top) ELSE Top.front[n]]]
<1>1. /\ stack # <<>> /\ f.phase = "visit" /\ f.queue # <<>> /\ Node(f).class = "TwoQ"
      /\ ~ Adjacent(Placement(f)) /\ Continue(g)
  BY DEF Wait, Routing
<1>2. Good(f)
  BY <1>1, TopGood DEF Top
<1>3. DOMAIN f = Fields
  BY <1>2 DEF Good
<1> HIDE DEF f
<1>4. /\ Alike(f, g, {"queue", "front"}) /\ g.queue = Tail(f.queue)
      /\ g.front = [n \in DOMAIN f.front \cup {Head(f.queue)} |->
                       IF n = Head(f.queue) THEN Placement(f) ELSE f.front[n]]
      /\ g.block = f.block /\ g.entry = f.entry
  BY <1>3 DEF Alike, Fields, f
<1> HIDE DEF g
<1>5. Good(g)
  BY <1>1, <1>2, <1>4, WaitGood
<1> QED BY <1>1, <1>4, <1>5, ContinueKeeps DEF f

(* A node that can be executed is emitted. *)
LEMMA EmitKeeps == ASSUME Stacked(stack), Emit PROVE Stacked(stack')
<1> DEFINE f == Top
           k == [Flushed(f) EXCEPT
                    !.plan = @ \o [j \in 1..Len(Node(f).ops) |-> Mapped(Flushed(f), Node(f).ops[j])]]
           g == Released(k)
<1>1. /\ stack # <<>> /\ f.phase = "visit" /\ f.queue # <<>> /\ Node(f).class # "ControlFlow"
      /\ Node(f).class = "TwoQ" => Adjacent(Placement(f))
      /\ Continue(g)
  BY DEF Emit, Routing
<1>2. Good(f)
  BY <1>1, TopGood DEF Top
<1>3. DOMAIN f = Fields
  BY <1>2 DEF Good
<1>4. Good(g)
  BY <1>1, <1>2, EmitGood
<1> HIDE DEF f
<1>5. DOMAIN k = Fields /\ k.block = f.block /\ k.entry = f.entry
  BY <1>3 DEF Fields, Flushed
<1> HIDE DEF k
<1>6. g.block = f.block /\ g.entry = f.entry
  BY <1>5, ReleasedIs DEF Alike, Fields
<1> HIDE DEF g
<1> QED BY <1>1, <1>4, <1>6, ContinueKeeps DEF f

(* Control flow with all bodies routed is emitted. *)
LEMMA CloseFlowKeeps == ASSUME Stacked(stack), CloseFlow PROVE Stacked(stack')
<1> DEFINE f == Top
           k == [f EXCEPT !.plan = Append(@, Closing(f)), !.routed = <<>>]
           g == Released(k)
<1>1. /\ stack # <<>> /\ f.phase = "visit" /\ f.queue # <<>> /\ Node(f).class = "ControlFlow"
      /\ Continue(g)
  BY DEF CloseFlow, Routing, Closing
<1>2. Good(f)
  BY <1>1, TopGood DEF Top
<1>3. DOMAIN f = Fields
  BY <1>2 DEF Good
<1>4. Good(g)
  BY <1>1, <1>2, CloseGood
<1> HIDE DEF f
<1>5. DOMAIN k = Fields /\ k.block = f.block /\ k.entry = f.entry
  BY <1>3 DEF Fields
<1> HIDE DEF k
<1>6. g.block = f.block /\ g.entry = f.entry
  BY <1>5, ReleasedIs DEF Alike, Fields
<1> HIDE DEF g
<1> QED BY <1>1, <1>4, <1>6, ContinueKeeps DEF f

(* With nothing to execute, a search begins. *)
LEMMA SeekKeeps == ASSUME Stacked(stack), Seek PROVE Stacked(stack')
<1> DEFINE f == Top
           g == [f EXCEPT !.phase = "search", !.swaps = <<>>,
                          !.tried = {f.layout}, !.repeated = FALSE]
<1>1. stack # <<>> /\ f.phase = "visit" /\ f.queue = <<>> /\ Continue(g)
  BY DEF Seek, Routing
<1>2. Good(f)
  BY <1>1, TopGood DEF Top
<1>3. DOMAIN f = Fields
  BY <1>2 DEF Good
<1>4. Good(g)
  BY <1>1, <1>2, SeekGood
<1> HIDE DEF f
<1>5. g.block = f.block /\ g.entry = f.entry
  BY <1>3 DEF Fields
<1> HIDE DEF g
<1> QED BY <1>1, <1>4, <1>5, ContinueKeeps DEF f

(* What enables pairs queues them. *)
LEMMA EnabledKeeps ==
    ASSUME Stacked(stack), stack # <<>>, NEW k, DOMAIN k = Fields, k.block = Top.block, k.entry = Top.entry,
           NEW S, Enabled(k, S),
           \A order \in SetToSeqs(S) :
               Good([k EXCEPT !.phase = "visit", !.queue = order, !.front = Without(@, S),
                              !.goal = 0, !.tried = {}, !.repeated = FALSE])
    PROVE  Stacked(stack')
<1> DEFINE g(order) == [k EXCEPT !.phase = "visit", !.queue = order, !.front = Without(@, S),
                                 !.goal = 0, !.tried = {}, !.repeated = FALSE]
<1>1. PICK order \in SetToSeqs(S) : Continue(g(order))
  BY DEF Enabled
<1> DEFINE h == g(order)
<1>2. Good(h) /\ Continue(h)
  BY <1>1
<1>3. h.block = k.block /\ h.entry = k.entry
  BY DEF Fields
<1> HIDE DEF h
<1> QED BY <1>2, <1>3, ContinueKeeps

(* A SWAP is tried. *)
LEMMA TrySwapKeeps == ASSUME Stacked(stack), TrySwap PROVE Stacked(stack')
<1> DEFINE f == Top
<1>1. PICK e \in Candidates(f) :
        LET k == [ApplySwap(f, e) EXCEPT !.swaps = Append(@, e)]
            routable == {n \in Executable(k) : Range(k.front[n]) \cap e # {}}
        IN  IF routable # {} THEN Enabled(k, routable)
            ELSE \E collision \in BOOLEAN :
                    Continue([k EXCEPT !.tried = @ \cup {k.layout},
                                       !.repeated = collision \/ k.layout \in k.tried])
  BY DEF TrySwap
<1>2. stack # <<>> /\ f.phase = "search" /\ Len(f.swaps) < AttemptLimit
  BY DEF TrySwap, Routing
<1>3. Good(f)
  BY <1>2, TopGood DEF Top
<1>4. e \in Edges
  BY DEF Candidates
<1> DEFINE k == [ApplySwap(f, e) EXCEPT !.swaps = Append(@, e)]
           S == {n \in Executable(k) : Range(k.front[n]) \cap e # {}}
           h(collision) == [k EXCEPT !.tried = @ \cup {k.layout},
                                     !.repeated = collision \/ k.layout \in k.tried]
<1>5. IF S # {} THEN Enabled(k, S) ELSE \E collision \in BOOLEAN : Continue(h(collision))
  BY <1>1
<1>6. /\ \A collision \in BOOLEAN : Good(h(collision))
      /\ \A X : X \subseteq Executable(k) /\ X # {} =>
             \A order \in SetToSeqs(X) :
                 Good([k EXCEPT !.phase = "visit", !.queue = order, !.front = Without(@, X),
                                !.goal = 0, !.tried = {}, !.repeated = FALSE])
  BY <1>2, <1>3, <1>4, TryGood
<1>7. Swept(f, k)
  BY <1>3, <1>4, OneSwept
<1>8. S \subseteq Executable(k)
  OBVIOUS
<1>9. DOMAIN f = Fields
  BY <1>3 DEF Good
<1> HIDE DEF S, k
<1>10. DOMAIN k = Fields /\ k.block = f.block /\ k.entry = f.entry
  BY <1>7, <1>9 DEF Swept, Alike, Fields
<1>11. ASSUME S # {} PROVE Stacked(stack')
  <2>1. \A order \in SetToSeqs(S) :
             Good([k EXCEPT !.phase = "visit", !.queue = order, !.front = Without(@, S),
                            !.goal = 0, !.tried = {}, !.repeated = FALSE])
    BY <1>6, <1>8, <1>11
  <2>2. Enabled(k, S)
    BY <1>5, <1>11
  <2> QED BY <1>2, <1>10, <2>1, <2>2, EnabledKeeps
<1>12. ASSUME S = {} PROVE Stacked(stack')
  <2>1. PICK collision \in BOOLEAN : Continue(h(collision))
    BY <1>5, <1>12
  <2> DEFINE g == h(collision)
  <2>2. Good(g) /\ Continue(g)
    BY <1>6, <2>1
  <2>3. g.block = f.block /\ g.entry = f.entry
    BY <1>10 DEF Fields
  <2> HIDE DEF g, h
  <2> QED BY <1>2, <2>2, <2>3, ContinueKeeps
<1> QED BY <1>11, <1>12

(* The search is rolled back. *)
LEMMA GiveUpKeeps == ASSUME Stacked(stack), GiveUp PROVE Stacked(stack')
<1> DEFINE f == Top
           u == Undone(f)
           g(n) == [u EXCEPT !.phase = "force", !.goal = n, !.swaps = <<>>,
                             !.tried = {}, !.repeated = FALSE]
<1>1. PICK n \in DOMAIN u.front : Continue(g(n))
  BY DEF GiveUp
<1>2. stack # <<>> /\ f.phase = "search"
  BY DEF GiveUp, Routing
<1>3. Good(f)
  BY <1>2, TopGood DEF Top
<1>4. Good(g(n))
  BY <1>1, <1>2, <1>3, GiveUpGood
<1>5. DOMAIN f = Fields
  BY <1>3 DEF Good
<1> DEFINE k == [u EXCEPT !.swaps = <<>>]
<1>6. Swept(f, k)
  BY <1>3, AllUndone
<1> HIDE DEF u
<1>7. DOMAIN k = DOMAIN u
  OBVIOUS
<1> HIDE DEF k
<1>8. DOMAIN k = Fields /\ k.block = f.block /\ k.entry = f.entry
  BY <1>5, <1>6 DEF Swept, Alike, Fields
<1>9. DOMAIN u = Fields /\ u.block = f.block /\ u.entry = f.entry
  BY <1>7, <1>8 DEF k, Fields
<1> DEFINE h == g(n)
<1>10. h.block = f.block /\ h.entry = f.entry
  BY <1>9 DEF Fields
<1>11. Good(h) /\ Continue(h)
  BY <1>1, <1>4
<1> HIDE DEF h
<1> QED BY <1>2, <1>10, <1>11, ContinueKeeps

(* A SWAP brings the pair closer. *)
LEMMA ForceSwapKeeps == ASSUME Stacked(stack), ForceSwap PROVE Stacked(stack')
<1> DEFINE f == Top
           k(e) == [ApplySwap(f, e) EXCEPT !.swaps = Append(@, e)]
<1>1. PICK e \in Edges :
        /\ Distance(<<Exchange(f.front[f.goal][1], e), Exchange(f.front[f.goal][2], e)>>) =
               Distance(f.front[f.goal]) - 1
        /\ Continue(k(e))
  BY DEF ForceSwap
<1>2. stack # <<>> /\ f.phase = "force"
  BY DEF ForceSwap, Routing
<1>3. Good(f)
  BY <1>2, TopGood DEF Top
<1>4. DOMAIN f = Fields
  BY <1>3 DEF Good
<1> DEFINE g == k(e)
<1>5. Good(g) /\ Continue(g)
  BY <1>1, <1>2, <1>3, ForceGood
<1>6. Swept(f, g)
  BY <1>3, OneSwept
<1> HIDE DEF g
<1>7. g.block = f.block /\ g.entry = f.entry
  BY <1>4, <1>6 DEF Swept, Alike, Fields
<1> QED BY <1>2, <1>5, <1>7, ContinueKeeps

(* The pair is adjacent. *)
LEMMA ForcedKeeps == ASSUME Stacked(stack), Forced PROVE Stacked(stack')
<1> DEFINE f == Top
           S == Executable(f)
<1>1. stack # <<>> /\ f.phase = "force" /\ Distance(f.front[f.goal]) = 0 /\ Enabled(f, S)
  BY DEF Forced, Routing
<1>2. Good(f)
  BY <1>1, TopGood DEF Top
<1>3. DOMAIN f = Fields
  BY <1>2 DEF Good
<1>4. \A order \in SetToSeqs(S) :
           Good([f EXCEPT !.phase = "visit", !.queue = order, !.front = Without(@, S),
                          !.goal = 0, !.tried = {}, !.repeated = FALSE])
  BY <1>1, <1>2, ForcedGood
<1> HIDE DEF S
<1> QED BY <1>1, <1>3, <1>4, EnabledKeeps

(* A frame is added for a body. *)
LEMMA EnterBodyKeeps == ASSUME Stacked(stack), EnterBody PROVE Stacked(stack')
<1> DEFINE f == Top
           h == Flushed(f)
           c == Flow(f).bodies[Len(f.routed) + 1]
           g == Frame(c, f.layout)
           st == [stack EXCEPT ![Len(stack)] = h]
<1>1. /\ stack # <<>> /\ f.phase = "visit" /\ f.queue # <<>> /\ Node(f).class = "ControlFlow"
      /\ Len(f.routed) < Len(Flow(f).bodies) /\ stack' = Append(st, g)
  BY DEF EnterBody, Routing
<1>2. Good(f)
  BY <1>1, TopGood DEF Top
<1>3. Alike(f, h, {})
  BY <1>1, <1>2, FlushedGood
<1>4. Good(h) /\ Node(h) = Node(f) /\ Flow(h) = Flow(f) /\ DOMAIN f = Fields
  <2>1. Good(h) /\ Node(h) = Node(f) /\ Flow(h) = Flow(f)
    BY <1>2, <1>3, SameGood
  <2> QED BY <1>2, <2>1 DEF Good
<1> HIDE DEF h
<1>5. h.block = f.block /\ h.entry = f.entry /\ h.layout = f.layout /\ h.phase = "visit" /\ h.queue # <<>>
  BY <1>1, <1>3, <1>4, AlikeIs
<1>6. Stacked(st) /\ st # <<>> /\ st[Len(st)] = h
  BY <1>1, <1>4, <1>5, StackedTop DEF Top
<1>7. c \in Range(Flow(f).bodies) /\ c \in DOMAIN Program
  <2> DEFINE s == Flow(f).bodies
             m == Len(f.routed)
             i == Head(Node(f).ops)
  <2>1. f.block \in DOMAIN Program /\ i \in 1..Len(Program[f.block]) /\ Flow(f) = Program[f.block][i]
    BY <1>1, <1>2, FlowIs
  <2>2. Flow(f) \in OperationType
    BY <2>1, OperationsAre
  <2>3. s \in Seq(DOMAIN Program)
    BY <2>2 DEF OperationType
  <2>4. m \in Nat /\ m < Len(s)
    BY <1>1, <1>2, SequenceFacts DEF Good, Bodies
  <2> HIDE DEF s, m
  <2>5. Len(s) \in Nat /\ \A j \in 1..Len(s) : s[j] \in DOMAIN Program /\ s[j] \in Range(s)
    BY <2>3, SequenceOf
  <2>6. m + 1 \in 1..Len(s)
    BY <2>4, <2>5
  <2>7. s[m + 1] \in DOMAIN Program /\ s[m + 1] \in Range(s)
    BY <2>5, <2>6
  <2> QED BY <2>7 DEF s, m
<1> HIDE DEF c, st
<1>8. Placed(f.layout)
  BY <1>2 DEF Good, Laid
<1>9. Good(g) /\ g.entry = f.layout /\ g.block = c
  BY <1>7, <1>8, FrameGood
<1> HIDE DEF g
<1>10. Awaits(st[Len(st)], g)
  BY <1>1, <1>4, <1>5, <1>6, <1>7, <1>9 DEF Awaits
<1> QED BY <1>1, <1>6, <1>9, <1>10, StackedPush

(* A routed body is handed to the frame below. *)
LEMMA LeaveBodyKeeps == ASSUME Stacked(stack), LeaveBody PROVE Stacked(stack')
<1> DEFINE f == Top
           m == Len(stack) - 1
           st == [n \in 1..m |-> stack[n]]
           p == st[m]
<1>1. Len(stack) > 1 /\ stack # <<>> /\ Routed(f)
  BY DEF LeaveBody, Routing
<1>2. PICK s \in Restorations(f) : stack' = [st EXCEPT ![m].routed = Append(@, Closed(f, s))]
  BY DEF LeaveBody
<1>3. Stacked(st) /\ st # <<>> /\ Len(st) = m /\ p = stack[m] /\ Len(stack) \in Nat
  BY <1>1, StackedPop, TopGood
<1>4. Good(f) /\ Awaits(p, f)
  <2>1. Good(f)
    BY <1>1, TopGood DEF Top
  <2>2. Len(stack) \in 2..Len(stack)
    BY <1>1, <1>3
  <2>3. Awaits(stack[Len(stack) - 1], stack[Len(stack)])
    BY <2>2 DEF Stacked
  <2> QED BY <1>3, <2>1, <2>3 DEF Top
<1>5. Good(p) /\ m \in 1..Len(st)
  BY <1>3, TopGood
<1> HIDE DEF f, st, p
<1>6. /\ p.phase = "visit" /\ p.queue # <<>> /\ Node(p).class = "ControlFlow"
      /\ f.entry = p.layout /\ f.block \in Range(Flow(p).bodies)
  BY <1>4 DEF Awaits
<1> DEFINE i == Head(Node(p).ops)
           d == Allowed(Flow(p).kind, Inside[p.block])
           b == Closed(f, s)
<1>7. /\ p.block \in DOMAIN Program /\ i \in 1..Len(Program[p.block])
      /\ Flow(p) = Program[p.block][i]
  BY <1>5, <1>6, FlowIs
<1>8. Inside[f.block] \subseteq d /\ d \in SUBSET Transfers
  <2>1. Inside[p.block] \subseteq Transfers /\ Inside[f.block] \subseteq d
    BY <1>6, <1>7, InsideIs
  <2>2. d \subseteq Transfers
    BY <2>1 DEF Allowed, Transfers
  <2> QED BY <2>1, <2>2
<1> HIDE DEF d, b, i
<1>9. Leads(b, f.entry, f.entry, Inside[f.block])
  BY <1>1, <1>2, <1>4, ClosedLeads DEF b, f
<1>10. Body(b, p.layout, d)
  <2>1. Body(b, f.entry, Inside[f.block])
    BY <1>9, LeadsBody
  <2>2. Body(b, f.entry, d)
    BY <1>8, <2>1, BodyWider
  <2> QED BY <1>6, <2>2
<1>11. ASSUME ExitsAreDirect PROVE LeftLast(b, Flow(p).kind)
  <2>1. f.block \in Range(Program[p.block][i].bodies)
    BY <1>6, <1>7
  <2>2. LeftLast(f.plan, Program[p.block][i].kind)
    BY <1>1, <1>4, <1>7, <1>11, <2>1, TransfersEnd DEF f
  <2>3. LeftLast(f.plan, Flow(p).kind)
    BY <1>7, <2>2
  <2> QED BY <1>1, <1>2, <1>4, <2>3, ClosedLast DEF b, f
<1> DEFINE g == [p EXCEPT !.routed = Append(@, b)]
<1>12. DOMAIN p = Fields
  BY <1>5 DEF Good
<1>13. Alike(p, g, {"routed"}) /\ g.routed = Append(p.routed, b) /\ g.block = p.block /\ g.entry = p.entry
  BY <1>12 DEF Alike, Fields
<1>14. Good(g)
  BY <1>5, <1>6, <1>10, <1>11, <1>13, RoutedGood DEF d
<1>15. stack' = [st EXCEPT ![Len(st)] = g]
  BY <1>2, <1>3 DEF b, p
<1> HIDE DEF g
<1> QED BY <1>3, <1>13, <1>14, <1>15, StackedTop DEF p

(* What RoutedOnceInOrder says of one block. *)
OnceInOrder(ops, plan) ==
    LET of(i) == {k \in 1..Len(plan) : plan[k].kind # "swap" /\ plan[k].source = i}
    IN  /\ \A k \in 1..Len(plan) : plan[k].kind = "swap" \/ plan[k].source \in 1..Len(ops)
        /\ \A i \in 1..Len(ops) : Cardinality(of(i)) = 1
        /\ \A i, j \in 1..Len(ops) :
              i < j /\ Precedes(ops[i], ops[j]) =>
                  \A k \in of(i), m \in of(j) : k < m

(* A plan that covers the whole block holds each operation once, in order. *)
LEMMA CoversAll ==
    ASSUME NEW ops, NEW dag, NEW plan, Covers(ops, plan, 1..Len(ops), Order(dag, ops))
    PROVE  OnceInOrder(ops, plan)
<1> DEFINE of(i) == {k \in 1..Len(plan) : plan[k].kind # "swap" /\ plan[k].source = i}
           R == Order(dag, ops)
<1>1. \A i : \A k \in of(i) : k \in Real(plan) /\ plan[k].source = i
  BY DEF Real
<1>2. \A k \in 1..Len(plan) : plan[k].kind = "swap" \/ plan[k].source \in 1..Len(ops)
  BY DEF Covers, Real
<1>3. ASSUME NEW i \in 1..Len(ops) PROVE Cardinality(of(i)) = 1
  <2>1. PICK k \in Real(plan) : plan[k].source = i
    BY DEF Covers
  <2>2. k \in of(i)
    BY <2>1 DEF Real
  <2>3. \A m \in of(i) : m = k
    BY <1>1, <2>1 DEF Covers
  <2>4. of(i) = {k}
    BY <2>2, <2>3
  <2> HIDE DEF of
  <2> QED BY <2>4, FS_Singleton
<1>4. ASSUME NEW i \in 1..Len(ops), NEW j \in 1..Len(ops), i < j, Precedes(ops[i], ops[j]),
             NEW k \in of(i), NEW m \in of(j)
      PROVE  k < m
  <2>1. <<i, j>> \in R
    BY <1>4, OrderIs
  <2>2. k \in Real(plan) /\ m \in Real(plan) /\ plan[k].source = i /\ plan[m].source = j
    BY <1>1
  <2> HIDE DEF of, R
  <2>3. <<plan[k].source, plan[m].source>> \in R
    BY <2>1, <2>2
  <2> QED BY <2>2, <2>3 DEF Covers, R
<1> QED BY <1>2, <1>3, <1>4 DEF OnceInOrder

(* So a finished frame does. *)
LEMMA StackedInOrder == ASSUME Stacked(stack) PROVE RoutedOnceInOrder
<1>1. ASSUME NEW n \in 1..Len(stack), Routed(stack[n])
      PROVE  OnceInOrder(Program[stack[n].block], stack[n].plan)
  <2> DEFINE f == stack[n]
  <2>1. Good(f) /\ Routed(f)
    BY <1>1 DEF Stacked
  <2> HIDE DEF f
  <2>2. Covers(Program[f.block], f.plan, 1..Len(Program[f.block]), Order(Dags[f.block], Program[f.block]))
    BY <2>1, RoutedHolds
  <2> QED BY <2>2, CoversAll DEF f
<1> QED BY <1>1 DEF RoutedOnceInOrder, OnceInOrder

(* The layouts and layers of a good frame. *)
LEMMA GoodTyped ==
    ASSUME NEW f, Good(f)
    PROVE  /\ \A l, m \in Logical : l # m => f.layout[l] # f.layout[m]
           /\ Len(f.swaps) <= AttemptLimit + Cardinality(Physical)
           /\ \A m \in DOMAIN f.front :
                 /\ f.need[m] = 0
                 /\ \A j \in 1..2 : f.front[m][j] = f.layout[Dags[f.block].nodes[m].wires[j]]
           /\ f.swaps # <<>> => f.phase # "visit" \/ f.queue # <<>>
<1>1. \A l, m \in Logical : l # m => f.layout[l] # f.layout[m]
  BY DEF Good, Laid, Placed
<1>2. Cardinality(Physical) \in Nat
  BY PhysicalIsFinite, FS_CardinalityType
<1>3. f.swaps \in Seq(Edges) /\ Cached(Nodes(f), f.front, f.layout) /\ Placed(f.layout)
  BY DEF Good, Laid
<1>4. Len(f.swaps) \in Nat
  BY <1>3
<1>5. Len(f.swaps) <= AttemptLimit + Cardinality(Physical)
  <2>1. CASE f.phase = "visit"
    BY <2>1 DEF Good, Stage
  <2>2. CASE f.phase = "search"
    <3>1. Len(f.swaps) <= AttemptLimit
      BY <2>2 DEF Good, Stage
    <3> QED BY <1>2, <1>4, <3>1, LimitIsNatural
  <2>3. CASE f.phase = "force"
    <3>1. f.goal \in DOMAIN f.front /\ Len(f.swaps) + Distance(f.front[f.goal]) <= Cardinality(Physical)
      BY <2>3 DEF Good, Stage
    <3>2. Distance(f.front[f.goal]) \in 0..(Cardinality(Physical) - 1)
      BY <1>3, <3>1, WaitingPair
    <3> QED BY <1>2, <1>4, <3>1, <3>2, LimitIsNatural
  <2> QED BY <2>1, <2>2, <2>3 DEF Good, Stage
<1>6. ASSUME NEW m \in DOMAIN f.front
      PROVE  /\ f.need[m] = 0
             /\ \A j \in 1..2 : f.front[m][j] = f.layout[Dags[f.block].nodes[m].wires[j]]
  <2>1. f.need[m] = 0
    BY DEF Good, Tracks, Progress
  <2>2. f.front[m] = <<f.layout[Dags[f.block].nodes[m].wires[1]], f.layout[Dags[f.block].nodes[m].wires[2]]>>
    BY <1>3 DEF Cached, Nodes
  <2>3. \A j \in 1..2 : f.front[m][j] = f.layout[Dags[f.block].nodes[m].wires[j]]
    <3> DEFINE w == Dags[f.block].nodes[m].wires
    <3>1. f.front[m] = <<f.layout[w[1]], f.layout[w[2]]>>
      BY <2>2
    <3> HIDE DEF w
    <3>2. f.front[m][1] = f.layout[w[1]] /\ f.front[m][2] = f.layout[w[2]]
      BY <3>1
    <3>3. \A j \in 1..2 : f.front[m][j] = f.layout[w[j]]
      <4> TAKE j \in 1..2
      <4>1. j = 1 \/ j = 2
        OBVIOUS
      <4> QED BY <3>2, <4>1
    <3> QED BY <3>3 DEF w
  <2> QED BY <2>1, <2>3
<1>7. f.swaps # <<>> => f.phase # "visit" \/ f.queue # <<>>
  BY DEF Good, Stage
<1> QED BY <1>1, <1>5, <1>6, <1>7

(* What is left when the trial of the circuit is over. *)
LEMMA FinishLeads ==
    ASSUME Stacked(stack), Finish
    PROVE  /\ \E M : Leads(Top.plan, Top.entry, M, {})
           /\ Placed(Top.entry) /\ Stacked(stack')
<1> DEFINE f == Top
<1>1. Len(stack) = 1 /\ Routed(f) /\ stack' = <<>> /\ f = stack[1]
  BY DEF Finish, Top
<1>2. Good(f) /\ f.block = Main
  BY <1>1 DEF Stacked
<1> HIDE DEF f
<1>3. f.swaps = <<>>
  BY <1>1, <1>2, RoutedHolds
<1>4. Inside[Main] = {}
  BY InsideIs
<1>5. \E M : Leads(f.plan, f.entry, M, {})
  BY <1>2, <1>4 DEF Good, Made
<1>6. Stacked(<<>>)
  BY EmptySequence DEF Stacked
<1>7. Placed(f.entry)
  BY <1>2 DEF Good, Laid
<1> QED BY <1>1, <1>5, <1>6, <1>7 DEF f

-----------------------------------------------------------------------------
(* Running what was routed *)

Controls == {"plan", "next", "kind", "entry"}

(* The operations of a block as they are run from L, where the layout is t[k] *)
(* behind the k-th.  With direct exits that is where the qubits really are.   *)
Runs(x, c, K, L, t) ==
    /\ Placed(L) /\ Walks(x.plan, L, c, t)
    /\ x.kind # "main" => t[Len(x.plan)] = L
    /\ ExitsAreDirect => L = x.entry /\ t[x.next - 1] = K

Performs(x, c, K) ==
    /\ DOMAIN x = Controls /\ Sequence(x.plan) /\ x.next \in 1..(Len(x.plan) + 1)
    /\ \E L, t : Runs(x, c, K, L, t)
    /\ ExitsAreDirect /\ x.kind # "main" => LeftLast(x.plan, x.kind)

(* y is the frame x with its control elsewhere. *)
Turned(x, y, n) ==
    /\ DOMAIN y = Controls /\ y.plan = x.plan /\ y.kind = x.kind /\ y.entry = x.entry
    /\ y.next = n

(* Setting the next operation changes no more. *)
LEMMA TurnedIs ==
    ASSUME NEW x, DOMAIN x = Controls, NEW n
    PROVE  Turned(x, [x EXCEPT !.next = n], n)
BY DEF Turned, Controls

(* What the operation at hand finds. *)
LEMMA PerformsFits ==
    ASSUME NEW x, NEW c, NEW K, Performs(x, c, K), x.next <= Len(x.plan)
    PROVE  /\ x.next \in 1..Len(x.plan)
           /\ x.plan[x.next].kind = "swap" => Range(x.plan[x.next].at) \in Edges
           /\ x.plan[x.next].kind \in Transfers => x.plan[x.next].kind \in c
           /\ ExitsAreDirect => Fits(x.plan[x.next], K, c)
<1>1. x.next \in 1..Len(x.plan)
  BY SequenceFacts DEF Performs
<1>2. PICK L, t : Runs(x, c, K, L, t)
  BY DEF Performs
<1>3. Fits(x.plan[x.next], t[x.next - 1], c)
  BY <1>1, <1>2 DEF Runs, Walks, Right
<1>4. ExitsAreDirect => t[x.next - 1] = K
  BY <1>2 DEF Runs
<1> DEFINE op == x.plan[x.next]
           M == t[x.next - 1]
<1> HIDE DEF op, M
<1>5. Fits(op, M, c) /\ (ExitsAreDirect => M = K)
  BY <1>3, <1>4 DEF op, M
<1>6. /\ op.kind = "swap" => Range(op.at) \in Edges
      /\ op.kind \in Transfers => op.kind \in c
  BY <1>5 DEF Fits
<1> QED BY <1>1, <1>5, <1>6 DEF op

(* One operation on. *)
LEMMA PerformsNext ==
    ASSUME NEW x, NEW c, NEW K, Performs(x, c, K), x.next <= Len(x.plan),
           NEW y, Turned(x, y, x.next + 1)
    PROVE  Performs(y, c, After(K, x.plan[x.next]))
<1>1. /\ DOMAIN x = Controls /\ Sequence(x.plan) /\ x.next \in 1..(Len(x.plan) + 1)
      /\ ExitsAreDirect /\ x.kind # "main" => LeftLast(x.plan, x.kind)
  BY DEF Performs
<1>2. Len(x.plan) \in Nat
  BY <1>1, SequenceFacts
<1>3. /\ DOMAIN y = Controls /\ y.plan = x.plan /\ y.kind = x.kind /\ y.entry = x.entry
      /\ y.next = x.next + 1
  BY DEF Turned
<1>4. x.next \in 1..Len(x.plan) /\ y.next \in 1..(Len(x.plan) + 1) /\ y.next - 1 = x.next
  BY <1>1, <1>2, <1>3
<1>5. PICK L, t : Runs(x, c, K, L, t)
  BY DEF Performs
<1>6. t[x.next] = After(t[x.next - 1], x.plan[x.next])
  BY <1>4, <1>5 DEF Runs, Walks, Walk
<1>7. ExitsAreDirect => t[y.next - 1] = After(K, x.plan[x.next])
  BY <1>4, <1>5, <1>6 DEF Runs
<1>8. Runs(y, c, After(K, x.plan[x.next]), L, t)
  BY <1>3, <1>5, <1>7 DEF Runs
<1> QED BY <1>1, <1>3, <1>4, <1>8 DEF Performs

(* At its end a body is where it was entered. *)
LEMMA PerformsEnded ==
    ASSUME NEW x, NEW c, NEW K, Performs(x, c, K), x.next > Len(x.plan), x.kind # "main", ExitsAreDirect
    PROVE  K = x.entry
<1>1. Sequence(x.plan) /\ x.next \in 1..(Len(x.plan) + 1)
  BY DEF Performs
<1>2. Len(x.plan) \in Nat
  BY <1>1, SequenceFacts
<1>3. x.next - 1 = Len(x.plan)
  BY <1>1, <1>2
<1> QED BY <1>3 DEF Performs, Runs

(* A transfer leaves a body where it was entered. *)
LEMMA PerformsTransfer ==
    ASSUME NEW x, NEW c, NEW K, Performs(x, c, K), x.next <= Len(x.plan), x.kind # "main", ExitsAreDirect,
           x.plan[x.next].kind \in Transfers
    PROVE  K = x.entry /\ x.plan[x.next].kind \in Allowed(x.kind, {})
<1>1. x.next \in 1..Len(x.plan)
  BY PerformsFits
<1>2. x.next = Len(x.plan) /\ x.plan[x.next].kind \in Allowed(x.kind, {})
  BY <1>1 DEF Performs, LeftLast
<1>3. PICK L, t : Runs(x, c, K, L, t)
  BY DEF Performs
<1>4. t[x.next] = After(t[x.next - 1], x.plan[x.next])
  BY <1>1, <1>3 DEF Runs, Walks, Walk
<1>5. t[x.next] = t[x.next - 1]
  BY <1>4 DEF After, Transfers
<1>6. t[x.next - 1] = K /\ t[x.next] = L /\ L = x.entry
  BY <1>2, <1>3 DEF Runs
<1> QED BY <1>2, <1>5, <1>6

(* A body starts over or ends, where it was entered. *)
LEMMA PerformsElsewhere ==
    ASSUME NEW x, NEW c, NEW K, Performs(x, c, K), x.kind # "main", NEW M, ExitsAreDirect => M = x.entry,
           NEW y, NEW n, n = 1 \/ n = Len(x.plan) + 1, Turned(x, y, n)
    PROVE  Performs(y, c, M)
<1>1. /\ DOMAIN x = Controls /\ Sequence(x.plan)
      /\ ExitsAreDirect /\ x.kind # "main" => LeftLast(x.plan, x.kind)
  BY DEF Performs
<1>2. Len(x.plan) \in Nat
  BY <1>1, SequenceFacts
<1>3. /\ DOMAIN y = Controls /\ y.plan = x.plan /\ y.kind = x.kind /\ y.entry = x.entry
      /\ y.next = n
  BY DEF Turned
<1>4. PICK L, t : Runs(x, c, K, L, t)
  BY DEF Performs
<1>5. t[0] = L /\ t[Len(x.plan)] = L
  BY <1>4 DEF Runs, Walks, Walk
<1>6. y.next \in 1..(Len(x.plan) + 1) /\ (y.next - 1 = 0 \/ y.next - 1 = Len(x.plan))
  BY <1>2, <1>3
<1>7. t[y.next - 1] = L
  BY <1>5, <1>6
<1>8. Runs(y, c, M, L, t)
  BY <1>3, <1>4, <1>7 DEF Runs
<1> QED BY <1>1, <1>3, <1>6, <1>8 DEF Performs

(* A body is entered where the operation stands. *)
LEMMA PerformsBody ==
    ASSUME NEW x, NEW c, NEW K, Performs(x, c, K), x.next <= Len(x.plan),
           x.plan[x.next].kind \in Control, NEW i \in 1..Len(x.plan[x.next].bodies)
    PROVE  Performs([plan |-> x.plan[x.next].bodies[i], next |-> 1,
                     kind |-> x.plan[x.next].kind, entry |-> K],
                    Allowed(x.plan[x.next].kind, c), K)
<1>1. x.next \in 1..Len(x.plan)
  BY PerformsFits
<1>2. PICK L, t : Runs(x, c, K, L, t)
  BY DEF Performs
<1> DEFINE op == x.plan[x.next]
           M == t[x.next - 1]
           b == op.bodies[i]
           d == Allowed(op.kind, c)
           y == [plan |-> b, next |-> 1, kind |-> op.kind, entry |-> K]
<1>3. Right(op, M, c) /\ (ExitsAreDirect => M = K)
  BY <1>1, <1>2 DEF Runs, Walks
<1>4. op.kind \in Control /\ i \in 1..Len(op.bodies)
  OBVIOUS
<1> HIDE DEF op, M
<1>5. Body(b, M, d) /\ (ExitsAreDirect => LeftLast(b, op.kind))
  BY <1>3, <1>4 DEF Right, Fits
<1> HIDE DEF b, d
<1>6. Leads(b, M, M, d)
  BY <1>5, BodyLeads
<1>7. PICK u : Walks(b, M, d, u) /\ u[Len(b)] = M
  BY <1>6 DEF Leads
<1>8. Placed(M) /\ Sequence(b) /\ u[0] = M
  BY <1>6, <1>7 DEF Leads, Walks, Walk
<1>9. DOMAIN y = Controls /\ y.plan = b /\ y.next = 1 /\ y.kind = op.kind /\ y.entry = K
  BY DEF Controls
<1> HIDE DEF y
<1>10. Runs(y, d, K, M, u)
  BY <1>3, <1>7, <1>8, <1>9 DEF Runs
<1>11. y.next \in 1..(Len(y.plan) + 1)
  BY <1>8, <1>9, SequenceFacts
<1>12. Performs(y, d, K)
  BY <1>5, <1>8, <1>9, <1>10, <1>11 DEF Performs
<1> QED BY <1>12 DEF y, b, d, op

(* The circuit itself starts in its initial layout. *)
LEMMA PerformsMain ==
    ASSUME NEW p, NEW L, NEW M, Leads(p, L, M, {})
    PROVE  Performs([plan |-> p, next |-> 1, kind |-> "main", entry |-> L], {}, L)
<1> DEFINE y == [plan |-> p, next |-> 1, kind |-> "main", entry |-> L]
<1>1. PICK u : Walks(p, L, {}, u)
  BY DEF Leads
<1>2. Placed(L) /\ Sequence(p) /\ u[0] = L
  BY <1>1 DEF Leads, Walks, Walk
<1>3. DOMAIN y = Controls /\ y.plan = p /\ y.next = 1 /\ y.kind = "main" /\ y.entry = L
  BY DEF Controls
<1> HIDE DEF y
<1>4. Runs(y, {}, L, L, u)
  BY <1>1, <1>2, <1>3 DEF Runs
<1>5. y.next \in 1..(Len(y.plan) + 1)
  BY <1>2, <1>3, SequenceFacts
<1>6. Performs(y, {}, L)
  BY <1>2, <1>3, <1>4, <1>5 DEF Performs
<1> QED BY <1>6 DEF y

(* Where the qubits are, as the n-th frame sees it. *)
Here(ex, h, n) == IF n = Len(ex) THEN h ELSE ex[n + 1].entry

(* What the n-th frame may hold, and that it has its target. *)
Permits(ex, c) ==
    /\ c[1] = {}
    /\ \A n \in 2..Len(ex) : c[n] = Allowed(ex[n].kind, c[n - 1])
    /\ \A n \in 1..Len(ex) :
          /\ "break" \in c[n] => \E i \in 1..n : ex[i].kind \in {"loop", "switch"}
          /\ "continue" \in c[n] => \E i \in 1..n : ex[i].kind = "loop"

Nested(ex, h) ==
    /\ Sequence(ex) /\ Placed(h)
    /\ Len(ex) > 0 => ex[1].kind = "main"
    /\ \A n \in 2..Len(ex) : ex[n].kind \in Control
    /\ \E c : /\ Permits(ex, c)
              /\ \A n \in 1..Len(ex) : Performs(ex[n], c[n], Here(ex, h, n))

(* There is an innermost frame. *)
LEMMA InnerIs ==
    ASSUME NEW ex, NEW h, Nested(ex, h), ex # <<>>
    PROVE  Sequence(ex) /\ Len(ex) \in Nat \ {0} /\ Len(ex) \in 1..Len(ex)
<1>1. Sequence(ex) /\ Len(ex) \in Nat
  BY SequenceFacts DEF Nested
<1>2. Len(ex) # 0
  <2> DEFINE S == Range(ex)
  <2>1. ex \in Seq(S)
    BY <1>1 DEF Sequence
  <2> HIDE DEF S
  <2> QED BY <2>1
<1> QED BY <1>1, <1>2

(* The innermost frame goes on. *)
LEMMA NestedTop ==
    ASSUME NEW ex, NEW h, Nested(ex, h), ex # <<>>, NEW k, Placed(k),
           NEW y, y.kind = ex[Len(ex)].kind, y.entry = ex[Len(ex)].entry,
           \A c : Performs(ex[Len(ex)], c, h) => Performs(y, c, k)
    PROVE  Nested([ex EXCEPT ![Len(ex)] = y], k)
<1> DEFINE n == Len(ex)
           t == [ex EXCEPT ![n] = y]
<1>1. n \in Nat \ {0} /\ n \in 1..Len(ex) /\ Sequence(ex)
  BY InnerIs
<1>2. /\ Sequence(t) /\ Len(t) = n /\ t[n] = y
      /\ \A i \in 1..n : i # n => t[i] = ex[i]
  BY <1>1, ReplacedSequence
<1>3. PICK c : /\ Permits(ex, c)
               /\ \A i \in 1..n : Performs(ex[i], c[i], Here(ex, h, i))
  BY DEF Nested
<1> HIDE DEF t
<1>4. \A i \in 1..n : t[i].kind = ex[i].kind /\ t[i].entry = ex[i].entry
  BY <1>2
<1>5. Permits(t, c)
  <2>1. \A i \in 2..n : i \in 1..n
    BY <1>1
  <2>2. \A i \in 1..n : \A j \in 1..i : j \in 1..n
    BY <1>1
  <2>3. \A i \in 2..n : c[i] = Allowed(t[i].kind, c[i - 1])
    BY <1>3, <1>4, <2>1 DEF Permits
  <2>4. ASSUME NEW i \in 1..n
        PROVE  /\ "break" \in c[i] => \E j \in 1..i : t[j].kind \in {"loop", "switch"}
               /\ "continue" \in c[i] => \E j \in 1..i : t[j].kind = "loop"
    <3>1. \A j \in 1..i : t[j].kind = ex[j].kind
      BY <1>4, <2>2
    <3>2. /\ "break" \in c[i] => \E j \in 1..i : ex[j].kind \in {"loop", "switch"}
          /\ "continue" \in c[i] => \E j \in 1..i : ex[j].kind = "loop"
      BY <1>3 DEF Permits
    <3> QED BY <3>1, <3>2
  <2> QED BY <1>2, <1>3, <2>3, <2>4 DEF Permits
<1>6. ASSUME NEW i \in 1..n PROVE Performs(t[i], c[i], Here(t, k, i))
  <2>1. CASE i = n
    <3>1. Performs(ex[n], c[n], h)
      BY <1>1, <1>3 DEF Here
    <3> QED BY <1>2, <2>1, <3>1 DEF Here
  <2>2. CASE i # n
    <3>1. i + 1 \in 1..n
      BY <1>1, <2>2
    <3>2. Here(t, k, i) = Here(ex, h, i)
      BY <1>2, <1>4, <2>2, <3>1 DEF Here
    <3> QED BY <1>2, <1>3, <2>2, <3>2
  <2> QED BY <2>1, <2>2
<1>7. /\ t[1].kind = "main"
      /\ \A i \in 2..n : t[i].kind \in Control
  <2>1. 1 \in 1..n /\ \A i \in 2..n : i \in 1..n
    BY <1>1
  <2> QED BY <1>1, <1>4, <2>1 DEF Nested
<1>8. Nested(t, k)
  BY <1>2, <1>5, <1>6, <1>7 DEF Nested
<1> QED BY <1>8 DEF t

(* A body is entered. *)
LEMMA NestedPush ==
    ASSUME NEW ex, NEW h, Nested(ex, h), ex # <<>>,
           NEW x, x.kind = ex[Len(ex)].kind, x.entry = ex[Len(ex)].entry,
           NEW y, y.kind \in Control, y.entry = h,
           \A c : Performs(ex[Len(ex)], c, h) =>
                      Performs(x, c, h) /\ Performs(y, Allowed(y.kind, c), h)
    PROVE  Nested(Append([ex EXCEPT ![Len(ex)] = x], y), h)
<1> DEFINE n == Len(ex)
           s == [ex EXCEPT ![n] = x]
           t == Append(s, y)
<1>1. n \in Nat \ {0} /\ n \in 1..Len(ex) /\ Sequence(ex) /\ Placed(h)
  BY InnerIs DEF Nested
<1>2. /\ Sequence(s) /\ Len(s) = n /\ s[n] = x
      /\ \A i \in 1..n : i # n => s[i] = ex[i]
  BY <1>1, ReplacedSequence
<1> HIDE DEF s
<1>3. Sequence(t) /\ Len(t) = n + 1 /\ t[n + 1] = y /\ \A i \in 1..n : t[i] = s[i]
  BY <1>2, AppendedSequence
<1> HIDE DEF t
<1>4. \A i \in 1..n : t[i].kind = ex[i].kind /\ t[i].entry = ex[i].entry
  BY <1>2, <1>3
<1>5. PICK c : /\ Permits(ex, c)
               /\ \A i \in 1..n : Performs(ex[i], c[i], Here(ex, h, i))
  BY DEF Nested
<1> DEFINE d == [i \in 1..(n + 1) |-> IF i = n + 1 THEN Allowed(y.kind, c[n]) ELSE c[i]]
<1>6. d[n + 1] = Allowed(y.kind, c[n]) /\ \A i \in 1..n : d[i] = c[i]
  BY <1>1
<1> HIDE DEF d
<1>7. Permits(t, d)
  <2>1. \A i \in 1..n : \A j \in 1..i : j \in 1..n
    BY <1>1
  <2>2. d[1] = {}
    BY <1>1, <1>5, <1>6 DEF Permits
  <2>3. ASSUME NEW i \in 2..(n + 1) PROVE d[i] = Allowed(t[i].kind, d[i - 1])
    <3>1. CASE i = n + 1
      BY <1>1, <1>3, <1>6, <3>1
    <3>2. CASE i # n + 1
      <4>1. i \in 2..n /\ i \in 1..n /\ i - 1 \in 1..n
        BY <1>1, <3>2
      <4>2. c[i] = Allowed(ex[i].kind, c[i - 1])
        BY <1>5, <4>1 DEF Permits
      <4> QED BY <1>4, <1>6, <4>1, <4>2
    <3> QED BY <3>1, <3>2
  <2>4. ASSUME NEW i \in 1..n
        PROVE  /\ "break" \in c[i] => \E j \in 1..i : t[j].kind \in {"loop", "switch"}
               /\ "continue" \in c[i] => \E j \in 1..i : t[j].kind = "loop"
    <3>1. \A j \in 1..i : t[j].kind = ex[j].kind
      BY <1>4, <2>1
    <3>2. /\ "break" \in c[i] => \E j \in 1..i : ex[j].kind \in {"loop", "switch"}
          /\ "continue" \in c[i] => \E j \in 1..i : ex[j].kind = "loop"
      BY <1>5 DEF Permits
    <3> QED BY <3>1, <3>2
  <2>5. /\ "break" \in d[n + 1] => \E j \in 1..(n + 1) : t[j].kind \in {"loop", "switch"}
        /\ "continue" \in d[n + 1] => \E j \in 1..(n + 1) : t[j].kind = "loop"
    <3>1. \A j \in 1..n : j \in 1..(n + 1)
      BY <1>1
    <3>2. n + 1 \in 1..(n + 1)
      BY <1>1
    <3>3. "break" \in d[n + 1] => y.kind \in {"loop", "switch"} \/ "break" \in c[n]
      BY <1>6 DEF Allowed
    <3>4. "continue" \in d[n + 1] => y.kind = "loop" \/ "continue" \in c[n]
      BY <1>6 DEF Allowed
    <3>5. /\ "break" \in c[n] => \E j \in 1..n : t[j].kind \in {"loop", "switch"}
          /\ "continue" \in c[n] => \E j \in 1..n : t[j].kind = "loop"
      BY <1>1, <2>4
    <3> QED BY <1>3, <3>1, <3>2, <3>3, <3>4, <3>5
  <2>6. ASSUME NEW i \in 1..(n + 1)
        PROVE  /\ "break" \in d[i] => \E j \in 1..i : t[j].kind \in {"loop", "switch"}
               /\ "continue" \in d[i] => \E j \in 1..i : t[j].kind = "loop"
    <3>1. i = n + 1 \/ i \in 1..n
      BY <1>1
    <3>2. CASE i = n + 1
      BY <2>5, <3>2
    <3>3. CASE i \in 1..n
      BY <1>6, <2>4, <3>3
    <3> QED BY <3>1, <3>2, <3>3
  <2> QED BY <1>3, <2>2, <2>3, <2>6 DEF Permits
<1>8. ASSUME NEW i \in 1..(n + 1) PROVE Performs(t[i], d[i], Here(t, h, i))
  <2>0. Performs(ex[n], c[n], h)
    BY <1>1, <1>5 DEF Here
  <2>1. CASE i = n + 1
    BY <1>3, <1>6, <2>0, <2>1 DEF Here
  <2>2. CASE i = n
    <3>1. Here(t, h, i) = h /\ t[i] = x /\ d[i] = c[n]
      BY <1>1, <1>2, <1>3, <1>6, <2>2 DEF Here
    <3> QED BY <2>0, <3>1
  <2>3. CASE i # n + 1 /\ i # n
    <3>1. i \in 1..n /\ i + 1 \in 1..n
      BY <1>1, <2>3
    <3>2. Here(t, h, i) = Here(ex, h, i)
      BY <1>3, <1>4, <2>3, <3>1 DEF Here
    <3>3. t[i] = ex[i] /\ d[i] = c[i]
      BY <1>2, <1>3, <1>6, <2>3, <3>1
    <3> QED BY <1>5, <3>1, <3>2, <3>3
  <2> QED BY <2>1, <2>2, <2>3
<1>9. /\ t[1].kind = "main"
      /\ \A i \in 2..(n + 1) : t[i].kind \in Control
  <2>1. 1 \in 1..n /\ \A i \in 2..(n + 1) : i = n + 1 \/ (i \in 2..n /\ i \in 1..n)
    BY <1>1
  <2> QED BY <1>1, <1>3, <1>4, <2>1 DEF Nested
<1>10. Nested(t, h)
  BY <1>1, <1>3, <1>7, <1>8, <1>9 DEF Nested
<1> QED BY <1>10 DEF t, s

(* Frames are left. *)
LEMMA NestedPrefix ==
    ASSUME NEW ex, NEW h, Nested(ex, h), ex # <<>>, NEW n \in 1..Len(ex),
           ExitsAreDirect => n = Len(ex) \/ h = ex[n + 1].entry
    PROVE  /\ Nested(SubSeq(ex, 1, n), h) /\ Len(SubSeq(ex, 1, n)) = n
           /\ \A i \in 1..n : SubSeq(ex, 1, n)[i] = ex[i]
           /\ SubSeq(ex, 1, n) # <<>>
<1> DEFINE t == SubSeq(ex, 1, n)
<1>1. Len(ex) \in Nat \ {0} /\ Sequence(ex) /\ Placed(h) /\ n \in Nat \ {0} /\ n <= Len(ex)
  BY InnerIs DEF Nested
<1>2. Sequence(t) /\ Len(t) = n /\ \A i \in 1..n : t[i] = ex[i]
  <2> DEFINE S == Range(ex)
  <2>1. ex \in Seq(S)
    BY <1>1 DEF Sequence
  <2> HIDE DEF S
  <2>2. t \in Seq(S) /\ Len(t) = n /\ \A i \in 1..n : t[i] = ex[i]
    BY <1>1, <2>1
  <2> HIDE DEF t
  <2> QED BY <2>2, SequenceOf
<1> HIDE DEF t
<1>3. PICK c : /\ Permits(ex, c)
               /\ \A i \in 1..Len(ex) : Performs(ex[i], c[i], Here(ex, h, i))
  BY DEF Nested
<1>4. \A i \in 1..n : i \in 1..Len(ex) /\ \A j \in 1..i : j \in 1..n
  BY <1>1
<1>5. \A i \in 2..n : i \in 2..Len(ex) /\ i \in 1..n
  BY <1>1
<1>6. Permits(t, c)
  <2>1. \A i \in 2..n : c[i] = Allowed(t[i].kind, c[i - 1])
    BY <1>2, <1>3, <1>5 DEF Permits
  <2>2. ASSUME NEW i \in 1..n
        PROVE  /\ "break" \in c[i] => \E j \in 1..i : t[j].kind \in {"loop", "switch"}
               /\ "continue" \in c[i] => \E j \in 1..i : t[j].kind = "loop"
    <3>1. \A j \in 1..i : t[j].kind = ex[j].kind
      BY <1>2, <1>4
    <3>2. /\ "break" \in c[i] => \E j \in 1..i : ex[j].kind \in {"loop", "switch"}
          /\ "continue" \in c[i] => \E j \in 1..i : ex[j].kind = "loop"
      BY <1>3, <1>4 DEF Permits
    <3> QED BY <3>1, <3>2
  <2> QED BY <1>2, <1>3, <2>1, <2>2 DEF Permits
<1>7. ASSUME NEW i \in 1..n PROVE Performs(t[i], c[i], Here(t, h, i))
  <2>1. Performs(ex[i], c[i], Here(ex, h, i)) /\ t[i] = ex[i]
    BY <1>2, <1>3, <1>4
  <2>2. CASE i # n
    <3>1. i + 1 \in 1..n /\ i # Len(ex)
      BY <1>1, <2>2
    <3>2. Here(t, h, i) = Here(ex, h, i)
      BY <1>2, <2>2, <3>1 DEF Here
    <3> QED BY <2>1, <3>2
  <2>3. CASE i = n
    <3>1. ExitsAreDirect => Here(ex, h, i) = h
      BY <2>3 DEF Here
    <3>2. Here(t, h, i) = h
      BY <1>2, <2>3 DEF Here
    <3>3. Performs(ex[i], c[i], h)
      BY <2>1, <3>1 DEF Performs, Runs
    <3> QED BY <2>1, <3>2, <3>3
  <2> QED BY <2>2, <2>3
<1>8. /\ t[1].kind = "main"
      /\ \A i \in 2..n : t[i].kind \in Control
  <2>1. 1 \in 1..n
    BY <1>1
  <2> QED BY <1>1, <1>2, <1>5, <2>1 DEF Nested
<1>9. Nested(t, h) /\ t # <<>>
  BY <1>1, <1>2, <1>6, <1>7, <1>8, EmptySequence DEF Nested
<1> QED BY <1>2, <1>9 DEF t

(* The last of some frames. *)
LEMMA MaxIs ==
    ASSUME NEW n \in Nat, NEW S \in SUBSET (1..n), S # {}
    PROVE  Max(S) \in S /\ \A x \in S : x <= Max(S)
<1>1. PICK s \in SetToSeqs(S) : Upwards(s)
  BY UpwardsExists
<1>2. IsFiniteSet(S)
  <2>1. IsFiniteSet(1..n)
    BY FS_Interval
  <2> QED BY <2>1, FS_Subset
<1>9. \A x \in S : x \in Nat
  OBVIOUS
<1>3. Lists(s, S) /\ DOMAIN s = 1..Len(s)
  BY <1>2, ListedSet
<1>4. Sequence(s) /\ Range(s) = S /\ Len(s) \in Nat
  BY <1>3, SequenceFacts DEF Lists
<1> DEFINE m == s[Len(s)]
<1>5. Len(s) # 0
  BY <1>4, SequenceFacts
<1>6. Len(s) \in 1..Len(s)
  BY <1>4, <1>5
<1>7. m \in S
  BY <1>4, <1>6, SequenceFacts
<1>8. ASSUME NEW x \in S PROVE x <= m
  <2>1. PICK i \in 1..Len(s) : x = s[i]
    BY <1>4, SequenceFacts
  <2>2. x \in Nat /\ m \in Nat
    BY <1>7, <1>9
  <2>3. i < Len(s) => s[i] < s[Len(s)]
    BY <1>1, <1>3, <1>6 DEF Upwards
  <2>4. i = Len(s) \/ i < Len(s)
    BY <1>4
  <2> QED BY <2>1, <2>2, <2>3, <2>4
<1> HIDE DEF m
<1>10. \E x \in S : \A y \in S : x >= y
  BY <1>7, <1>8, <1>9
<1>11. Max(S) \in S /\ \A y \in S : Max(S) >= y
  BY <1>10 DEF Max
<1> QED BY <1>9, <1>11

(* The circuit is run from its initial layout. *)
LEMMA NestedStart ==
    ASSUME NEW p, NEW L, NEW M, Leads(p, L, M, {})
    PROVE  Nested(<<[plan |-> p, next |-> 1, kind |-> "main", entry |-> L]>>, L)
<1> DEFINE y == [plan |-> p, next |-> 1, kind |-> "main", entry |-> L]
           t == <<y>>
           c == [n \in 1..1 |-> {}]
<1>1. Performs(y, {}, L) /\ y.kind = "main"
  BY PerformsMain
<1> HIDE DEF y
<1>2. Sequence(t) /\ Len(t) = 1 /\ t[1] = y
  <2>1. t \in Seq({y}) /\ Len(t) = 1 /\ t[1] = y
    OBVIOUS
  <2> HIDE DEF t
  <2> QED BY <2>1, SequenceOf
<1> HIDE DEF t
<1>3. c[1] = {}
  OBVIOUS
<1> HIDE DEF c
<1>4. \A n \in 1..1 : n = 1
  OBVIOUS
<1>5. \A n \in 2..1 : FALSE
  OBVIOUS
<1>6. Permits(t, c)
  <2>1. \A n \in 1..Len(t) : c[n] = {}
    BY <1>2, <1>3, <1>4
  <2> QED BY <1>2, <1>3, <1>5, <2>1 DEF Permits
<1>7. \A n \in 1..Len(t) : Performs(t[n], c[n], Here(t, L, n))
  BY <1>1, <1>2, <1>3, <1>4 DEF Here
<1>8. Placed(L)
  BY DEF Leads
<1>9. Nested(t, L)
  BY <1>1, <1>2, <1>5, <1>6, <1>7, <1>8 DEF Nested
<1> QED BY <1>9 DEF t, y

(* The innermost frame. *)
LEMMA InnerPerforms ==
    ASSUME Nested(exec, held), exec # <<>>
    PROVE  /\ Len(exec) \in Nat \ {0} /\ Len(exec) \in 1..Len(exec) /\ Sequence(exec)
           /\ Inner = exec[Len(exec)] /\ DOMAIN Inner = Controls
           /\ Inner.next \in Nat /\ Len(Inner.plan) \in Nat
           /\ \E c : Performs(Inner, c, held)
<1>1. Len(exec) \in Nat \ {0} /\ Len(exec) \in 1..Len(exec) /\ Sequence(exec)
  BY InnerIs
<1>2. PICK c : \A n \in 1..Len(exec) : Performs(exec[n], c[n], Here(exec, held, n))
  BY DEF Nested
<1>3. Performs(Inner, c[Len(exec)], held)
  BY <1>1, <1>2 DEF Here, Inner
<1>4. DOMAIN Inner = Controls /\ Inner.next \in Nat /\ Len(Inner.plan) \in Nat
  <2>1. DOMAIN Inner = Controls /\ Sequence(Inner.plan) /\ Inner.next \in 1..(Len(Inner.plan) + 1)
    BY <1>3 DEF Performs
  <2> QED BY <2>1, SequenceFacts
<1> QED BY <1>1, <1>3, <1>4 DEF Inner

(* Every frame has its counter. *)
LEMMA FramesCount ==
    ASSUME NEW ex, NEW h, Nested(ex, h), NEW n \in 1..Len(ex)
    PROVE  DOMAIN ex[n] = Controls /\ ex[n].next \in Nat /\ Len(ex[n].plan) \in Nat
           /\ ex[n].next <= Len(ex[n].plan) + 1
<1>1. DOMAIN ex[n] = Controls /\ Sequence(ex[n].plan) /\ ex[n].next \in 1..(Len(ex[n].plan) + 1)
  BY DEF Nested, Performs
<1> QED BY <1>1, SequenceFacts

(* The operation in hand, and its frame behind it. *)
Further == [Inner EXCEPT !.next = @ + 1]

(* Going on moves the innermost frame alone. *)
LEMMA AdvancedIs ==
    ASSUME Nested(exec, held), exec # <<>>
    PROVE  /\ Advanced(exec) = [exec EXCEPT ![Len(exec)] = Further]
           /\ Turned(Inner, Further, Inner.next + 1)
           /\ Further.kind = exec[Len(exec)].kind /\ Further.entry = exec[Len(exec)].entry
<1>1. Inner = exec[Len(exec)] /\ DOMAIN Inner = Controls
  BY InnerPerforms
<1>2. Turned(Inner, Further, Inner.next + 1)
  BY <1>1, TurnedIs DEF Further
<1>3. Advanced(exec) = [exec EXCEPT ![Len(exec)] = Further]
  BY DEF Advanced, Further, Inner
<1> QED BY <1>1, <1>2, <1>3 DEF Turned

(* An operation is executed. *)
LEMMA RunKeeps ==
    ASSUME Nested(exec, held), Run
    PROVE  Nested(exec', held')
<1>1. /\ exec # <<>> /\ ~ Ended /\ Operation.kind \notin Control \cup Transfers
      /\ exec' = Advanced(exec)
      /\ held' = After(held, Operation)
  BY DEF Run, Running, After
<1>2. Inner.next <= Len(Inner.plan) /\ Operation = Inner.plan[Inner.next] /\ Placed(held)
  BY <1>1, InnerPerforms DEF Ended, Operation, Nested
<1>3. PICK c : Performs(Inner, c, held)
  BY <1>1, InnerPerforms
<1>4. Operation.kind = "swap" => Range(Operation.at) \in Edges
  BY <1>2, <1>3, PerformsFits
<1>5. Placed(After(held, Operation))
  BY <1>2, <1>4, SwappedPlaced DEF After
<1>6. \A d : Performs(exec[Len(exec)], d, held) => Performs(Further, d, After(held, Operation))
  BY <1>1, <1>2, AdvancedIs, PerformsNext, InnerPerforms
<1>7. Nested([exec EXCEPT ![Len(exec)] = Further], After(held, Operation))
  BY <1>1, <1>5, <1>6, AdvancedIs, NestedTop
<1> QED BY <1>1, <1>7, AdvancedIs

(* A body is entered, or passed. *)
LEMMA BranchKeeps ==
    ASSUME Nested(exec, held), Branch
    PROVE  Nested(exec', held')
<1>1. /\ exec # <<>> /\ ~ Ended /\ Operation.kind \in Control /\ held' = held
  BY DEF Branch, Running
<1>2. Inner.next <= Len(Inner.plan) /\ Operation = Inner.plan[Inner.next] /\ Placed(held)
  BY <1>1, InnerPerforms DEF Ended, Operation, Nested
<1>3. After(held, Operation) = held
  BY <1>1 DEF After, Control
<1>8. \A d : Performs(exec[Len(exec)], d, held) => Performs(Further, d, After(held, Operation))
  BY <1>1, <1>2, AdvancedIs, PerformsNext, InnerPerforms
<1>4. \A d : Performs(exec[Len(exec)], d, held) => Performs(Further, d, held)
  BY <1>3, <1>8
<1>5. ASSUME exec' = Advanced(exec) PROVE Nested(exec', held)
  <2>1. Nested([exec EXCEPT ![Len(exec)] = Further], held)
    BY <1>1, <1>2, <1>4, AdvancedIs, NestedTop
  <2> QED BY <1>1, <1>5, <2>1, AdvancedIs
<1> DEFINE y(b) == [plan |-> Operation.bodies[b], next |-> 1,
                    kind |-> Operation.kind, entry |-> held]
<1>6. ASSUME NEW b \in 1..Len(Operation.bodies), exec' = Append(Advanced(exec), y(b))
      PROVE  Nested(exec', held)
  <2>1. y(b).kind = Operation.kind /\ y(b).entry = held
    OBVIOUS
  <2>2. ASSUME NEW d, Performs(exec[Len(exec)], d, held)
        PROVE  Performs(y(b), Allowed(Operation.kind, d), held)
    <3>1. Performs(Inner, d, held)
      BY <2>2 DEF Inner
    <3> QED BY <1>1, <1>2, <3>1, PerformsBody
  <2> DEFINE z == y(b)
  <2>3. /\ z.kind \in Control /\ z.entry = held
        /\ \A d : Performs(exec[Len(exec)], d, held) =>
               Performs(Further, d, held) /\ Performs(z, Allowed(z.kind, d), held)
    BY <1>1, <1>4, <2>1, <2>2
  <2> HIDE DEF z
  <2>4. Nested(Append([exec EXCEPT ![Len(exec)] = Further], z), held)
    BY <1>1, <2>3, AdvancedIs, NestedPush
  <2> QED BY <1>1, <1>6, <2>4, AdvancedIs DEF z
<1>7. exec' = Advanced(exec) \/ \E b \in 1..Len(Operation.bodies) : exec' = Append(Advanced(exec), y(b))
  BY DEF Branch
<1> QED BY <1>1, <1>5, <1>6, <1>7

(* Where a body ends the qubits are where they were as it was entered. *)
LEMMA ReturnsNeutral ==
    ASSUME Nested(exec, held), exec # <<>>, Ended, Len(exec) > 1, ExitsAreDirect
    PROVE  held = exec[Len(exec)].entry
<1>1. /\ Len(exec) \in Nat /\ Inner = exec[Len(exec)]
      /\ Inner.next > Len(Inner.plan)
  BY InnerPerforms DEF Ended
<1>2. Len(exec) \in 2..Len(exec)
  BY <1>1
<1>3. Inner.kind # "main"
  BY <1>1, <1>2 DEF Nested, Control
<1>4. PICK c : Performs(Inner, c, held)
  BY InnerPerforms
<1> QED BY <1>1, <1>3, <1>4, PerformsEnded

(* A body ends. *)
LEMMA ReturnKeeps ==
    ASSUME Nested(exec, held), Return
    PROVE  Nested(exec', held')
<1>1. exec # <<>> /\ Ended /\ Len(exec) > 1 /\ held' = held
  BY DEF Return, Running
<1>2. Len(exec) \in Nat /\ Sequence(exec) /\ Placed(held) /\ Inner = exec[Len(exec)] /\ DOMAIN Inner = Controls
  BY <1>1, InnerPerforms DEF Nested
<1>3. ExitsAreDirect => held = exec[Len(exec)].entry
  BY <1>1, ReturnsNeutral
<1>4. ASSUME exec' = Front(exec) PROVE Nested(exec', held)
  <2> DEFINE n == Len(exec) - 1
  <2>1. n \in 1..Len(exec) /\ n + 1 = Len(exec)
    BY <1>1, <1>2
  <2>2. exec' = SubSeq(exec, 1, n)
    BY <1>4 DEF Front
  <2> HIDE DEF n
  <2>3. ExitsAreDirect => n = Len(exec) \/ held = exec[n + 1].entry
    BY <1>3, <2>1
  <2>4. Nested(SubSeq(exec, 1, n), held)
    BY <1>1, <2>1, <2>3, NestedPrefix
  <2> QED BY <2>2, <2>4
<1>5. ASSUME Inner.kind = "loop", exec' = [exec EXCEPT ![Len(exec)].next = 1] PROVE Nested(exec', held)
  <2> DEFINE y == [Inner EXCEPT !.next = 1]
  <2>1. Turned(Inner, y, 1)
    BY <1>2, TurnedIs
  <2>2. exec' = [exec EXCEPT ![Len(exec)] = y]
    BY <1>2, <1>5
  <2> HIDE DEF y
  <2>3. y.kind = exec[Len(exec)].kind /\ y.entry = exec[Len(exec)].entry
    BY <1>2, <2>1 DEF Turned
  <2>4. \A c : Performs(exec[Len(exec)], c, held) => Performs(y, c, held)
    <3> TAKE c
    <3>1. Inner.kind # "main" /\ (ExitsAreDirect => held = Inner.entry)
      BY <1>2, <1>3, <1>5
    <3> QED BY <1>2, <2>1, <3>1, PerformsElsewhere
  <2>5. Nested([exec EXCEPT ![Len(exec)] = y], held)
    BY <1>1, <1>2, <2>3, <2>4, NestedTop
  <2> QED BY <2>2, <2>5
<1> QED BY <1>1, <1>4, <1>5 DEF Return

(* The kinds of body a transfer leaves, and the frame it finds. *)
Leaves(kind) == IF kind = "break" THEN {"loop", "switch"} ELSE {"loop"}
Target == Max({i \in 1..Len(exec) : exec[i].kind \in Leaves(Operation.kind)})

(* A transfer has its target, and with direct exits it stands in its body, *)
(* whose layout is restored.                                               *)
LEMMA TargetIs ==
    ASSUME Nested(exec, held), exec # <<>>, ~ Ended, Operation.kind \in Transfers
    PROVE  /\ Target \in 2..Len(exec) /\ exec[Target].kind \in {"loop", "switch"}
           /\ exec[Target].kind \in Leaves(Operation.kind)
           /\ ExitsAreDirect => Target = Len(exec) /\ held = exec[Target].entry
<1> DEFINE S == {i \in 1..Len(exec) : exec[i].kind \in Leaves(Operation.kind)}
           m == Len(exec)
<1>1. /\ m \in Nat \ {0} /\ m \in 1..m /\ Inner = exec[m]
      /\ Inner.next <= Len(Inner.plan) /\ Operation = Inner.plan[Inner.next]
  BY InnerPerforms DEF Ended, Operation
<1>2. PICK c : /\ Permits(exec, c)
               /\ \A n \in 1..Len(exec) : Performs(exec[n], c[n], Here(exec, held, n))
  BY DEF Nested
<1>3. Performs(Inner, c[m], held)
  BY <1>1, <1>2 DEF Here
<1>4. Operation.kind \in c[m]
  BY <1>1, <1>3, PerformsFits
<1>5. Operation.kind = "break" \/ Operation.kind = "continue"
  BY DEF Transfers
<1>6. \E i \in 1..m : exec[i].kind \in Leaves(Operation.kind)
  BY <1>1, <1>2, <1>4, <1>5 DEF Permits, Leaves
<1>7. S # {} /\ S \in SUBSET (1..m)
  BY <1>6
<1>8. Max(S) \in S /\ \A i \in S : i <= Max(S)
  BY <1>1, <1>7, MaxIs
<1>9. Target = Max(S)
  BY DEF Target
<1>10. exec[Target].kind \in Leaves(Operation.kind) /\ Target \in 1..m
  BY <1>8, <1>9
<1>11. exec[Target].kind \in {"loop", "switch"}
  BY <1>10 DEF Leaves
<1>12. exec[1].kind = "main"
  BY <1>1 DEF Nested
<1>13. Target # 1
  BY <1>11, <1>12
<1>14. Target \in 2..m
  BY <1>1, <1>10, <1>13
<1>15. ASSUME ExitsAreDirect PROVE Target = m /\ held = exec[Target].entry
  <2>1. m \in 2..m
    BY <1>1, <1>14
  <2>2. Inner.kind \in Control /\ Inner.kind # "main"
    BY <1>1, <2>1 DEF Nested, Control
  <2>3. held = Inner.entry /\ Operation.kind \in Allowed(Inner.kind, {})
    BY <1>1, <1>3, <1>15, <2>2, PerformsTransfer
  <2>4. Inner.kind \in Leaves(Operation.kind)
    BY <1>5, <2>3 DEF Allowed, Leaves
  <2>5. m \in S
    BY <1>1, <2>4
  <2>6. m <= Target
    BY <1>8, <1>9, <2>5
  <2>7. Target = m
    BY <1>1, <1>14, <2>6
  <2> QED BY <1>1, <2>3, <2>7
<1> QED BY <1>10, <1>11, <1>14, <1>15

(* What a transfer does. *)
LEMMA JumpIs ==
    ASSUME Jump
    PROVE  /\ exec # <<>> /\ ~ Ended /\ Operation.kind \in Transfers /\ held' = held
           /\ exec' = IF Operation.kind = "break" THEN SubSeq(exec, 1, Target - 1)
                      ELSE [SubSeq(exec, 1, Target) EXCEPT ![Target].next = Len(exec[Target].plan) + 1]
BY DEF Jump, Running, Target, Leaves

(* A transfer leaves its bodies. *)
LEMMA JumpKeeps ==
    ASSUME Nested(exec, held), Jump
    PROVE  Nested(exec', held')
<1> DEFINE n == Target
           m == Len(exec)
<1>1. /\ exec # <<>> /\ ~ Ended /\ Operation.kind \in Transfers /\ held' = held
      /\ exec' = IF Operation.kind = "break" THEN SubSeq(exec, 1, n - 1)
                 ELSE [SubSeq(exec, 1, n) EXCEPT ![n].next = Len(exec[n].plan) + 1]
  BY JumpIs
<1>2. /\ n \in 2..m /\ exec[n].kind \in {"loop", "switch"}
      /\ ExitsAreDirect => n = m /\ held = exec[n].entry
  BY <1>1, TargetIs
<1>3. m \in Nat \ {0} /\ Placed(held)
  BY <1>1, InnerPerforms DEF Nested
<1> HIDE DEF n
<1>4. n - 1 \in 1..m /\ (n - 1) + 1 = n /\ n \in 1..m
  BY <1>2, <1>3
<1>5. CASE Operation.kind = "break"
  <2>1. Nested(SubSeq(exec, 1, n - 1), held)
    BY <1>1, <1>2, <1>4, NestedPrefix
  <2> QED BY <1>1, <1>5, <2>1
<1>6. CASE Operation.kind # "break"
  <2> DEFINE s == SubSeq(exec, 1, n)
             y == [exec[n] EXCEPT !.next = Len(exec[n].plan) + 1]
  <2>1. Nested(s, held) /\ Len(s) = n /\ s # <<>> /\ s[n] = exec[n]
    BY <1>1, <1>2, <1>4, NestedPrefix
  <2>2. DOMAIN exec[n] = Controls
    BY <1>4, FramesCount
  <2>3. Turned(exec[n], y, Len(exec[n].plan) + 1)
    BY <2>2, TurnedIs
  <2>4. exec' = [s EXCEPT ![n].next = Len(exec[n].plan) + 1]
    BY <1>1, <1>6
  <2> HIDE DEF s
  <2>5. exec' = [s EXCEPT ![Len(s)] = y]
    BY <2>1, <2>4
  <2> HIDE DEF y
  <2>6. y.kind = s[Len(s)].kind /\ y.entry = s[Len(s)].entry
    BY <2>1, <2>3 DEF Turned
  <2>7. ASSUME NEW c, Performs(s[Len(s)], c, held) PROVE Performs(y, c, held)
    <3>1. Performs(exec[n], c, held) /\ exec[n].kind # "main" /\ (ExitsAreDirect => held = exec[n].entry)
      BY <1>2, <2>1, <2>7
    <3> QED BY <2>3, <3>1, PerformsElsewhere
  <2>8. Nested([s EXCEPT ![Len(s)] = y], held)
    BY <1>3, <2>1, <2>6, <2>7, NestedTop
  <2> QED BY <1>1, <2>5, <2>8
<1> QED BY <1>5, <1>6

-----------------------------------------------------------------------------
(* The inductive invariant *)

(* Either the circuit is routed, frame by frame, or it is run. *)
Inductive ==
    /\ Stacked(stack) /\ Placed(held)
    /\ stack # <<>> => exec = <<>>
    /\ exec # <<>> => Nested(exec, held)

(* Every step keeps the invariant. *)
LEMMA StepKeeps == ASSUME Inductive, [Next]_vars PROVE Inductive'
<1>1. Stacked(stack) /\ Placed(held) /\ (stack # <<>> => exec = <<>>) /\ (exec # <<>> => Nested(exec, held))
  BY DEF Inductive
<1>2. ASSUME Routing, Stacked(stack') PROVE Inductive'
  BY <1>1, <1>2 DEF Inductive, Routing
<1>3. ASSUME exec # <<>>, Nested(exec', held'), UNCHANGED stack PROVE Inductive'
  <2>1. stack = <<>>
    BY <1>1, <1>3
  <2>2. Placed(held')
    BY <1>3 DEF Nested
  <2> QED BY <1>1, <1>3, <2>1, <2>2 DEF Inductive
<1>4. CASE Wait
  BY <1>1, <1>2, <1>4, WaitKeeps DEF Wait
<1>5. CASE Emit
  BY <1>1, <1>2, <1>5, EmitKeeps DEF Emit
<1>6. CASE EnterBody
  BY <1>1, <1>2, <1>6, EnterBodyKeeps DEF EnterBody
<1>7. CASE CloseFlow
  BY <1>1, <1>2, <1>7, CloseFlowKeeps DEF CloseFlow
<1>8. CASE Seek
  BY <1>1, <1>2, <1>8, SeekKeeps DEF Seek
<1>9. CASE TrySwap
  BY <1>1, <1>2, <1>9, TrySwapKeeps DEF TrySwap
<1>10. CASE GiveUp
  BY <1>1, <1>2, <1>10, GiveUpKeeps DEF GiveUp
<1>11. CASE ForceSwap
  BY <1>1, <1>2, <1>11, ForceSwapKeeps DEF ForceSwap
<1>12. CASE Forced
  BY <1>1, <1>2, <1>12, ForcedKeeps DEF Forced
<1>13. CASE LeaveBody
  BY <1>1, <1>2, <1>13, LeaveBodyKeeps DEF LeaveBody
<1>14. CASE Finish
  <2>1. PICK M : Leads(Top.plan, Top.entry, M, {})
    BY <1>1, <1>14, FinishLeads
  <2>2. Placed(Top.entry) /\ Stacked(stack')
    BY <1>1, <1>14, FinishLeads
  <2>3. /\ exec' = <<[plan |-> Top.plan, next |-> 1, kind |-> "main", entry |-> Top.entry]>>
        /\ held' = Top.entry /\ stack' = <<>>
    BY <1>14 DEF Finish
  <2>4. Nested(exec', held')
    BY <2>1, <2>3, NestedStart
  <2> QED BY <2>2, <2>3, <2>4 DEF Inductive
<1>15. CASE Run
  <2>1. exec # <<>> /\ UNCHANGED stack
    BY <1>15 DEF Run, Running
  <2> QED BY <1>1, <1>3, <1>15, <2>1, RunKeeps
<1>16. CASE Branch
  <2>1. exec # <<>> /\ UNCHANGED stack
    BY <1>16 DEF Branch, Running
  <2> QED BY <1>1, <1>3, <1>16, <2>1, BranchKeeps
<1>17. CASE Return
  <2>1. exec # <<>> /\ UNCHANGED stack
    BY <1>17 DEF Return, Running
  <2> QED BY <1>1, <1>3, <1>17, <2>1, ReturnKeeps
<1>18. CASE Jump
  <2>1. exec # <<>> /\ UNCHANGED stack
    BY <1>18 DEF Jump, Running
  <2> QED BY <1>1, <1>3, <1>18, <2>1, JumpKeeps
<1>19. CASE UNCHANGED vars
  BY <1>1, <1>19 DEF vars, Inductive
<1> QED BY <1>4, <1>5, <1>6, <1>7, <1>8, <1>9, <1>10, <1>11, <1>12, <1>13, <1>14, <1>15, <1>16,
           <1>17, <1>18, <1>19 DEF Next, Route

(* It holds initially. *)
LEMMA StartKeeps == Init => Inductive
<1> SUFFICES ASSUME Init PROVE Inductive
  OBVIOUS
<1>1. PICK L \in Layouts : stack = <<Frame(Main, L)>> /\ held = L
  BY DEF Init
<1>2. exec = <<>>
  BY DEF Init
<1>3. Stacked(stack) /\ Placed(held)
  BY <1>1, StackStarts
<1> QED BY <1>2, <1>3 DEF Inductive

(* What the runs check. *)
LEMMA InductiveTyped == Inductive => TypeOK
<1> SUFFICES ASSUME Inductive PROVE TypeOK
  OBVIOUS
<1>1. \A n \in 1..Len(stack) : Good(stack[n])
  BY DEF Inductive, Stacked
<1>2. held \in [Logical -> Physical]
  BY DEF Inductive, Placed
<1> QED BY <1>1, <1>2, GoodTyped DEF TypeOK

(* Where exits are direct, operands are where the layout has them. *)
LEMMA InductiveInPlace == ASSUME ExitsAreDirect, Inductive PROVE OperandsInPlace
<1> SUFFICES ASSUME exec # <<>>, ~ Ended
             PROVE  /\ \A j \in 1..Len(Operation.wires) :
                          Operation.kind \notin Control => Operation.at[j] = held[Operation.wires[j]]
                    /\ Len(Operation.at) = 2 /\ Operation.kind \in {"gate", "swap"} => Adjacent(Operation.at)
  BY DEF OperandsInPlace
<1>1. Nested(exec, held)
  BY DEF Inductive
<1>2. PICK c : Performs(Inner, c, held)
  BY <1>1, InnerPerforms
<1>3. Inner.next <= Len(Inner.plan) /\ Operation = Inner.plan[Inner.next]
  BY <1>1, InnerPerforms DEF Ended, Operation
<1>4. Fits(Operation, held, c)
  BY <1>2, <1>3, PerformsFits
<1> QED BY <1>4 DEF Fits

(* What BodiesAreNeutral says of a step. *)
StepIsNeutral ==
    \A n \in 2..Len(exec) :
        n > Len(exec') \/ exec'[n].next < exec[n].next => held' = exec[n].entry

(* Control only moves on in a body that goes on. *)
LEMMA GoesOn ==
    ASSUME Nested(exec, held), exec # <<>>, NEW s,
           \/ s = Advanced(exec)
           \/ \E y : s = Append(Advanced(exec), y)
    PROVE  \A n \in 2..Len(exec) : n <= Len(s) /\ exec[n].next <= s[n].next
<1> DEFINE m == Len(exec)
           t == [exec EXCEPT ![m] = Further]
<1>1. /\ m \in Nat \ {0} /\ m \in 1..m /\ Sequence(exec) /\ Inner = exec[m]
      /\ Advanced(exec) = t /\ Further.next = Inner.next + 1
  BY InnerPerforms, AdvancedIs DEF Turned
<1>2. Sequence(t) /\ Len(t) = m /\ t[m] = Further /\ \A n \in 1..m : n # m => t[n] = exec[n]
  <2>1. m \in 1..Len(exec) /\ Sequence(exec)
    BY <1>1
  <2> DEFINE z == Further
  <2> HIDE DEF z
  <2>2. /\ Sequence([exec EXCEPT ![m] = z]) /\ Len([exec EXCEPT ![m] = z]) = Len(exec)
        /\ [exec EXCEPT ![m] = z][m] = z
        /\ \A i \in 1..Len(exec) : i # m => [exec EXCEPT ![m] = z][i] = exec[i]
    <3> HIDE DEF m
    <3> QED BY <2>1, ReplacedSequence
  <2> QED BY <2>2 DEF z
<1> HIDE DEF t
<1>3. \A n \in 1..m : exec[n].next \in Nat
  BY FramesCount
<1>4. \A n \in 1..m : exec[n].next <= t[n].next
  <2> TAKE n \in 1..m
  <2>1. exec[n].next \in Nat
    BY <1>3
  <2>2. CASE n = m
    <3>1. t[n].next = exec[n].next + 1
      BY <1>1, <1>2, <2>2
    <3> QED BY <2>1, <3>1
  <2>3. CASE n # m
    <3>1. t[n].next = exec[n].next
      BY <1>2, <2>3
    <3> QED BY <2>1, <3>1
  <2> QED BY <2>2, <2>3
<1>5. Len(s) >= m /\ \A n \in 1..m : s[n] = t[n]
  <2>1. ASSUME s = t PROVE Len(s) >= m /\ \A n \in 1..m : s[n] = t[n]
    BY <1>1, <1>2, <2>1
  <2>2. ASSUME NEW y, s = Append(t, y) PROVE Len(s) >= m /\ \A n \in 1..m : s[n] = t[n]
    BY <1>1, <1>2, <2>2, AppendedSequence
  <2> QED BY <1>1, <2>1, <2>2
<1>6. Len(s) \in Nat
  <2>1. ASSUME s = t PROVE Len(s) \in Nat
    BY <1>1, <1>2, <2>1
  <2>2. ASSUME NEW y, s = Append(t, y) PROVE Len(s) \in Nat
    BY <1>1, <1>2, <2>2, AppendedSequence
  <2> QED BY <1>1, <2>1, <2>2
<1>7. \A n \in 2..m : n \in 1..m
  BY <1>1
<1> QED BY <1>1, <1>4, <1>5, <1>6, <1>7

(* While the block is being routed no body is left. *)
LEMMA RoutingIsNeutral == ASSUME exec = <<>> PROVE StepIsNeutral
<1>1. Len(exec) = 0
  BY EmptySequence
<1> QED BY <1>1 DEF StepIsNeutral

(* Nor by a step that only goes on. *)
LEMMA MovingIsNeutral ==
    ASSUME Nested(exec, held), exec # <<>>,
           \A n \in 2..Len(exec) : n <= Len(exec') /\ exec[n].next <= exec'[n].next,
           Sequence(exec'), \A n \in 1..Len(exec') : exec'[n].next \in Nat
    PROVE  StepIsNeutral
<1>1. \A n \in 1..Len(exec) : exec[n].next \in Nat
  BY FramesCount
<1>2. Len(exec) \in Nat /\ Len(exec') \in Nat
  BY InnerPerforms, SequenceFacts
<1>3. ASSUME NEW n \in 2..Len(exec) PROVE ~ (n > Len(exec')) /\ ~ (exec'[n].next < exec[n].next)
  <2>1. n \in 1..Len(exec) /\ n \in 1..Len(exec')
    BY <1>2
  <2>2. exec[n].next \in Nat /\ exec'[n].next \in Nat /\ exec[n].next <= exec'[n].next
    BY <1>1, <2>1
  <2>3. ~ (n > Len(exec'))
    BY <1>2
  <2>4. ~ (exec'[n].next < exec[n].next)
    BY <2>2
  <2> QED BY <2>3, <2>4
<1> QED BY <1>3 DEF StepIsNeutral

(* A body that ends leaves the layout it was entered with. *)
LEMMA ReturnIsNeutral ==
    ASSUME ExitsAreDirect, Nested(exec, held), Return
    PROVE  StepIsNeutral
<1> DEFINE m == Len(exec)
<1>1. exec # <<>> /\ Ended /\ m > 1 /\ held' = held
  BY DEF Return, Running
<1>2. held' = exec[m].entry
  BY <1>1, ReturnsNeutral
<1>3. m \in Nat /\ Sequence(exec) /\ Inner = exec[m]
  BY <1>1, InnerPerforms
<1>4. \A n \in 1..m : exec[n].next \in Nat
  BY FramesCount
<1>5. ASSUME NEW n \in 2..m, n # m PROVE n <= Len(exec') /\ exec'[n] = exec[n]
  <2>1. n \in 1..(m - 1) /\ m - 1 \in 1..m
    BY <1>1, <1>3, <1>5
  <2>2. CASE exec' = Front(exec)
    <3>1. exec' = SubSeq(exec, 1, m - 1)
      BY <2>2 DEF Front
    <3>2. /\ ExitsAreDirect => m - 1 = Len(exec) \/ held = exec[(m - 1) + 1].entry
      BY <1>1, <1>2, <1>3
    <3> DEFINE k == m - 1
    <3>3. k \in 1..Len(exec) /\ (ExitsAreDirect => k = Len(exec) \/ held = exec[k + 1].entry)
      BY <2>1, <3>2
    <3>4. exec' = SubSeq(exec, 1, k) /\ n \in 1..k
      BY <2>1, <3>1
    <3> HIDE DEF k
    <3>5. Len(exec') = k /\ \A i \in 1..k : exec'[i] = exec[i]
      BY <1>1, <3>3, <3>4, NestedPrefix
    <3> QED BY <3>3, <3>4, <3>5
  <2>3. CASE exec' = [exec EXCEPT ![m].next = 1]
    <3> DEFINE y == [exec[m] EXCEPT !.next = 1]
    <3>1. exec' = [exec EXCEPT ![m] = y]
      BY <2>3
    <3> HIDE DEF y
    <3>2. m \in 1..Len(exec) /\ n \in 1..Len(exec)
      BY <1>1, <1>3
    <3>3. Len(exec') = m /\ exec'[n] = exec[n]
      BY <1>3, <1>5, <3>1, <3>2, ReplacedSequence
    <3> QED BY <1>3, <3>3
  <2> QED BY <2>2, <2>3 DEF Return
<1>6. ASSUME NEW n \in 2..m, n > Len(exec') \/ exec'[n].next < exec[n].next
      PROVE  held' = exec[n].entry
  <2>1. CASE n = m
    BY <1>2, <2>1
  <2>2. ASSUME n # m PROVE FALSE
    <3>1. n <= Len(exec') /\ exec'[n] = exec[n]
      BY <1>5, <2>2
    <3>2. n \in 1..m
      BY <1>3
    <3>3. exec[n].next \in Nat
      BY <1>4, <3>2
    <3>4. ~ (exec'[n].next < exec[n].next)
      BY <3>1, <3>3
    <3>5. Len(exec') \in Nat
      <4>1. Nested(exec', held')
        BY ReturnKeeps
      <4> QED BY <4>1, SequenceFacts DEF Nested
    <3>6. ~ (n > Len(exec'))
      BY <1>3, <3>1, <3>5
    <3> QED BY <1>6, <3>4, <3>6
  <2> QED BY <2>1, <2>2
<1> QED BY <1>6 DEF StepIsNeutral

(* So does one that is left by a transfer. *)
LEMMA JumpIsNeutral ==
    ASSUME ExitsAreDirect, Nested(exec, held), Jump
    PROVE  StepIsNeutral
<1> DEFINE m == Len(exec)
<1>1. /\ exec # <<>> /\ ~ Ended /\ Operation.kind \in Transfers /\ held' = held
      /\ exec' = IF Operation.kind = "break" THEN SubSeq(exec, 1, Target - 1)
                 ELSE [SubSeq(exec, 1, Target) EXCEPT ![Target].next = Len(exec[Target].plan) + 1]
  BY JumpIs
<1>2. m \in 2..m /\ Target = m /\ held' = exec[m].entry
  BY <1>1, TargetIs
<1>3. m \in Nat /\ Sequence(exec)
  BY <1>1, InnerPerforms
<1>4. \A n \in 1..m : exec[n].next \in Nat
  BY FramesCount
<1>5. Nested(exec', held')
  BY JumpKeeps
<1>6. ASSUME NEW n \in 2..m, n # m PROVE n <= Len(exec') /\ exec'[n] = exec[n]
  <2> DEFINE k == m - 1
  <2>1. n \in 1..k /\ k \in 1..m /\ k + 1 = m /\ n \in 1..m /\ m \in 1..m
    BY <1>3, <1>6
  <2>2. CASE Operation.kind = "break"
    <3>1. exec' = SubSeq(exec, 1, k)
      BY <1>1, <1>2, <2>2
    <3> HIDE DEF k
    <3>2. ExitsAreDirect => k = Len(exec) \/ held = exec[k + 1].entry
      BY <1>1, <1>2, <2>1
    <3>3. k \in 1..Len(exec) /\ n \in 1..k
      BY <2>1
    <3>4. Len(SubSeq(exec, 1, k)) = k /\ \A i \in 1..k : SubSeq(exec, 1, k)[i] = exec[i]
      BY <1>1, <3>2, <3>3, NestedPrefix
    <3>5. k \in Nat
      BY <1>3, <3>3
    <3> QED BY <3>1, <3>3, <3>4, <3>5
  <2>3. CASE Operation.kind # "break"
    <3> DEFINE s == SubSeq(exec, 1, m)
    <3>1. Nested(s, held) /\ Len(s) = m /\ \A i \in 1..m : s[i] = exec[i]
      BY <1>1, <2>1, NestedPrefix
    <3>2. exec' = [s EXCEPT ![m].next = Len(exec[m].plan) + 1]
      BY <1>1, <1>2, <2>3
    <3> HIDE DEF s
    <3> DEFINE y == [s[m] EXCEPT !.next = Len(exec[m].plan) + 1]
    <3>3. exec' = [s EXCEPT ![m] = y]
      BY <3>2
    <3> HIDE DEF y
    <3>4. Sequence(s)
      BY <3>1 DEF Nested
    <3>5. Len(exec') = m /\ exec'[n] = s[n]
      BY <1>6, <2>1, <3>1, <3>3, <3>4, ReplacedSequence
    <3> QED BY <1>3, <2>1, <3>1, <3>5
  <2> QED BY <2>2, <2>3
<1>7. ASSUME NEW n \in 2..m, n > Len(exec') \/ exec'[n].next < exec[n].next
      PROVE  held' = exec[n].entry
  <2>1. CASE n = m
    BY <1>2, <2>1
  <2>2. ASSUME n # m PROVE FALSE
    <3>1. n <= Len(exec') /\ exec'[n] = exec[n]
      BY <1>6, <2>2
    <3>2. n \in 1..m
      BY <1>3
    <3>3. exec[n].next \in Nat /\ Len(exec') \in Nat
      BY <1>4, <1>5, <3>2, SequenceFacts DEF Nested
    <3>4. ~ (exec'[n].next < exec[n].next) /\ ~ (n > Len(exec'))
      BY <1>3, <3>1, <3>3
    <3> QED BY <1>7, <3>4
  <2> QED BY <2>1, <2>2
<1> QED BY <1>7 DEF StepIsNeutral

(* So does every step. *)
LEMMA NextIsNeutral ==
    ASSUME ExitsAreDirect, Inductive, [Next]_vars
    PROVE  [StepIsNeutral]_vars
<1> SUFFICES ASSUME vars' # vars PROVE StepIsNeutral
  OBVIOUS
<1>1. Next /\ Inductive'
  BY StepKeeps
<1>2. CASE exec = <<>>
  BY <1>2, RoutingIsNeutral
<1>3. CASE exec # <<>>
  <2>1. Nested(exec, held) /\ stack = <<>>
    BY <1>3 DEF Inductive
  <2>2. ~ Route
    <3>1. ~ Finish
      BY <2>1, EmptySequence DEF Finish
    <3>2. ~ Routing
      BY <2>1 DEF Routing
    <3> QED BY <3>1, <3>2 DEF Route, Wait, Emit, EnterBody, CloseFlow, Seek, TrySwap, GiveUp,
                              ForceSwap, Forced, LeaveBody
  <2>3. ASSUME NEW n \in 1..Len(exec'), Nested(exec', held') PROVE exec'[n].next \in Nat
    BY <2>3, FramesCount
  <2>4. CASE Run
    <3>1. exec' = Advanced(exec)
      BY <2>4 DEF Run
    <3>2. \A n \in 2..Len(exec) : n <= Len(exec') /\ exec[n].next <= exec'[n].next
      BY <1>3, <2>1, <3>1, GoesOn
    <3>3. Nested(exec', held')
      BY <2>1, <2>4, RunKeeps
    <3>4. Sequence(exec') /\ \A n \in 1..Len(exec') : exec'[n].next \in Nat
      BY <2>3, <3>3 DEF Nested
    <3> QED BY <1>3, <2>1, <3>2, <3>4, MovingIsNeutral
  <2>5. CASE Branch
    <3>1. exec' = Advanced(exec) \/ \E y : exec' = Append(Advanced(exec), y)
      BY <2>5 DEF Branch
    <3>2. \A n \in 2..Len(exec) : n <= Len(exec') /\ exec[n].next <= exec'[n].next
      BY <1>3, <2>1, <3>1, GoesOn
    <3>3. Nested(exec', held')
      BY <2>1, <2>5, BranchKeeps
    <3>4. Sequence(exec') /\ \A n \in 1..Len(exec') : exec'[n].next \in Nat
      BY <2>3, <3>3 DEF Nested
    <3> QED BY <1>3, <2>1, <3>2, <3>4, MovingIsNeutral
  <2>6. CASE Return
    BY <2>1, <2>6, ReturnIsNeutral
  <2>7. CASE Jump
    BY <2>1, <2>7, JumpIsNeutral
  <2> QED BY <1>1, <2>2, <2>4, <2>5, <2>6, <2>7 DEF Next
<1> QED BY <1>2, <1>3

-----------------------------------------------------------------------------
(* Always *)

(* Frames stay good through every step of route_trial_with_metadata, and   *)
(* the execution of the result stays where its layouts say.                *)
THEOREM RoutingInductive == Spec => []Inductive
BY StartKeeps, StepKeeps, PTL DEF Spec

(* Layouts stay one-to-one, the pairs of the front layer are cached where  *)
(* the layout has them, and a search is bounded (RoutingState), always.    *)
THEOREM RoutingTyped == Spec => []TypeOK
BY RoutingInductive, InductiveTyped, PTL

(* What update_route has emitted for a routed block holds every operation  *)
(* of it once, in the order its dependencies ask for, always.              *)
THEOREM RoutingOrdered == Spec => []RoutedOnceInOrder
<1>1. Inductive => RoutedOnceInOrder
  BY StackedInOrder DEF Inductive
<1> QED BY <1>1, RoutingInductive, PTL

(* Where transfers leave the body they stand in, every operation of the    *)
(* routed circuit acts on the physical qubits that hold its logical ones,  *)
(* and pairs are adjacent, whichever branches are taken.  The hypothesis   *)
(* is needed: route_control_flow_body restores the layout at the end of    *)
(* the body, and a break out of an enclosing body passes over that end.    *)
THEOREM RoutingInPlace == ASSUME ExitsAreDirect PROVE Spec => []OperandsInPlace
<1>1. Inductive => OperandsInPlace
  BY InductiveInPlace
<1> QED BY <1>1, RoutingInductive, PTL

(* Under the same hypothesis every body of control flow, however it is     *)
(* left, gives back the layout it was entered with                         *)
(* (route_control_flow_body).                                              *)
THEOREM RoutingNeutral == ASSUME ExitsAreDirect PROVE Spec => BodiesAreNeutral
<1>1. Inductive /\ [Next]_vars => [StepIsNeutral]_vars
  BY NextIsNeutral
<1>2. BodiesAreNeutral <=> [][StepIsNeutral]_vars
  BY DEF BodiesAreNeutral, StepIsNeutral
<1> QED BY <1>1, <1>2, RoutingInductive, PTL DEF Spec
-----------------------------------------------------------------------------
(* Outputs of the compiled circuit.  VirtualPermutation takes routing by   *)
(* what is proved above of it.                                             *)

OneToOne(f) == \A a, b \in DOMAIN f : f[a] = f[b] => a = b

(* f is an account of the places A. *)
AccountOf(f, A) == f = [x \in A |-> f[x]]

(* What f has on a place, g has where m takes it. *)
Agree(f, g, m) == \A x \in DOMAIN m : f[x] = g[m[x]]

(* So do the accounts of two circuits, which have read the same. *)
Matches(f, g, m) == Agree(f.held, g.held, m) /\ f.read = g.read

(* What the elision passes on.                                             *)
Kept == [gate : {op.gate : op \in Operations}, qubits : Seq(Qubits),
         label : {op.label : op \in Operations}, body : Seq(Qubits)]

ElisionShape ==
    /\ circuit \in Seq(Operations)
    /\ reached \in Nat \ {0}
    /\ perm \in [Qubits -> Qubits] /\ OneToOne(perm)
    /\ HasControlFlow(circuit) => perm = [q \in Qubits |-> q]
    /\ rewritten \in Seq(Kept)
    /\ \A i \in 1..Len(rewritten) :
         rewritten[i].gate = "SWAP" =>
            Len(rewritten[i].qubits) = 2 /\ rewritten[i].qubits[1] # rewritten[i].qubits[2]
    /\ AccountOf(ideal.held, Qubits)
    /\ \A i \in 0..Len(rewritten) : AccountOf(trace[i].held, Wires)

(* The history of rewritten is that of its operations. *)
TraceIsRun ==
    /\ trace[0] = [held |-> [w \in Wires |-> w], read |-> <<>>]
    /\ \A i \in 1..Len(rewritten) :
         trace[i] = Performed(rewritten[i].gate, Operands(rewritten[i]), trace[i - 1])

(* What the circuit has on q so far, rewritten has on the wire of q. *)
Redirected == Matches(ideal, trace[Len(rewritten)], perm)

(* What rewritten has on a wire so far, the device has where the wire is. *)
Carried ==
    phase # "Elide" =>
        /\ reached \in 1..(Len(rewritten) + 1)
        /\ placement \in [Wires -> DeviceQubits] /\ OneToOne(placement)
        /\ AccountOf(device.held, DeviceQubits)
        /\ Matches(trace[reached - 1], device, placement)

Composed ==
    phase = "Done" => reached = Len(rewritten) + 1 /\ final = Compose

OInv == ElisionShape /\ TraceIsRun /\ Redirected /\ Carried /\ Composed

-----------------------------------------------------------------------------
(* Operands an operation may have. *)
OperandsOf(gate, w) == gate = "SWAP" => Len(w) = 2 /\ w[1] # w[2]

(* Operands w read the same in f as, taken by m, in g. *)
ReadAlike(f, g, m, w) == Places(f, w) = Places(g, Places(m, w))

(* Both have the same on the places an operation acts on. *)
LEMMA PlacesAgree ==
    ASSUME NEW A, NEW B, NEW m \in [A -> B], NEW f, NEW g, Agree(f, g, m), NEW w \in Seq(A)
    PROVE  ReadAlike(f, g, m, w)
  <1> DEFINE v == Places(m, w)
  <1>1. DOMAIN v = DOMAIN w /\ \A i \in DOMAIN w : f[w[i]] = g[v[i]]
    BY DEF Places, Agree
  <1> HIDE DEF v
  <1>2. Places(f, w) = Places(g, v)
    BY <1>1 DEF Places
  <1> QED BY <1>2 DEF v, ReadAlike

(* An operation keeps two accounts in agreement, one kept on the places A  *)
(* and one on the places B, when a one-to-one map m takes A into B.        *)
LEMMA AppliedAgrees ==
    ASSUME NEW A, NEW B, NEW m \in [A -> B], OneToOne(m),
           NEW f, AccountOf(f, A), NEW g, AccountOf(g, B), Agree(f, g, m),
           NEW w \in Seq(A), NEW gate, OperandsOf(gate, w)
    PROVE  /\ AccountOf(Applied(gate, w, f), A)
           /\ AccountOf(Applied(gate, Places(m, w), g), B)
           /\ Agree(Applied(gate, w, f), Applied(gate, Places(m, w), g), m)
  <1> DEFINE v == Places(m, w)
  <1>1. f = [x \in A |-> f[x]] /\ g = [y \in B |-> g[y]] /\ DOMAIN f = A /\ DOMAIN g = B
    BY DEF AccountOf
  <1>0. \A x \in A : f[x] = g[m[x]]
    BY DEF Agree
  <1>2. DOMAIN w = 1..Len(w) /\ \A i \in DOMAIN w : w[i] \in A
    OBVIOUS
  <1>3. DOMAIN v = DOMAIN w /\ \A i \in DOMAIN w : v[i] = m[w[i]] /\ v[i] \in B
    BY <1>2 DEF Places
  <1>4. Places(f, w) = Places(g, v)
    <2>1. ReadAlike(f, g, m, w)
      BY PlacesAgree
    <2> QED BY <2>1 DEF ReadAlike
  <1>5. CASE gate = "SWAP"
    <2>1. w[1] \in A /\ w[2] \in A /\ v[1] = m[w[1]] /\ v[2] = m[w[2]]
      BY <1>2, <1>3, <1>5 DEF OperandsOf
    <2>2. Applied(gate, w, f) = Exchanged(f, w[1], w[2])
          /\ Applied(gate, v, g) = Exchanged(g, v[1], v[2])
      BY <1>5 DEF Applied
    <2>3. Exchanged(f, w[1], w[2])
            = [x \in A |-> IF x = w[2] THEN f[w[1]] ELSE IF x = w[1] THEN f[w[2]] ELSE f[x]]
      BY <1>1, <1>5, <2>1 DEF Exchanged, OperandsOf
    <2>4. Exchanged(g, v[1], v[2])
            = [y \in B |-> IF y = v[2] THEN g[v[1]] ELSE IF y = v[1] THEN g[v[2]] ELSE g[y]]
      BY <1>1, <1>5, <1>3, <2>1 DEF Exchanged, OperandsOf
    <2>5. \A x \in A : Exchanged(f, w[1], w[2])[x] = Exchanged(g, v[1], v[2])[m[x]]
      <3> SUFFICES ASSUME NEW x \in A
                   PROVE  Exchanged(f, w[1], w[2])[x] = Exchanged(g, v[1], v[2])[m[x]]
        OBVIOUS
      <3>1. m[x] \in B /\ f[x] = g[m[x]] /\ f[w[1]] = g[v[1]] /\ f[w[2]] = g[v[2]]
        BY <1>0, <2>1
      <3>2. (x = w[1] <=> m[x] = v[1]) /\ (x = w[2] <=> m[x] = v[2])
        BY <2>1 DEF OneToOne
      <3> HIDE DEF v
      <3> QED BY <2>3, <2>4, <3>1, <3>2
    <2> QED BY <2>2, <2>3, <2>4, <2>5 DEF AccountOf, Agree
  <1>6. CASE gate # "SWAP"
    <2> DEFINE OnF(x) == IF \E i \in DOMAIN w : w[i] = x
                         THEN <<gate, {i \in DOMAIN w : w[i] = x}, Places(f, w)>>
                         ELSE f[x]
               OnG(y) == IF \E i \in DOMAIN v : v[i] = y
                         THEN <<gate, {i \in DOMAIN v : v[i] = y}, Places(g, v)>>
                         ELSE g[y]
    <2>1. Applied(gate, w, f) = [x \in A |-> OnF(x)]
      BY <1>1, <1>6 DEF Applied
    <2>2. Applied(gate, v, g) = [y \in B |-> OnG(y)]
      BY <1>1, <1>6 DEF Applied
    <2>3. ASSUME NEW x \in A PROVE OnF(x) = OnG(m[x])
      <3>1. \A i \in DOMAIN w : w[i] = x <=> v[i] = m[x]
        BY <1>2, <1>3 DEF OneToOne
      <3>2. {i \in DOMAIN w : w[i] = x} = {i \in DOMAIN v : v[i] = m[x]}
        BY <1>3, <3>1
      <3> HIDE DEF v
      <3> QED BY <1>0, <1>3, <1>4, <3>1, <3>2
    <2>4. \A x \in A : m[x] \in B
      OBVIOUS
    <2> HIDE DEF OnF, OnG
    <2>5. AccountOf(Applied(gate, w, f), A) /\ AccountOf(Applied(gate, v, g), B)
      BY <2>1, <2>2 DEF AccountOf
    <2>6. Agree(Applied(gate, w, f), Applied(gate, v, g), m)
      BY <2>1, <2>2, <2>3, <2>4 DEF Agree
    <2> QED BY <2>5, <2>6
  <1> QED BY <1>5, <1>6

(* The same of an operation performed, with what it reads. *)
LEMMA PerformedAgrees ==
    ASSUME NEW A, NEW B, NEW m \in [A -> B], OneToOne(m),
           NEW f, AccountOf(f.held, A), NEW g, AccountOf(g.held, B),
           Matches(f, g, m),
           NEW w \in Seq(A), NEW gate, OperandsOf(gate, w)
    PROVE  /\ AccountOf(Performed(gate, w, f).held, A)
           /\ AccountOf(Performed(gate, Places(m, w), g).held, B)
           /\ Matches(Performed(gate, w, f), Performed(gate, Places(m, w), g), m)
  <1>0. Agree(f.held, g.held, m) /\ f.read = g.read
    BY DEF Matches
  <1>1. /\ AccountOf(Applied(gate, w, f.held), A)
        /\ AccountOf(Applied(gate, Places(m, w), g.held), B)
        /\ Agree(Applied(gate, w, f.held), Applied(gate, Places(m, w), g.held), m)
    BY <1>0, AppliedAgrees
  <1>3. Places(f.held, w) = Places(g.held, Places(m, w))
    <2>1. ReadAlike(f.held, g.held, m, w)
      BY <1>0, PlacesAgree
    <2> QED BY <2>1 DEF ReadAlike
  <1>2. /\ Performed(gate, w, f).held = Applied(gate, w, f.held)
        /\ Performed(gate, Places(m, w), g).held = Applied(gate, Places(m, w), g.held)
        /\ Performed(gate, w, f).read = Performed(gate, Places(m, w), g).read
    BY <1>0, <1>3 DEF Performed
  <1> QED BY <1>1, <1>2 DEF Matches

-----------------------------------------------------------------------------
(* It holds of any circuit. *)
LEMMA InitOInv == PermInit => OInv
  <1> SUFFICES ASSUME PermInit PROVE OInv
    OBVIOUS
  <1> USE DEF PermInit
  <1>1. circuit \in Seq(Operations)
    <2>1. PICK n \in 0..MaxOps : circuit \in [1..n -> Operations]
      OBVIOUS
    <2> QED BY <2>1
  <1>2. ElisionShape
    BY <1>1 DEF ElisionShape, OneToOne, Kept, AccountOf
  <1>3. Redirected
    BY DEF Redirected, Matches, Agree, Wires
  <1> QED BY <1>2, <1>3 DEF OInv, TraceIsRun, Carried, Composed

(* A SWAP that becomes part of the permutation keeps it. *)
LEMMA ElideOInv ==
    ASSUME OInv, Elide
    PROVE  OInv'
  <1> DEFINE op == circuit[reached]
             l == op.qubits[1]
             r == op.qubits[2]
  <1>1. op \in Operations /\ op.gate = "SWAP" /\ ~ HasControlFlow(circuit) /\ reached' \in Nat \ {0}
    BY DEF Elide, Elidable, OInv, ElisionShape
  <1>2. l \in Qubits /\ r \in Qubits /\ l # r
    BY <1>1, OperationsAssumption
  <1>3. /\ perm \in [Qubits -> Qubits] /\ OneToOne(perm)
        /\ AccountOf(ideal.held, Qubits) /\ Redirected
    BY DEF OInv, ElisionShape
  <1>4. perm' = [q \in Qubits |-> IF q = r THEN perm[l] ELSE IF q = l THEN perm[r] ELSE perm[q]]
    BY <1>2, <1>3 DEF Elide, SwapOutputs, Exchanged
  <1>5. /\ ideal'.held = Exchanged(ideal.held, l, r)
        /\ ideal'.read = ideal.read
    BY <1>1 DEF Elide, Performed, Applied, Operands
  <1>6. ideal'.held = [q \in Qubits |-> IF q = r THEN ideal.held[l]
                                        ELSE IF q = l THEN ideal.held[r] ELSE ideal.held[q]]
    BY <1>2, <1>3, <1>5 DEF Exchanged, AccountOf
  <1>7. UNCHANGED <<phase, circuit, rewritten, placement, final, trace, device>> /\ phase = "Elide"
    BY DEF Elide
  <1> HIDE DEF op, l, r
  <1>8. perm' \in [Qubits -> Qubits] /\ OneToOne(perm')
    BY <1>2, <1>3, <1>4 DEF OneToOne
  <1>9. AccountOf(ideal'.held, Qubits)
    BY <1>6 DEF AccountOf
  <1>10. ElisionShape'
    BY <1>1, <1>7, <1>8, <1>9 DEF OInv, ElisionShape, HasControlFlow
  <1>11. Redirected'
    BY <1>2, <1>3, <1>4, <1>5, <1>6, <1>7 DEF Redirected, Matches, Agree
  <1>12. TraceIsRun' /\ Carried' /\ Composed'
    BY <1>7 DEF OInv, TraceIsRun, Carried, Composed
  <1> QED BY <1>10, <1>11, <1>12 DEF OInv

(* So does an operation redirected through it. *)
LEMMA PreserveOInv ==
    ASSUME OInv, Preserve
    PROVE  OInv'
  <1> DEFINE op == circuit[reached]
             kept == [op EXCEPT !.qubits = Places(perm, op.qubits)]
             n == Len(rewritten)
  <1>1. op \in Operations /\ reached \in DOMAIN circuit /\ reached' \in Nat \ {0}
    BY DEF Preserve, OInv, ElisionShape
  <1>2. /\ perm \in [Qubits -> Qubits] /\ OneToOne(perm)
        /\ AccountOf(ideal.held, Qubits) /\ Redirected
        /\ rewritten \in Seq(Kept) /\ n \in Nat
        /\ AccountOf(trace[n].held, Wires)
    <2>1. /\ perm \in [Qubits -> Qubits] /\ OneToOne(perm) /\ AccountOf(ideal.held, Qubits)
          /\ rewritten \in Seq(Kept) /\ Redirected
          /\ \A i \in 0..Len(rewritten) : AccountOf(trace[i].held, Wires)
      BY DEF OInv, ElisionShape
    <2>2. n \in Nat /\ n \in 0..Len(rewritten)
      BY <2>1
    <2> QED BY <2>1, <2>2
  <1>3. /\ op.qubits \in Seq(Qubits) /\ op.body \in Seq(Qubits)
        /\ op = [gate |-> op.gate, qubits |-> op.qubits, label |-> op.label, body |-> op.body]
        /\ op.gate = "SWAP" => Len(op.qubits) = 2 /\ op.qubits[1] # op.qubits[2]
    BY <1>1, OperationsAssumption
  <1>4. kept = [gate |-> op.gate, qubits |-> Places(perm, op.qubits),
                label |-> op.label, body |-> op.body]
    BY <1>3
  <1>5. Places(perm, op.qubits) \in Seq(Qubits) /\ Len(Places(perm, op.qubits)) = Len(op.qubits)
    BY <1>2, <1>3 DEF Places
  <1>6. kept \in Kept
    BY <1>1, <1>3, <1>4, <1>5 DEF Kept
  <1>7. kept.gate = "SWAP" => Len(kept.qubits) = 2 /\ kept.qubits[1] # kept.qubits[2]
    BY <1>2, <1>3, <1>4, <1>5 DEF Places, OneToOne
  <1>8. Operands(op) \in Seq(Qubits) /\ OperandsOf(op.gate, Operands(op))
    BY <1>3 DEF Operands, OperandsOf
  <1>9. Operands(kept) = Places(perm, Operands(op))
    <2>1. CASE op.gate = "Flow"
      <3>1. perm = [q \in Qubits |-> q]
        BY <1>1, <2>1 DEF OInv, ElisionShape, HasControlFlow
      <3>2. op.body = Places(perm, op.body)
        BY <1>3, <3>1 DEF Places
      <3> QED BY <1>4, <2>1, <3>2 DEF Operands
    <2>2. CASE op.gate # "Flow"
      BY <1>4, <2>2 DEF Operands
    <2> QED BY <2>1, <2>2
  <1>10. /\ rewritten' = Append(rewritten, kept)
         /\ ideal' = Performed(op.gate, Operands(op), ideal)
         /\ trace' = [i \in 0..n + 1 |->
                        IF i <= n THEN trace[i]
                        ELSE Performed(op.gate, Operands(kept), trace[n])]
         /\ UNCHANGED <<phase, circuit, perm, placement, final, device>> /\ phase = "Elide"
    BY <1>4 DEF Preserve
  <1> HIDE DEF op, kept
  <1>11. /\ AccountOf(ideal'.held, Qubits)
         /\ AccountOf(Performed(op.gate, Operands(kept), trace[n]).held, Wires)
         /\ Matches(ideal', Performed(op.gate, Operands(kept), trace[n]), perm)
    <2>1. perm \in [Qubits -> Wires]
      BY <1>2 DEF Wires
    <2>2. Matches(ideal, trace[n], perm)
      BY <1>2 DEF Redirected
    <2> HIDE DEF n
    <2> QED BY <1>2, <1>8, <1>9, <1>10, <2>1, <2>2, PerformedAgrees
  <1>12. Len(rewritten') = n + 1 /\ rewritten' \in Seq(Kept)
         /\ rewritten'[n + 1] = kept /\ \A i \in 1..n : rewritten'[i] = rewritten[i]
    BY <1>2, <1>6, <1>10
  <1>13. /\ \A i \in 0..n : trace'[i] = trace[i]
         /\ trace'[n + 1] = Performed(op.gate, Operands(kept), trace[n])
    BY <1>2, <1>10
  <1>14. ElisionShape'
    <2>1. \A i \in 1..Len(rewritten') :
            rewritten'[i].gate = "SWAP" =>
              Len(rewritten'[i].qubits) = 2 /\ rewritten'[i].qubits[1] # rewritten'[i].qubits[2]
      <3>1. \A i \in 1..n :
              rewritten[i].gate = "SWAP" =>
                Len(rewritten[i].qubits) = 2 /\ rewritten[i].qubits[1] # rewritten[i].qubits[2]
        BY DEF OInv, ElisionShape
      <3>2. \A i \in 1..Len(rewritten') : i \in 1..n \/ i = n + 1
        BY <1>2, <1>12
      <3> QED BY <1>7, <1>12, <3>1, <3>2
    <2>2. \A i \in 0..Len(rewritten') : AccountOf(trace'[i].held, Wires)
      <3>1. n \in Nat /\ \A j \in 0..n : AccountOf(trace[j].held, Wires)
        BY <1>2 DEF OInv, ElisionShape
      <3> HIDE DEF n
      <3>2. ASSUME NEW i \in 0..Len(rewritten') PROVE AccountOf(trace'[i].held, Wires)
        <4>1. i \in 0..n \/ i = n + 1
          BY <1>12, <3>1
        <4>2. CASE i \in 0..n
          BY <1>13, <3>1, <4>2
        <4>3. CASE i = n + 1
          BY <1>11, <1>13, <4>3
        <4> QED BY <4>1, <4>2, <4>3
      <3> QED BY <3>2
    <2> QED BY <1>1, <1>2, <1>10, <1>11, <1>12, <2>1, <2>2 DEF OInv, ElisionShape, HasControlFlow
  <1>15. TraceIsRun'
    <2>1. ASSUME NEW i \in 1..Len(rewritten')
          PROVE  trace'[i] = Performed(rewritten'[i].gate, Operands(rewritten'[i]), trace'[i - 1])
      <3>1. CASE i = n + 1
        BY <1>2, <1>4, <1>12, <1>13, <3>1
      <3>2. CASE i \in 1..n
        <4>1. trace'[i] = trace[i] /\ trace'[i - 1] = trace[i - 1] /\ rewritten'[i] = rewritten[i]
          BY <1>2, <1>12, <1>13, <3>2
        <4> QED BY <3>2, <4>1 DEF OInv, TraceIsRun
      <3> QED BY <1>2, <1>12, <3>1, <3>2
    <2> QED BY <1>2, <1>13, <2>1 DEF OInv, TraceIsRun
  <1>16. Redirected'
    BY <1>10, <1>11, <1>12, <1>13 DEF Redirected
  <1> QED BY <1>10, <1>14, <1>15, <1>16 DEF OInv, Carried, Composed

(* And a placement of the wires. *)
LEMMA PlaceOInv == OInv /\ Place => OInv'
  <1> SUFFICES ASSUME OInv, Place PROVE OInv'
    OBVIOUS
  <1> USE DEF OInv
  <1>1. /\ phase' = "Route" /\ reached' = 1
        /\ placement' \in [Wires -> DeviceQubits] /\ OneToOne(placement')
        /\ UNCHANGED <<circuit, perm, rewritten, final, ideal, trace>>
    BY DEF Place, IsInjective, OneToOne
  <1>2. /\ device'.held = [p \in DeviceQubits |->
                             IF \E w \in Wires : placement'[w] = p
                             THEN CHOOSE w \in Wires : placement'[w] = p ELSE p]
        /\ device'.read = <<>>
    BY DEF Place
  <1>3. \A w \in Wires : device'.held[placement'[w]] = w
    BY <1>1, <1>2 DEF OneToOne
  <1>4. Matches(trace'[reached' - 1], device', placement')
    <2>1. trace'[reached' - 1] = trace[0] /\ DOMAIN placement' = Wires
      BY <1>1
    <2>2. trace[0].held = [w \in Wires |-> w] /\ trace[0].read = <<>>
      BY DEF TraceIsRun
    <2>3. \A w \in Wires : trace[0].held[w] = device'.held[placement'[w]]
      BY <1>3, <2>2
    <2> QED BY <1>2, <2>1, <2>2, <2>3 DEF Matches, Agree
  <1>5. AccountOf(device'.held, DeviceQubits)
    BY <1>2 DEF AccountOf
  <1>6. ElisionShape' /\ TraceIsRun' /\ Redirected' /\ Composed'
    <2>1. ElisionShape'
      BY <1>1 DEF ElisionShape, HasControlFlow
    <2> QED BY <1>1, <2>1 DEF TraceIsRun, Redirected, Composed
  <1> QED BY <1>1, <1>4, <1>5, <1>6 DEF Carried, ElisionShape

(* And an operation emitted where its wires are. *)
LEMMA EmitOInv == OInv /\ EmitOperation => OInv'
  <1> SUFFICES ASSUME OInv, EmitOperation PROVE OInv'
    OBVIOUS
  <1> DEFINE op == rewritten[reached]
             w == Operands(op)
             before == trace[reached - 1]
  <1>1. /\ phase = "Route" /\ reached \in 1..Len(rewritten) /\ reached' = reached + 1
        /\ device' = Performed(op.gate, Places(placement, w), device)
        /\ UNCHANGED <<phase, circuit, perm, rewritten, placement, final, ideal, trace>>
    BY DEF EmitOperation, OInv, ElisionShape
  <1>2. /\ placement \in [Wires -> DeviceQubits] /\ OneToOne(placement)
        /\ AccountOf(before.held, Wires) /\ AccountOf(device.held, DeviceQubits)
        /\ Matches(before, device, placement)
    BY <1>1 DEF OInv, ElisionShape, Carried
  <1>3. op \in Kept /\ (op.gate = "SWAP" => Len(op.qubits) = 2 /\ op.qubits[1] # op.qubits[2])
    BY <1>1 DEF OInv, ElisionShape
  <1>4. w \in Seq(Wires) /\ OperandsOf(op.gate, w)
    BY <1>3 DEF Kept, Operands, OperandsOf, Wires
  <1>5. trace[reached] = Performed(op.gate, w, before)
    BY <1>1 DEF OInv, TraceIsRun
  <1> HIDE DEF op, w, before
  <1>6. AccountOf(device'.held, DeviceQubits) /\ Matches(trace[reached], device', placement)
    <2>1. /\ AccountOf(Performed(op.gate, Places(placement, w), device).held, DeviceQubits)
          /\ Matches(Performed(op.gate, w, before),
                     Performed(op.gate, Places(placement, w), device), placement)
      BY <1>2, <1>4, PerformedAgrees
    <2> QED BY <1>1, <1>5, <2>1
  <1>7. trace'[reached' - 1] = trace[reached] /\ reached' \in 1..(Len(rewritten') + 1)
        /\ reached' \in Nat \ {0}
    BY <1>1 DEF OInv, ElisionShape
  <1>8. ElisionShape' /\ TraceIsRun' /\ Redirected' /\ Composed'
    BY <1>1, <1>7 DEF OInv, ElisionShape, TraceIsRun, Redirected, Composed, HasControlFlow
  <1> QED BY <1>1, <1>2, <1>6, <1>7, <1>8 DEF OInv, Carried

(* And a SWAP that moves wires. *)
LEMMA MoveOInv ==
    ASSUME NEW p \in DeviceQubits, NEW q \in DeviceQubits, p # q, OInv, Move(p, q)
    PROVE  OInv'
  <1> DEFINE before == trace[reached - 1]
  <1>1. /\ phase = "Route"
        /\ device' = [held |-> Exchanged(device.held, p, q), read |-> device.read]
        /\ placement' = [w \in Wires |->
                        IF placement[w] = p THEN q ELSE IF placement[w] = q THEN p ELSE placement[w]]
        /\ UNCHANGED <<phase, circuit, reached, perm, rewritten, final, ideal, trace>>
    BY DEF Move
  <1>2. /\ placement \in [Wires -> DeviceQubits] /\ OneToOne(placement)
        /\ AccountOf(device.held, DeviceQubits) /\ Matches(before, device, placement)
        /\ reached \in 1..(Len(rewritten) + 1)
    BY <1>1 DEF OInv, Carried
  <1>3. device'.held = [x \in DeviceQubits |-> IF x = q THEN device.held[p]
                                           ELSE IF x = p THEN device.held[q] ELSE device.held[x]]
    BY <1>1, <1>2 DEF Exchanged, AccountOf
  <1>4. placement' \in [Wires -> DeviceQubits] /\ OneToOne(placement')
    BY <1>1, <1>2 DEF OneToOne
  <1> HIDE DEF before
  <1>5. \A w \in Wires : device'.held[placement'[w]] = device.held[placement[w]]
    BY <1>1, <1>2, <1>3
  <1>6. Matches(before, device', placement') /\ AccountOf(device'.held, DeviceQubits)
    <2>1. DOMAIN placement = Wires /\ DOMAIN placement' = Wires /\ device'.read = device.read
      BY <1>1, <1>2, <1>4
    <2>2. Matches(before, device', placement')
      BY <1>2, <1>5, <2>1 DEF Matches, Agree
    <2> QED BY <1>3, <2>2 DEF AccountOf
  <1>7. ElisionShape' /\ TraceIsRun' /\ Redirected' /\ Composed'
    BY <1>1 DEF OInv, ElisionShape, TraceIsRun, Redirected, Composed, HasControlFlow
  <1> QED BY <1>1, <1>2, <1>4, <1>6, <1>7 DEF OInv, Carried, before

(* And the composed layout. *)
LEMMA FinishOInv == OInv /\ Report => OInv'
  <1> SUFFICES ASSUME OInv, Report PROVE OInv'
    OBVIOUS
  <1>1. /\ phase = "Route" /\ phase' = "Done" /\ reached > Len(rewritten) /\ final' = Compose
        /\ UNCHANGED <<circuit, reached, perm, rewritten, placement, ideal, trace, device>>
    BY DEF Report
  <1>2. ElisionShape' /\ TraceIsRun' /\ Redirected' /\ Carried'
    BY <1>1 DEF OInv, ElisionShape, TraceIsRun, Redirected, Carried, HasControlFlow
  <1>3. Composed'
    BY <1>1 DEF OInv, ElisionShape, Carried, Composed, Compose
  <1> QED BY <1>2, <1>3 DEF OInv

(* The invariant of elision, routing and composition is inductive. *)
THEOREM OutputsInductive == PermSpec => []OInv
  <1>1. OInv /\ [PermNext]_permVars => OInv'
    <2> SUFFICES ASSUME OInv, [PermNext]_permVars PROVE OInv'
      OBVIOUS
    <2>1. CASE UNCHANGED permVars
      BY <2>1 DEF permVars, OInv, ElisionShape, TraceIsRun, Redirected, Carried, Composed, Compose,
                  HasControlFlow
    <2>2. CASE PermNext
      BY <2>2, ElideOInv, PreserveOInv, PlaceOInv, EmitOInv, MoveOInv, FinishOInv DEF PermNext
    <2> QED BY <2>1, <2>2
  <1> QED BY <1>1, InitOInv, PTL DEF PermSpec

(* The layout handed out says where the outputs of the original circuit    *)
(* are, and its measurements read the same (compose_final_layout).         *)
THEOREM OutputsFound == PermSpec => []OutputsWhereTold
  <1>1. OInv => OutputsWhereTold
    <2> SUFFICES ASSUME OInv, phase = "Done"
                 PROVE  /\ \A q \in Qubits : device.held[final[q]] = ideal.held[q]
                        /\ device.read = ideal.read
      BY DEF OutputsWhereTold
    <2>1. reached - 1 = Len(rewritten) /\ final = [q \in Qubits |-> placement[perm[q]]]
      BY DEF OInv, ElisionShape, Composed, Compose
    <2>2. /\ perm \in [Qubits -> Qubits] /\ placement \in [Wires -> DeviceQubits]
          /\ Matches(ideal, trace[reached - 1], perm) /\ Matches(trace[reached - 1], device, placement)
      BY <2>1 DEF OInv, ElisionShape, Redirected, Carried
    <2> QED BY <2>1, <2>2 DEF Matches, Agree, Wires
  <1> QED BY <1>1, OutputsInductive, PTL
=============================================================================
